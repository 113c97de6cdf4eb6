----------------------------- MODULE AgentProcess -----------------------------
(***************************************************************************)
(* The one agent process the daemon manages (process/lifecycle.go,         *)
(* inspection.go, state.go), as the server starts, restarts and stops it   *)
(* (server/agentprocess.go, stack_routes.go, lifecycle.go).                *)
(*                                                                         *)
(* Daemons run on one data directory and one configuration, each once; the *)
(* HTTP port admits the next one when the one before has released it.      *)
(* agentLifecycleMutex is held from Begin to the end of a transaction, so  *)
(* a daemon is in one transaction at a time.  A process stands for its     *)
(* number and start stamp together: a number that was given to another     *)
(* process no longer matches the state file.                               *)
(***************************************************************************)
EXTENDS Naturals, FiniteSets

CONSTANTS
    Daemons,
    Processes,  \* agents that may be spawned
    Stranger,   \* a process of somebody else on the agent's port
    None

ASSUME ProcessAssumption ==
    /\ {Stranger, None} \cap (Daemons \cup Processes) = {}
    /\ Stranger # None

VARIABLES
    port,       \* the daemon that listens on the HTTP port
    stage,      \* per daemon: how far Run has come
    keeps,      \* daemons that leave the agent running when they stop
    kind,       \* per daemon: the request its transaction serves
    pc,         \* per daemon: where its transaction stands
    target,     \* per daemon: the process it kills, or has spawned
    state,      \* the process named in the state file
    alive,      \* agents that run
    listener,   \* who listens on the agent's port
    by,         \* per process: the daemon that spawned it
    lost,       \* history: agents a crash or a failed clean-up left behind
    contested   \* history: two daemons ran at the same time

daemonVars == <<port, stage, keeps, contested>>
transactionVars == <<kind, pc, target>>
systemVars == <<state, alive, listener, by, lost>>
vars == <<daemonVars, transactionVars, systemVars>>

Kinds == {"ensure", "force", "retry"}
Stages == {"off", "serving", "draining", "closing", "closed", "stopped", "exited"}
Places ==
    {"free", "looking", "starting", "killing", "confirming", "spawning", "spawned",
     "cleaning", "waiting", "stopping", "removing"}

TypeOK ==
    /\ port \in Daemons \cup {None}
    /\ stage \in [Daemons -> Stages]
    /\ keeps \in SUBSET Daemons
    /\ contested \in BOOLEAN
    /\ kind \in [Daemons -> Kinds \cup {None}]
    /\ pc \in [Daemons -> Places]
    /\ target \in [Daemons -> Processes \cup {None}]
    /\ \A d \in Daemons : pc[d] \in {"killing", "spawned", "cleaning", "stopping"} =>
                          target[d] \in {p \in Processes : by[p] # None}
    /\ state \in {p \in Processes : by[p] # None} \cup {None}
    /\ alive \in SUBSET {p \in Processes : by[p] # None}
    /\ listener \in alive \cup {Stranger, None}
    /\ by \in [Processes -> Daemons \cup {None}]
    /\ lost \in SUBSET Processes

Init ==
    /\ port = None
    /\ stage = [d \in Daemons |-> "off"]
    /\ keeps = {}
    /\ contested = FALSE
    /\ kind = [d \in Daemons |-> None]
    /\ pc = [d \in Daemons |-> "free"]
    /\ target = [d \in Daemons |-> None]
    /\ state = None
    /\ alive = {} /\ lost = {}
    /\ listener \in {Stranger, None}
    /\ by = [p \in Processes |-> None]

-----------------------------------------------------------------------------
\* Mutant: a process is owned once it listens.
OwnedIfListening == {state} \cap alive \cap {listener}

\* Status: the process of the state file, listening or not yet.
Owned == {state} \cap alive

Foreign == {listener} \ (Owned \cup {None})

Goto(d, from, to) ==
    pc[d] = from /\ pc' = [pc EXCEPT ![d] = to] /\ UNCHANGED <<kind, target>>

\* The transaction goes on without the process it was about.
LetGo(d, from, to) ==
    /\ pc[d] = from
    /\ pc' = [pc EXCEPT ![d] = to]
    /\ kind' = [kind EXCEPT ![d] = None]
    /\ target' = [target EXCEPT ![d] = None]

\* The transaction is over and agentLifecycleMutex is released.
Over(d, from) == \E f \in from : LetGo(d, f, "free")

-----------------------------------------------------------------------------
(* ensureAgentProcess, handleStackStart, restartOwnedAgentForAuthentication *)

\* Mutant: closing is not read again under the mutex.
BeginUnchecked(d, k) ==
    /\ stage[d] \in {"serving", "draining", "closing", "closed"} /\ pc[d] = "free"
    /\ pc' = [pc EXCEPT ![d] = "looking"]
    /\ kind' = [kind EXCEPT ![d] = k]
    /\ UNCHANGED <<daemonVars, target, systemVars>>

Begin(d, k) ==
    /\ stage[d] \in {"serving", "draining"} /\ pc[d] = "free"
    /\ pc' = [pc EXCEPT ![d] = "looking"]
    /\ kind' = [kind EXCEPT ![d] = k]
    /\ UNCHANGED <<daemonVars, target, systemVars>>

\* An ensure takes any listener for the agent; a retry wants an owned one.
Looks(d) ==
    /\ \/ kind[d] = "ensure" /\ listener # None /\ LetGo(d, "looking", "waiting")
       \/ kind[d] = "retry" /\ Owned = {} /\ Over(d, {"looking"})
       \/ /\ kind[d] = "ensure" => listener = None
          /\ kind[d] = "retry" => Owned # {}
          /\ Goto(d, "looking", "starting")
    /\ UNCHANGED <<daemonVars, systemVars>>

\* The ports or the state file cannot be read, no command, a failed start.
Fails(d) ==
    /\ Over(d, {"looking", "starting", "confirming", "spawning"})
    /\ UNCHANGED <<daemonVars, systemVars>>

AlreadyRunning(d) ==
    /\ kind[d] = "ensure" /\ Owned # {}
    /\ LetGo(d, "starting", "waiting")
    /\ UNCHANGED <<daemonVars, systemVars>>

Restarts(d) ==
    /\ pc[d] = "starting" /\ kind[d] # "ensure" /\ Owned # {}
    /\ pc' = [pc EXCEPT ![d] = "killing"]
    /\ kind' = [kind EXCEPT ![d] = None]
    /\ target' = [target EXCEPT ![d] = state]
    /\ UNCHANGED <<daemonVars, systemVars>>

\* Mutant: the start goes on as soon as the signal is sent.
KillHurries(d) ==
    /\ LetGo(d, "killing", "spawning")
    /\ UNCHANGED <<daemonVars, systemVars>>

\* KillProcess returns nil: the process is gone.
Killed(d) ==
    /\ pc[d] = "killing" /\ target[d] \notin alive
    /\ LetGo(d, "killing", "confirming")
    /\ UNCHANGED <<daemonVars, systemVars>>

\* The identity could not be verified, or the process outlived SIGKILL.
KillFails(d) ==
    /\ Over(d, {"killing"})
    /\ UNCHANGED <<daemonVars, systemVars>>

\* Nothing is owned and nobody else has the port.
Clear(d) ==
    /\ Owned = {} /\ Foreign = {}
    /\ LetGo(d, "starting", "spawning") \/ LetGo(d, "confirming", "spawning")
    /\ UNCHANGED <<daemonVars, systemVars>>

Blocked(d) ==
    /\ Owned \cup Foreign # {}
    /\ \/ Over(d, {"confirming"})
       \/ Owned = {} /\ Over(d, {"starting"})
    /\ UNCHANGED <<daemonVars, systemVars>>

Spawns(d, p) ==
    /\ pc[d] = "spawning" /\ by[p] = None
    /\ pc' = [pc EXCEPT ![d] = "spawned"]
    /\ target' = [target EXCEPT ![d] = p]
    /\ by' = [by EXCEPT ![p] = d]
    /\ alive' = alive \cup {p}
    /\ UNCHANGED <<daemonVars, kind, state, listener, lost>>

Saves(d) ==
    /\ LetGo(d, "spawned", "waiting")
    /\ state' = target[d]
    /\ UNCHANGED <<daemonVars, alive, listener, by, lost>>

\* Mutant: an agent whose state could not be saved is left to itself.
SaveFailsUncleaned(d) ==
    /\ Over(d, {"spawned"})
    /\ UNCHANGED <<daemonVars, systemVars>>

\* No start stamp, or the state file could not be written.
SaveFails(d) ==
    /\ Goto(d, "spawned", "cleaning")
    /\ UNCHANGED <<daemonVars, systemVars>>

Cleaned(d) ==
    /\ pc[d] = "cleaning" /\ target[d] \notin alive
    /\ Over(d, {"cleaning"})
    /\ UNCHANGED <<daemonVars, systemVars>>

CleanupFails(d) ==
    /\ Over(d, {"cleaning"})
    /\ lost' = lost \cup ({target[d]} \cap alive)
    /\ UNCHANGED <<daemonVars, state, alive, listener, by>>

\* waitForAgent: somebody accepts a connection, or the context is over.
WaitEnds(d) ==
    /\ Over(d, {"waiting"})
    /\ UNCHANGED <<daemonVars, systemVars>>

-----------------------------------------------------------------------------
(* Server.Run and Server.Close. *)

Moves(d, from, to) ==
    /\ stage[d] = from /\ stage' = [stage EXCEPT ![d] = to]

Listens(d) ==
    /\ port = None /\ Moves(d, "off", "serving")
    /\ port' = d
    /\ contested' = (contested \/ \E e \in Daemons \ {d} :
                                      stage[e] \notin {"off", "stopped", "exited"})
    /\ UNCHANGED <<keeps, transactionVars, systemVars>>

\* Shutdown closes the listener; handlers it has no time for go on.
Shutdown(d) ==
    /\ Moves(d, "serving", "draining")
    /\ port' = None
    /\ keeps' \in {keeps, keeps \cup {d}}
    /\ UNCHANGED <<contested, transactionVars, systemVars>>

CloseFlags(d) ==
    /\ Moves(d, "draining", "closing")
    /\ UNCHANGED <<port, keeps, contested, transactionVars, systemVars>>

\* Mutant: Close does not wait for the transaction in flight.
CloseHurries(d) ==
    /\ Moves(d, "closing", "closed")
    /\ UNCHANGED <<port, keeps, contested, transactionVars, systemVars>>

\* Close takes and releases agentLifecycleMutex.
ClosePasses(d) ==
    /\ pc[d] = "free" /\ Moves(d, "closing", "closed")
    /\ UNCHANGED <<port, keeps, contested, transactionVars, systemVars>>

Leaves(d) ==
    /\ d \in keeps /\ Moves(d, "closed", "exited")
    /\ UNCHANGED <<port, keeps, contested, transactionVars, systemVars>>

\* process.Stop.
Stops(d) ==
    /\ stage[d] = "closed" /\ d \notin keeps /\ pc[d] = "free"
    /\ \/ Owned # {} /\ pc' = [pc EXCEPT ![d] = "stopping"]
       \/ Owned \cup Foreign = {} /\ pc' = [pc EXCEPT ![d] = "removing"]
    /\ target' = [target EXCEPT ![d] = IF Owned # {} THEN state ELSE None]
    /\ UNCHANGED <<daemonVars, kind, systemVars>>

\* Mutant: the state is removed once the signal is sent.
StopHurries(d) ==
    /\ LetGo(d, "stopping", "removing")
    /\ UNCHANGED <<daemonVars, systemVars>>

StopKilled(d) ==
    /\ pc[d] = "stopping" /\ target[d] \notin alive
    /\ LetGo(d, "stopping", "removing")
    /\ UNCHANGED <<daemonVars, systemVars>>

\* An error of the removal is ignored.
StopRemoves(d) ==
    /\ Over(d, {"removing"}) /\ Moves(d, "closed", "stopped")
    /\ state' \in {None, state}
    /\ UNCHANGED <<port, keeps, contested, alive, listener, by, lost>>

\* A foreign listener, an unreadable status or a kill that fails.
StopFails(d) ==
    /\ d \notin keeps /\ Moves(d, "closed", "exited")
    /\ Over(d, {"free", "stopping"})
    /\ UNCHANGED <<port, keeps, contested, systemVars>>

Crash(d) ==
    /\ stage[d] \notin {"off", "stopped", "exited"}
    /\ stage' = [stage EXCEPT ![d] = "exited"]
    /\ port' = IF port = d THEN None ELSE port
    /\ lost' = lost \cup (IF pc[d] \in {"spawned", "cleaning"}
                          THEN {target[d]} \cap alive ELSE {})
    /\ Over(d, Places)
    /\ UNCHANGED <<keeps, contested, state, alive, listener, by>>

-----------------------------------------------------------------------------
(* The agents and the agent's port. *)

Binds(p) ==
    /\ listener = None /\ p \in alive \cup {Stranger}
    /\ listener' = p
    /\ UNCHANGED <<daemonVars, transactionVars, state, alive, by, lost>>

\* By itself or by a signal.
Ends(p) ==
    /\ p \in alive \/ p = listener
    /\ alive' = alive \ {p}
    /\ listener' = IF listener = p THEN None ELSE listener
    /\ UNCHANGED <<daemonVars, transactionVars, state, by, lost>>

-----------------------------------------------------------------------------
TransactionStep(d) ==
    \/ Looks(d) \/ Fails(d) \/ AlreadyRunning(d) \/ Restarts(d) \/ Killed(d)
    \/ KillFails(d) \/ Clear(d) \/ Blocked(d) \/ Saves(d) \/ SaveFails(d)
    \/ Cleaned(d) \/ CleanupFails(d) \/ WaitEnds(d)
    \/ \E p \in Processes : Spawns(d, p)

StopStep(d) ==
    \/ CloseFlags(d) \/ ClosePasses(d) \/ Leaves(d) \/ Stops(d) \/ StopKilled(d)
    \/ StopRemoves(d) \/ StopFails(d)

Next ==
    \/ \E d \in Daemons :
         \/ \E k \in Kinds : Begin(d, k)
         \/ TransactionStep(d) \/ StopStep(d)
         \/ Listens(d) \/ Shutdown(d) \/ Crash(d)
    \/ \E p \in Processes \cup {Stranger} : Binds(p) \/ Ends(p)

Spec == Init /\ [][Next]_vars

-----------------------------------------------------------------------------
(* lifecycle.go:63-99, state.go:1-2: an agent that runs is named in the     *)
(* state file or in the hands of the daemon that spawned it, through ends,  *)
(* restarts, adoption by the next daemon and failed saves.  Excepted are    *)
(* agents a crash or a failed clean-up left, and daemons that overlap.      *)
InHand(p) == \E d \in Daemons : target[d] = p /\ pc[d] \in {"spawned", "cleaning"}

Tracked == contested \/ \A p \in alive : p = state \/ p \in lost \/ InHand(p)

(* inspection.go:138-140, lifecycle.go:40-60: there is one agent, also      *)
(* while it has not bound its port yet, while it is being replaced, and     *)
(* when the daemon after the one that spawned it starts.                    *)
OneAgent == contested \/ Cardinality(alive \ lost) <= 1

(* server/lifecycle.go:117-121: once Close has passed agentLifecycleMutex   *)
(* no request of that daemon spawns an agent, even if daemons overlap.      *)
SpawnBarrier ==
    [][\A d \in Daemons, p \in Processes :
          by'[p] = d /\ by[p] # d => stage[d] \notin {"closed", "stopped", "exited"}]_vars

(* lifecycle.go:102-133: a Stop that reports success leaves no agent, not   *)
(* even one that an earlier daemon spawned or that has not bound its port.  *)
StopLeavesNone ==
    [][\A d \in Daemons :
          stage[d] # "stopped" /\ stage'[d] = "stopped" => contested \/ alive \subseteq lost]_vars
=============================================================================
