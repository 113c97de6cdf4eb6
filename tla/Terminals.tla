------------------------------ MODULE Terminals ------------------------------
(***************************************************************************)
(* Terminals the daemon runs for the agent (hub/terminal.go), driven by    *)
(* the operation goroutines of reverse.go and ended by Hub.Close.          *)
(*                                                                         *)
(* A terminal's processes are told apart by what the code can do to them:  *)
(* the leader it started, a child in the leader's process group, and a     *)
(* descendant that has left the group but still holds the output pipe, for *)
(* which commandProcess.Wait waits too.                                    *)
(***************************************************************************)
EXTENDS Naturals, FiniteSets

CONSTANTS
    Operations,   \* goroutines that run handleReverse
    Terminals,    \* terminals there is room for
    Sessions,
    None

Closer == "closer"

ASSUME TerminalAssumption ==
    /\ None \notin Operations \cup Terminals \cup Sessions
    /\ Closer \notin Operations

Killers == Operations \cup {Closer}
Kinds == {"create", "output", "wait", "kill", "release"}

VARIABLES
    hubClosed,   \* Hub.closed; the lifetime context is over with it
    closed,      \* terminalManager.closed
    closing,     \* how far Hub.Close has come
    doomed,      \* terminals terminalManager.close has still to kill
    over,        \* operations whose context is over
    kind,        \* per operation: what it was asked to do
    session,     \* per operation: the session the request names
    target,      \* per killer: the terminal it works on
    pc,          \* per killer: where it stands
    entries,     \* keys of terminalManager.entries
    owner,       \* per terminal: its session
    alive,       \* per terminal: its processes
    end,         \* per terminal: how the leader ended
    wait,        \* per terminal: how far its wait goroutine has come
    status,      \* per terminal: exitCode and signal as stored
    told         \* per terminal: the exit statuses the agent was told

closeVars == <<hubClosed, closed, closing, doomed>>
operationVars == <<over, kind, session, target, pc>>
processVars == <<alive, end, wait, status>>
vars == <<closeVars, operationVars, entries, owner, processVars, told>>

Ends == {"running", "exited", "killed"}

TypeOK ==
    /\ hubClosed \in BOOLEAN /\ closed \in BOOLEAN
    /\ closing \in {"open", "flagged", "stored", "taken", "killed", "done"}
    /\ doomed \in SUBSET Terminals
    /\ over \in SUBSET Operations
    /\ kind \in [Operations -> Kinds \cup {None}]
    /\ session \in [Operations -> Sessions \cup {None}]
    /\ target \in [Killers -> Terminals \cup {None}]
    /\ pc \in [Killers -> {"idle", "started", "opened", "found", "signalling",
                           "awaiting"}]
    /\ \A k \in Killers : pc[k] \in {"found", "signalling", "awaiting"} =>
                          target[k] \in {t \in Terminals : wait[t] # "none"}
    /\ entries \in SUBSET Terminals
    /\ owner \in [Terminals -> Sessions \cup {None}]
    /\ alive \in [Terminals -> SUBSET {"leader", "child", "escaped"}]
    /\ end \in [Terminals -> Ends]
    /\ wait \in [Terminals -> {"none", "waiting", "reaped", "done"}]
    /\ status \in [Terminals -> Ends]
    /\ told \in [Terminals -> SUBSET Ends]

Init ==
    /\ hubClosed = FALSE /\ closed = FALSE
    /\ closing = "open"
    /\ doomed = {} /\ over = {}
    /\ kind = [o \in Operations |-> None]
    /\ session = [o \in Operations |-> None]
    /\ target = [k \in Killers |-> None]
    /\ pc = [k \in Killers |-> "idle"]
    /\ entries = {}
    /\ owner = [t \in Terminals |-> None]
    /\ alive = [t \in Terminals |-> {}]
    /\ end = [t \in Terminals |-> "running"]
    /\ wait = [t \in Terminals |-> "none"]
    /\ status = [t \in Terminals |-> "running"]
    /\ told = [t \in Terminals |-> {}]

-----------------------------------------------------------------------------
Working == {o \in Operations : pc[o] # "idle"}

Goto(k, from, to) ==
    /\ pc[k] = from
    /\ pc' = [pc EXCEPT ![k] = to]
    /\ UNCHANGED <<over, kind, session, target>>

\* A killer has ended: an operation's goroutine is no more, the closer goes on.
Ended(k, from) ==
    /\ pc[k] = from
    /\ pc' = [pc EXCEPT ![k] = "idle"]
    /\ target' = [target EXCEPT ![k] = None]
    /\ over' = over \ {k}
    /\ kind' = [o \in Operations |-> IF o = k THEN None ELSE kind[o]]
    /\ session' = [o \in Operations |-> IF o = k THEN None ELSE session[o]]

(* reverse.go:66-79, 94-96: operations start while the hub is open.  The   *)
(* context of a connection is over when it goes down or the hub closes.    *)

Starts(o, k, s, t) ==
    /\ ~hubClosed /\ pc[o] = "idle"
    /\ pc' = [pc EXCEPT ![o] = "started"]
    /\ kind' = [kind EXCEPT ![o] = k]
    /\ session' = [session EXCEPT ![o] = s]
    /\ target' = [target EXCEPT ![o] = IF k = "create" THEN None ELSE t]
    /\ UNCHANGED <<closeVars, over, entries, owner, processVars, told>>

AgentGoes ==
    /\ over' = Working /\ over # Working
    /\ UNCHANGED <<closeVars, kind, session, target, pc, entries, owner, processVars,
                   told>>

Skipped(o) ==
    /\ o \in over
    /\ Ended(o, "started")
    /\ UNCHANGED <<closeVars, entries, owner, processVars, told>>

-----------------------------------------------------------------------------
(* createPinned. *)

CreateChecks(o) ==
    /\ kind[o] = "create" /\ ~closed
    /\ Goto(o, "started", "opened")
    /\ UNCHANGED <<closeVars, entries, owner, processVars, told>>

\* Closed at either look, a missing argument, a bad directory, a failed start.
CreateFails(o) ==
    /\ kind[o] = "create"
    /\ Ended(o, "started") \/ Ended(o, "opened")
    /\ UNCHANGED <<closeVars, entries, owner, processVars, told>>

CreateProcess(o, t) ==
    /\ kind[o] = "create" /\ Ended(o, "opened")
    /\ wait[t] = "none"
    /\ entries' = entries \cup {t}
    /\ owner' = [owner EXCEPT ![t] = session[o]]
    /\ alive' = [alive EXCEPT ![t] = {"leader"}]
    /\ wait' = [wait EXCEPT ![t] = "waiting"]
    /\ UNCHANGED <<closeVars, end, status, told>>

\* Mutant: closed is not looked at again under accessMutex.
CreateUnchecked(o, t) == CreateProcess(o, t)

CreateStarts(o, t) == ~closed /\ CreateProcess(o, t)

-----------------------------------------------------------------------------
(* get, and the operations that look a terminal up. *)

Mine(o) == target[o] \in entries /\ owner[target[o]] = session[o]

Finds(o) ==
    /\ kind[o] \in {"output", "wait", "kill"} /\ Mine(o)
    /\ Goto(o, "started", "found")
    /\ UNCHANGED <<closeVars, entries, owner, processVars, told>>

\* release: look-up and deletion are one critical section.
Releases(o) ==
    /\ kind[o] = "release" /\ Mine(o)
    /\ Goto(o, "started", "found")
    /\ entries' = entries \ {target[o]}
    /\ UNCHANGED <<closeVars, owner, processVars, told>>

Unknown(o) ==
    /\ kind[o] \in Kinds \ {"create"} /\ ~Mine(o)
    /\ Ended(o, "started")
    /\ UNCHANGED <<closeVars, entries, owner, processVars, told>>

Tells(o) ==
    /\ wait[target[o]] = "done"
    /\ told' = [told EXCEPT ![target[o]] = @ \cup {status[target[o]]}]

OutputReplies(o) ==
    /\ kind[o] = "output" /\ Ended(o, "found")
    /\ \/ Tells(o)
       \/ wait[target[o]] # "done" /\ UNCHANGED told
    /\ UNCHANGED <<closeVars, entries, owner, processVars>>

\* Mutant: waitForExit does not watch its context.
WaitForExitOnly(o) ==
    /\ kind[o] = "wait" /\ Ended(o, "found") /\ Tells(o)
    /\ UNCHANGED <<closeVars, entries, owner, processVars>>

WaitReplies(o) ==
    /\ kind[o] = "wait" /\ Ended(o, "found")
    /\ \/ Tells(o)
       \/ o \in over /\ UNCHANGED told
    /\ UNCHANGED <<closeVars, entries, owner, processVars>>

-----------------------------------------------------------------------------
(* terminal.kill, called by kill, by release and by close. *)

Of(k) == {o \in Operations : kind[o] = k}

Killing == {Closer} \cup Of("kill") \cup Of("release")

KillReturns(k, from) ==
    Ended(k, from) /\ wait[target[k]] = "done" /\ UNCHANGED told

KillChecks(k) ==
    /\ k \in Killing
    /\ \/ KillReturns(k, "found")
       \/ Goto(k, "found", "signalling") /\ wait[target[k]] # "done" /\ UNCHANGED told
    /\ UNCHANGED <<closeVars, entries, owner, processVars>>

\* SIGKILL to the process group.  If the group is empty the fallback to the
\* leader alone finds it finished.
KillSignals(k) ==
    LET t == target[k] IN
    /\ Goto(k, "signalling", "awaiting")
    /\ alive' = [alive EXCEPT ![t] = @ \ {"leader", "child"}]
    /\ end' = [end EXCEPT ![t] = IF "leader" \in alive[t] THEN "killed" ELSE @]
    /\ UNCHANGED <<closeVars, entries, owner, wait, status, told>>

KillAwaits(k) ==
    /\ KillReturns(k, "awaiting")
    /\ UNCHANGED <<closeVars, entries, owner, processVars>>

-----------------------------------------------------------------------------
(* The processes, and the goroutine that runs terminal.wait. *)

Forks(t, p) ==
    /\ alive[t] \cap {"leader", "child"} # {} /\ p \in {"child", "escaped"}
    /\ p \notin alive[t]
    /\ alive' = [alive EXCEPT ![t] = @ \cup {p}]
    /\ UNCHANGED <<closeVars, operationVars, entries, owner, end, wait,
                   status, told>>

Exits(t, p) ==
    /\ p \in alive[t]
    /\ alive' = [alive EXCEPT ![t] = @ \ {p}]
    /\ end' = [end EXCEPT ![t] = IF p = "leader" THEN "exited" ELSE @]
    /\ UNCHANGED <<closeVars, operationVars, entries, owner, wait, status,
                   told>>

WaitReturns(t) ==
    /\ wait[t] = "waiting" /\ alive[t] = {}
    /\ wait' = [wait EXCEPT ![t] = "reaped"]
    /\ UNCHANGED <<closeVars, operationVars, entries, owner, alive, end,
                   status, told>>

\* Mutant: done is closed before the exit status is stored.
ClosesEarly(t) ==
    /\ \/ wait[t] = "reaped" /\ wait' = [wait EXCEPT ![t] = "done"] /\ UNCHANGED status
       \/ wait[t] = "done" /\ status' = [status EXCEPT ![t] = end[t]] /\ UNCHANGED wait
    /\ UNCHANGED <<closeVars, operationVars, entries, owner, alive, end,
                   told>>

\* Mutant: done is closed on the path of a normal exit only.
ClosesOnExit(t) ==
    /\ wait[t] = "reaped"
    /\ wait' = [wait EXCEPT ![t] = IF end[t] = "exited" THEN "done" ELSE @]
    /\ status' = [status EXCEPT ![t] = end[t]]
    /\ UNCHANGED <<closeVars, operationVars, entries, owner, alive, end,
                   told>>

\* The status is stored under the lock, then done is closed.
StoresStatus(t) ==
    /\ wait[t] = "reaped"
    /\ wait' = [wait EXCEPT ![t] = "done"]
    /\ status' = [status EXCEPT ![t] = end[t]]
    /\ UNCHANGED <<closeVars, operationVars, entries, owner, alive, end,
                   told>>

-----------------------------------------------------------------------------
(* Hub.Close as far as terminals go: the flag and the context, then        *)
(* terminals.close(), then reverseWait.Wait().                             *)

CloseFlags ==
    /\ closing = "open"
    /\ closing' = "flagged"
    /\ hubClosed' = TRUE
    /\ over' = Working
    /\ UNCHANGED <<closed, doomed, kind, session, target, pc, entries, owner,
                   processVars, told>>

CloseStores ==
    /\ closing = "flagged"
    /\ closing' = "stored"
    /\ closed' = TRUE
    /\ UNCHANGED <<hubClosed, doomed, operationVars, entries, owner,
                   processVars, told>>

CloseTakes ==
    /\ closing = "stored"
    /\ closing' = "taken"
    /\ doomed' = entries
    /\ entries' = {}
    /\ UNCHANGED <<hubClosed, closed, operationVars, owner, processVars, told>>

CloseKills(t) ==
    /\ closing = "taken" /\ t \in doomed
    /\ pc[Closer] = "idle"
    /\ pc' = [pc EXCEPT ![Closer] = "found"]
    /\ target' = [target EXCEPT ![Closer] = t]
    /\ doomed' = doomed \ {t}
    /\ UNCHANGED <<hubClosed, closed, closing, over, kind, session, entries, owner, processVars,
                   told>>

CloseHasKilled ==
    /\ closing = "taken" /\ doomed = {} /\ pc[Closer] = "idle"
    /\ closing' = "killed"
    /\ UNCHANGED <<hubClosed, closed, doomed, operationVars, entries, owner,
                   processVars, told>>

\* Mutant: Close does not wait for the operations.
CloseHurries ==
    /\ closing = "killed"
    /\ closing' = "done"
    /\ UNCHANGED <<hubClosed, closed, doomed, operationVars, entries, owner,
                   processVars, told>>

CloseWaits ==
    /\ closing = "killed" /\ Working = {}
    /\ closing' = "done"
    /\ UNCHANGED <<hubClosed, closed, doomed, operationVars, entries, owner,
                   processVars, told>>

-----------------------------------------------------------------------------
OperationStep(o) ==
    \/ Skipped(o) \/ CreateChecks(o) \/ CreateFails(o) \/ Finds(o) \/ Releases(o)
    \/ Unknown(o) \/ OutputReplies(o) \/ WaitReplies(o)
    \/ \E t \in Terminals : CreateStarts(o, t)

KillStep(k) == KillChecks(k) \/ KillSignals(k) \/ KillAwaits(k)

WaitStep(t) == WaitReturns(t) \/ StoresStatus(t)

CloseStep ==
    \/ CloseStores \/ CloseTakes \/ CloseHasKilled \/ CloseWaits
    \/ \E t \in Terminals : CloseKills(t)

\* Nothing is left to do once Close has returned.
Terminated == closing = "done" /\ UNCHANGED vars

Next ==
    \/ \E o \in Operations :
         \/ \E k \in Kinds, s \in Sessions, t \in Terminals : Starts(o, k, s, t)
         \/ OperationStep(o)
    \/ \E k \in Killers : KillStep(k)
    \/ \E t \in Terminals :
         \/ WaitStep(t)
         \/ \E p \in {"leader", "child", "escaped"} : Forks(t, p) \/ Exits(t, p)
    \/ AgentGoes \/ CloseFlags \/ CloseStep
    \/ Terminated

Spec == Init /\ [][Next]_vars

\* Go runs its goroutines; processes may run for ever.
Fairness ==
    /\ \A o \in Operations : WF_vars(OperationStep(o))
    /\ \A k \in Killers : WF_vars(KillStep(k))
    /\ \A t \in Terminals : WF_vars(WaitStep(t))
    /\ WF_vars(CloseStep)

FairSpec == Spec /\ Fairness

-----------------------------------------------------------------------------
(* terminal.go:198-200, 283-316: through every race of create, release and  *)
(* close, a process that runs is in the table, which close has not taken    *)
(* yet, or in the hands of someone who has still to kill it.                *)
BeingKilled(t) ==
    \/ t \in doomed
    \/ \E k \in Killing : target[k] = t /\ pc[k] \in {"found", "signalling"}

NoOrphan ==
    \A t \in Terminals :
        alive[t] \cap {"leader", "child"} # {} =>
            \/ t \in entries /\ closing \in {"open", "flagged", "stored"}
            \/ BeingKilled(t)

(* terminal.go:121-122, hub.go:146-147: when Close returns every process of *)
(* every terminal is gone and reaped, and no operation is in flight.        *)
CloseReaps ==
    closing = "done" =>
        Working = {} /\ \A t \in Terminals : alive[t] = {} /\ wait[t] \in {"none", "done"}

(* terminal.go:84-88: an exit status that is reported is how the process    *)
(* ended, whoever reads it and however early.                               *)
StatusIsTrue == \A t \in Terminals : told[t] \subseteq {end[t]} \ {"running"}

(* terminal.go:109-124, hub.go:146-147: Close returns however long the      *)
(* commands would run, unless a descendant has left the process group and   *)
(* keeps the output pipe open.                                              *)
Escaped == \E t \in Terminals : "escaped" \in alive[t]

CloseEnds == closing # "open" ~> closing = "done" \/ Escaped

(* terminal.go:260-262: an operation that awaits an exit ends with its       *)
(* agent's connection, whatever the processes do.                           *)
WaitsEnd ==
    \A o \in Operations :
        o \in over /\ kind[o] = "wait" ~> pc[o] = "idle"
=============================================================================
