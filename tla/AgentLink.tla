------------------------------ MODULE AgentLink ------------------------------
(***************************************************************************)
(* The hub's upstream connection: Ensure, publishAgent, agentDisconnected  *)
(* and Close (backend/internal/hub/agenttransport.go, hub.go).             *)
(*                                                                         *)
(* A connection is named by the generation publishAgent gives it, so       *)
(* "agent = 0" is a nil pointer.  agentDisconnected is two critical        *)
(* sections with a gap between them: Detach resets the pointer under       *)
(* agentMutex, Clear empties the request tables under stateMutex.  The     *)
(* modules that extend this one add the tables to Clear and to CloseSweep. *)
(***************************************************************************)
EXTENDS Naturals

CONSTANTS
    Ensurers,       \* goroutines that may call Ensure: readers, RPCs, watcher
    MaxGeneration   \* bound on the number of connections ever published

ASSUME LinkAssumption ==
    /\ MaxGeneration \in Nat
    /\ Ensurers \cap {"free", "closer"} = {}

VARIABLES
    closed,           \* Hub.closed
    agent,            \* generation of the published connection, 0 when nil
    agentGeneration,  \* Hub.agentGeneration
    connectionMutex,  \* its holder: an ensurer, "closer" or "free"
    clearing,         \* generations between Detach and Clear
    closing           \* how far the goroutine that runs Close has come

linkVars ==
    <<closed, agent, agentGeneration, connectionMutex, clearing, closing>>

CloseStages ==
    {"open", "flagged", "swept", "locked", "clearing", "drained", "done"}

LinkTypeOK ==
    /\ closed \in BOOLEAN
    /\ agent \in Nat
    /\ agentGeneration \in Nat
    /\ connectionMutex \in Ensurers \cup {"free", "closer"}
    /\ clearing \in SUBSET Nat
    /\ closing \in CloseStages

LinkInit ==
    /\ closed = FALSE
    /\ agent = 0
    /\ agentGeneration = 0
    /\ connectionMutex = "free"
    /\ clearing = {}
    /\ closing = "open"

-----------------------------------------------------------------------------
(* Ensure.  Everything between taking and releasing connectionMutex is one *)
(* "dialing" state; the attempts, the call that starts the agent process   *)
(* and the back-off in it change nothing here.                             *)

EnsureRefused(p) == closed /\ connectionMutex # p /\ UNCHANGED linkVars

EnsureAlready(p) ==
    /\ connectionMutex = "free"
    /\ ~closed
    /\ agent # 0
    /\ UNCHANGED linkVars

\* Mutant: a closed hub goes on dialing, so the watcher never leaves the mutex alone.
EnsureDialWhenClosed(p) ==
    /\ connectionMutex = "free"
    /\ agent = 0
    /\ connectionMutex' = p
    /\ UNCHANGED <<closed, agent, agentGeneration, clearing, closing>>

EnsureDial(p) ==
    /\ connectionMutex = "free"
    /\ ~closed
    /\ agent = 0
    /\ connectionMutex' = p
    /\ UNCHANGED <<closed, agent, agentGeneration, clearing, closing>>

\* The dial succeeded and publishAgent found the hub still open.
EnsurePublish(p) ==
    /\ connectionMutex = p
    /\ ~closed
    /\ agentGeneration < MaxGeneration
    /\ agentGeneration' = agentGeneration + 1
    /\ agent' = agentGeneration + 1
    /\ connectionMutex' = "free"
    /\ UNCHANGED <<closed, clearing, closing>>

\* Attempts exhausted, context over, or the hub closed before publication.
EnsureGiveUp(p) ==
    /\ connectionMutex = p
    /\ connectionMutex' = "free"
    /\ UNCHANGED <<closed, agent, agentGeneration, clearing, closing>>

EnsureSucceeds(p) == EnsureAlready(p) \/ EnsurePublish(p)

EnsureFails(p) == EnsureRefused(p) \/ EnsureGiveUp(p)

-----------------------------------------------------------------------------
(* agentDisconnected, entered by the generation's own reader when a read   *)
(* fails, by DisconnectAgent, and by Close.  Whoever finds the pointer     *)
(* already changed returns without a second step.                          *)

Detach(g) ==
    /\ agent = g
    /\ g # 0
    /\ agent' = 0
    /\ clearing' = clearing \cup {g}
    /\ UNCHANGED <<closed, agentGeneration, connectionMutex, closing>>

\* The reader's or DisconnectAgent's second critical section.
Clear(g) ==
    /\ g \in clearing
    /\ ~(closing = "clearing" /\ g = agentGeneration)
    /\ clearing' = clearing \ {g}
    /\ UNCHANGED <<closed, agent, agentGeneration, connectionMutex, closing>>

-----------------------------------------------------------------------------
(* Close.  A second caller only waits for the first, so one goroutine is   *)
(* enough; it owns the steps below.                                        *)

CloseBegin ==
    /\ closing = "open"
    /\ closed' = TRUE
    /\ closing' = "flagged"
    /\ UNCHANGED <<agent, agentGeneration, connectionMutex, clearing>>

CloseSweep ==
    /\ closing = "flagged"
    /\ closing' = "swept"
    /\ UNCHANGED <<closed, agent, agentGeneration, connectionMutex, clearing>>

CloseLock ==
    /\ closing = "swept"
    /\ connectionMutex = "free"
    /\ connectionMutex' = "closer"
    /\ closing' = "locked"
    /\ UNCHANGED <<closed, agent, agentGeneration, clearing>>

CloseDetach ==
    /\ closing = "locked"
    /\ agent # 0
    /\ agent' = 0
    /\ clearing' = clearing \cup {agent}
    /\ closing' = "clearing"
    /\ UNCHANGED <<closed, agentGeneration, connectionMutex>>

\* No connection, or its reader won the race to detach it.
CloseNothing ==
    /\ closing = "locked"
    /\ agent = 0
    /\ connectionMutex' = "free"
    /\ closing' = "drained"
    /\ UNCHANGED <<closed, agent, agentGeneration, clearing>>

CloseClear ==
    /\ closing = "clearing"
    /\ clearing' = clearing \ {agentGeneration}
    /\ connectionMutex' = "free"
    /\ closing' = "drained"
    /\ UNCHANGED <<closed, agent, agentGeneration>>

CloseWait ==
    /\ closing = "drained"
    /\ closing' = "done"
    /\ UNCHANGED <<closed, agent, agentGeneration, connectionMutex, clearing>>

-----------------------------------------------------------------------------
(* The connection stays up, or its teardown still has its second step to do. *)
Attached(g) == g = agent \/ g \in clearing

LinkNext ==
    \/ \E p \in Ensurers : EnsureDial(p) \/ EnsurePublish(p) \/ EnsureGiveUp(p)
    \/ \E g \in 1..MaxGeneration : Detach(g) \/ Clear(g)
    \/ CloseBegin \/ CloseSweep \/ CloseLock
    \/ CloseDetach \/ CloseNothing \/ CloseClear \/ CloseWait

LinkSpec == LinkInit /\ [][LinkNext]_linkVars

-----------------------------------------------------------------------------
(* hub.go:140-142: once Close has released connectionMutex no connection is *)
(* published, and none will be: the flag, the mutex and the check inside    *)
(* publishAgent together make Close a barrier for every in-flight Ensure.   *)
CloseBarrier == closing \in {"drained", "done"} => agent = 0 /\ closed

(* agenttransport.go:105-120: the published connection is always the latest *)
(* generation, and a generation being torn down is not the published one.   *)
CurrentIsLatest ==
    /\ agent # 0 => agent = agentGeneration
    /\ agent \notin clearing
    /\ \A g \in clearing : g <= agentGeneration

(* agenttransport.go:29-36: connectionMutex keeps two goroutines that both  *)
(* saw "no agent" from publishing over each other's live connection.        *)
PublishReplacesNothing == [][agent' > agent => agent = 0]_linkVars
=============================================================================
