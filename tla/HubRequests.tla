----------------------------- MODULE HubRequests -----------------------------
(***************************************************************************)
(* Requests forwarded through the hub: clients' JSON-RPC requests          *)
(* (clientrpc.go, pending.go), the daemon's own CallRPC (rpc.go), the      *)
(* agent's responses (agentdispatch.go), and what a lost client, a lost    *)
(* agent, a timeout or Close does to them.                                 *)
(*                                                                         *)
(* A request or call stands for its own hub identifier: nextID is only     *)
(* ever incremented, so identifiers are never shared.  One goroutine reads *)
(* each client connection and handles its messages one after the other;    *)
(* one reads each agent connection.  Every critical section of stateMutex  *)
(* is one action; what runs outside it is an action of its own.            *)
(***************************************************************************)
EXTENDS AgentLink, FiniteSets, Sequences

CONSTANTS
    Clients,             \* client connections; a reconnect is another client
    Requests,            \* JSON-RPC requests the clients may send
    InitRequests,        \* those whose kind is InitializationRequest
    Calls,               \* CallRPC invocations
    PendingLimit,        \* Policy.PendingLimit
    PendingClientLimit,  \* Policy.PendingClientLimit
    None

ASSUME HubAssumption ==
    /\ InitRequests \subseteq Requests
    /\ Clients \cup Calls \subseteq Ensurers
    /\ Clients \cap Calls = {}
    /\ Requests \cap Calls = {}
    /\ None \notin Clients \cup Requests \cup Calls
    /\ PendingLimit \in Nat
    /\ PendingClientLimit \in Nat

Identifiers == Requests \cup Calls
Goroutines == Clients \cup Calls
Generations == 1..MaxGeneration

VARIABLES
    clients,         \* Hub.clients
    socket,          \* per client: not yet connected, open, closed flag set
    pc,              \* where the goroutine of a client or of a call stands
    current,         \* the request a client's goroutine is handling
    connection,      \* the agent connection sendAgent loaded for a goroutine
    owner,           \* the client that sent a request
    pending,         \* keys of Hub.pending
    detached,        \* pending entries whose client was set to nil
    timers,          \* expiry goroutines started by armPendingTimeout
    internal,        \* keys of Hub.internal
    channel,         \* responses put on a call's channel and not taken
    carrier,         \* generation an identifier was written to, 0 if none
    inbox,           \* message a reader holds between its check and dispatch
    initGeneration,  \* generation that filled initResult, 0 when not cached
    told             \* what the hub sent out about a request, in order

clientVars == <<clients, socket>>
handlerVars == <<pc, current, connection, owner>>
tableVars == <<pending, detached, timers>>
callVars == <<internal, channel>>
agentVars == <<carrier, inbox, initGeneration>>
requestVars == <<clientVars, handlerVars, tableVars, callVars, agentVars, told>>
vars == <<linkVars, requestVars>>

ClientStages ==
    {"offline", "connecting", "reading", "ensuring", "ensured", "registered",
     "writing", "sent", "gone"}
CallStages ==
    {"idle", "ensuring", "ensured", "registered", "writing", "sent", "returned"}
Answers ==
    {"result", "lost", "notice", "timeout", "disconnected", "unsent",
     "offline", "rejected", "cached"}

TypeOK ==
    /\ LinkTypeOK
    /\ clients \in SUBSET Clients
    /\ socket \in [Clients -> {"new", "open", "closed"}]
    /\ pc \in [Goroutines -> ClientStages \cup CallStages]
    /\ current \in [Clients -> Requests \cup {None}]
    /\ connection \in [Goroutines -> Nat]
    /\ owner \in [Requests -> Clients \cup {None}]
    /\ pending \in SUBSET Requests
    /\ detached \in SUBSET pending
    /\ timers \in SUBSET Requests
    /\ internal \in SUBSET Calls
    /\ channel \in [Calls -> Nat]
    /\ carrier \in [Identifiers -> Nat]
    /\ inbox \in [Generations -> Identifiers \cup {None}]
    /\ initGeneration \in Nat
    /\ told \in [Requests -> Seq(Answers)]

Init ==
    /\ LinkInit
    /\ clients = {}
    /\ socket = [c \in Clients |-> "new"]
    /\ pc = [p \in Goroutines |-> IF p \in Clients THEN "offline" ELSE "idle"]
    /\ current = [c \in Clients |-> None]
    /\ connection = [p \in Goroutines |-> 0]
    /\ owner = [r \in Requests |-> None]
    /\ pending = {}
    /\ detached = {}
    /\ timers = {}
    /\ internal = {}
    /\ channel = [k \in Calls |-> 0]
    /\ carrier = [i \in Identifiers |-> 0]
    /\ inbox = [g \in Generations |-> None]
    /\ initGeneration = 0
    /\ told = [r \in Requests |-> <<>>]

-----------------------------------------------------------------------------
Goto(p, from, to) == pc[p] = from /\ pc' = [pc EXCEPT ![p] = to]

\* handleClientMessage returns to the read loop; its locals go out of scope.
Finish(c, from) == Goto(c, from, "reading") /\ current' = [current EXCEPT ![c] = None]

\* clientConnection.send to the request's client: refused once closed is set.
Reachable(r) == socket[owner[r]] = "open"

Answer(r, a) == told' = [told EXCEPT ![r] = IF Reachable(r) THEN Append(@, a) ELSE @]

Report(r, a) == told' = [told EXCEPT ![r] = Append(@, a)]

\* removePendingLocked, and the map literals that replace Hub.pending.
Remove(S) == pending' = pending \ S /\ detached' = detached \ S

\* The identifier p's goroutine is working for.
Serving(p) == IF p \in Clients THEN current[p] ELSE p

-----------------------------------------------------------------------------
(* Client connections: HandleWebSocket and removeClient. *)

Connect(c) ==
    /\ ~closed
    /\ Goto(c, "offline", "connecting")
    /\ clients' = clients \cup {c}
    /\ socket' = [socket EXCEPT ![c] = "open"]
    /\ UNCHANGED <<linkVars, current, connection, owner, tableVars, callVars,
                   agentVars, told>>

\* The peer hangs up, a heartbeat fails or Close calls client.close().
SocketCloses(c) ==
    /\ socket[c] = "open"
    /\ socket' = [socket EXCEPT ![c] = "closed"]
    /\ UNCHANGED <<linkVars, clients, handlerVars, tableVars, callVars, agentVars,
                   told>>

RemoveClient(c) ==
    /\ socket[c] = "closed"
    /\ clients' = clients \ {c}
    /\ detached' = detached \cup {r \in pending : owner[r] = c}
    /\ UNCHANGED <<linkVars, socket, current, connection, owner, pending, timers,
                   callVars, agentVars, told>>

\* A broadcast or a forwarded reverse request could not be sent to c.
SendFails(c) == c \in clients /\ RemoveClient(c) /\ UNCHANGED pc

ReaderExits(c) == Goto(c, "reading", "gone") /\ RemoveClient(c)

-----------------------------------------------------------------------------
(* Ensure, called by the goroutines of this module and by the watcher. *)

untouchedByEnsure ==
    <<clientVars, connection, owner, tableVars, callVars, agentVars>>

Dials(p) ==
    /\ p \in Goroutines => pc[p] \in {"connecting", "ensuring"}
    /\ EnsureDial(p)
    /\ UNCHANGED requestVars

WatcherEnsures(p) ==
    /\ p \notin Goroutines
    /\ EnsurePublish(p) \/ EnsureGiveUp(p)
    /\ UNCHANGED requestVars

\* The result of the Ensure a new connection runs is ignored.
Connected(c) ==
    /\ Goto(c, "connecting", "reading")
    /\ EnsureSucceeds(c) \/ EnsureFails(c)
    /\ UNCHANGED <<untouchedByEnsure, current, told>>

Ensured(p) ==
    /\ Goto(p, "ensuring", "ensured")
    /\ EnsureSucceeds(p)
    /\ UNCHANGED <<untouchedByEnsure, current, told>>

ClientOffline(c) ==
    /\ Finish(c, "ensuring")
    /\ EnsureFails(c)
    /\ Answer(current[c], "offline")
    /\ UNCHANGED untouchedByEnsure

CallOffline(k) ==
    /\ Goto(k, "ensuring", "returned")
    /\ EnsureFails(k)
    /\ UNCHANGED <<untouchedByEnsure, current, told>>

-----------------------------------------------------------------------------
(* handleClientMessage for a message with an id and a method. *)

Submit(c, r) ==
    /\ socket[c] = "open"
    /\ owner[r] = None
    /\ owner' = [owner EXCEPT ![r] = c]
    /\ \/ /\ r \in InitRequests /\ initGeneration # 0
          /\ Finish(c, "reading")
          /\ Report(r, "cached")
       \/ /\ r \notin InitRequests \/ initGeneration = 0
          /\ Goto(c, "reading", "ensuring")
          /\ current' = [current EXCEPT ![c] = r]
          /\ UNCHANGED told
    /\ UNCHANGED <<linkVars, clientVars, connection, tableVars, callVars, agentVars>>

\* Entries that still hold a pointer to client c.
HeldBy(c) == {r \in pending \ detached : owner[r] = c}

\* Mutant: the limits are exceeded by one.
AdmitsOneMore(c) ==
    /\ ~closed
    /\ Cardinality(pending) <= PendingLimit
    /\ Cardinality(HeldBy(c)) < PendingClientLimit

Admits(c) ==
    /\ ~closed
    /\ Cardinality(pending) < PendingLimit
    /\ Cardinality(HeldBy(c)) < PendingClientLimit

Register(c) ==
    /\ Goto(c, "ensured", "registered")
    /\ Admits(c)
    /\ pending' = pending \cup {current[c]}
    /\ UNCHANGED <<linkVars, clientVars, current, connection, owner, detached,
                   timers, callVars, agentVars, told>>

Reject(c) ==
    /\ Finish(c, "ensured")
    /\ ~Admits(c)
    /\ Answer(current[c], "rejected")
    /\ UNCHANGED <<linkVars, clientVars, connection, owner, tableVars, callVars,
                   agentVars>>

\* sendAgent loads the connection under agentMutex and writes after releasing it.
LoadConnection(p) ==
    /\ Goto(p, "registered", "writing")
    /\ connection' = [connection EXCEPT ![p] = agent]
    /\ UNCHANGED <<linkVars, clientVars, current, owner, tableVars, callVars,
                   agentVars, told>>

\* Clear runs after connection.Close(): a write can succeed until then only.
Write(p) ==
    /\ Goto(p, "writing", "sent")
    /\ connection[p] # 0 /\ Attached(connection[p])
    /\ carrier' = [carrier EXCEPT ![Serving(p)] = connection[p]]
    /\ connection' = [connection EXCEPT ![p] = 0]
    /\ UNCHANGED <<linkVars, clientVars, current, owner, tableVars, callVars,
                   inbox, initGeneration, told>>

ClientWriteFails(c) ==
    /\ Finish(c, "writing")
    /\ connection' = [connection EXCEPT ![c] = 0]
    /\ Remove({current[c]})
    /\ Answer(current[c], "unsent")
    /\ UNCHANGED <<linkVars, clientVars, owner, timers, callVars, agentVars>>

\* Mutant: no timer for an entry that lost its client in the meantime.
ArmAttached(c) ==
    /\ Finish(c, "sent")
    /\ timers' = timers \cup ({current[c]} \cap (pending \ detached))
    /\ UNCHANGED <<linkVars, clientVars, connection, owner, pending, detached,
                   callVars, agentVars, told>>

\* armPendingTimeout: nothing to time if the entry has already been removed.
Arm(c) ==
    /\ Finish(c, "sent")
    /\ timers' = timers \cup ({current[c]} \cap pending)
    /\ UNCHANGED <<linkVars, clientVars, connection, owner, pending, detached,
                   callVars, agentVars, told>>

-----------------------------------------------------------------------------
(* Expiry. *)

\* Mutant: the fired timer does not look whether its entry is still there.
ExpireBlindly(r) ==
    /\ r \in timers
    /\ timers' = timers \ {r}
    /\ Remove({r})
    /\ Report(r, IF r \notin detached /\ Reachable(r) THEN "timeout" ELSE "notice")
    /\ UNCHANGED <<linkVars, clientVars, handlerVars, callVars, agentVars>>

Expire(r) ==
    /\ r \in timers \cap pending
    /\ timers' = timers \ {r}
    /\ Remove({r})
    /\ Report(r, IF r \notin detached /\ Reachable(r) THEN "timeout" ELSE "notice")
    /\ UNCHANGED <<linkVars, clientVars, handlerVars, callVars, agentVars>>

\* Cancelled with its entry or with the hub, or fired too late to find one.
TimerStops(r) ==
    /\ r \in timers
    /\ r \notin pending \/ closed
    /\ timers' = timers \ {r}
    /\ UNCHANGED <<linkVars, clientVars, handlerVars, pending, detached, callVars,
                   agentVars, told>>

-----------------------------------------------------------------------------
(* CallRPC. *)

CallStarts(k) ==
    /\ Goto(k, "idle", "ensuring")
    /\ UNCHANGED <<linkVars, clientVars, current, connection, owner, tableVars,
                   callVars, agentVars, told>>

CallRegisters(k) ==
    /\ Goto(k, "ensured", "registered")
    /\ internal' = internal \cup {k}
    /\ UNCHANGED <<linkVars, clientVars, current, connection, owner, tableVars,
                   channel, agentVars, told>>

\* The write failed, or the caller's context ended while it waited.
CallAbandons(k) ==
    /\ Goto(k, "writing", "returned") \/ Goto(k, "sent", "returned")
    /\ connection' = [connection EXCEPT ![k] = 0]
    /\ internal' = internal \ {k}
    /\ UNCHANGED <<linkVars, clientVars, current, owner, tableVars, channel,
                   agentVars, told>>

CallReturns(k) ==
    /\ Goto(k, "sent", "returned")
    /\ channel[k] > 0
    /\ channel' = [channel EXCEPT ![k] = @ - 1]
    /\ UNCHANGED <<linkVars, clientVars, current, connection, owner, tableVars,
                   internal, agentVars, told>>

-----------------------------------------------------------------------------
(* Responses of the agent.  It may answer what it was sent, in any order   *)
(* and more than once.                                                     *)

\* readAgent takes a message and handleAgentMessage checks the generation.
Receive(g, i) ==
    /\ inbox[g] = None
    /\ carrier[i] = g
    /\ agent = g
    /\ inbox' = [inbox EXCEPT ![g] = i]
    /\ UNCHANGED <<linkVars, clientVars, handlerVars, tableVars, callVars,
                   carrier, initGeneration, told>>

DispatchCall(g) ==
    /\ inbox[g] \in Calls
    /\ inbox' = [inbox EXCEPT ![g] = None]
    /\ internal' = internal \ {inbox[g]}
    /\ channel' = [channel EXCEPT ![inbox[g]] = @ + (IF inbox[g] \in internal THEN 1 ELSE 0)]
    /\ UNCHANGED <<linkVars, clientVars, handlerVars, tableVars, carrier,
                   initGeneration, told>>

\* An initialization response that carries a result fills the cache; one that
\* carries an error does not.  The client's closed flag is not consulted: a failed send is ignored.
Completion(r) ==
    IF r \in detached THEN "notice" ELSE IF Reachable(r) THEN "result" ELSE "lost"

DispatchRequest(g) ==
    LET r == inbox[g] IN
    /\ r \in pending
    /\ inbox' = [inbox EXCEPT ![g] = None]
    /\ Remove({r})
    /\ initGeneration' \in {initGeneration} \cup IF r \in InitRequests THEN {g} ELSE {}
    /\ Report(r, Completion(r))
    /\ UNCHANGED <<linkVars, clientVars, handlerVars, timers, callVars, carrier>>

DispatchUnknown(g) ==
    /\ inbox[g] \in Requests \ pending
    /\ inbox' = [inbox EXCEPT ![g] = None]
    /\ UNCHANGED <<linkVars, clientVars, handlerVars, tableVars, callVars,
                   carrier, initGeneration, told>>

-----------------------------------------------------------------------------
(* The connection goes down, and the hub closes. *)

Loses(g) == Detach(g) /\ UNCHANGED requestVars

\* removed: the entries taken; failed: those answered "agent disconnected";
\* woken: the calls given a response; cached: the initialize result kept.
Drop(removed, failed, woken, cached) ==
    /\ Remove(removed)
    /\ told' = [r \in Requests |->
                  IF r \in failed /\ Reachable(r)
                  THEN Append(told[r], "disconnected") ELSE told[r]]
    /\ internal' = {}
    /\ channel' = [k \in Calls |-> channel[k] + (IF k \in woken THEN 1 ELSE 0)]
    /\ initGeneration' = cached
    /\ UNCHANGED <<clientVars, handlerVars, timers, carrier, inbox>>

\* Mutants: detached entries stay; nobody is told; no call is woken; the
\* initialize result survives.
DropAttached == Drop(pending \ detached, pending \ detached, internal, 0)
DropSilently == Drop(pending, {}, internal, 0)
DropNotWaking == Drop(pending, pending \ detached, {}, 0)
DropKeepsInit == Drop(pending, pending \ detached, internal, initGeneration)

\* The whole table is taken, whichever generation its entries were sent on.
\* Writing the answers after the unlock is folded in: only their order differs.
DropTables == Drop(pending, pending \ detached, internal, 0)

Clears(g) == Clear(g) /\ DropTables

SweepTables ==
    /\ Remove(pending)
    /\ clients' = {}
    /\ UNCHANGED <<socket, handlerVars, timers, callVars, agentVars, told>>

\* client.close() for the swept clients comes before connectionMutex.
CloseSwept == CloseLock /\ \A c \in Clients : socket[c] # "open"

CloseSteps ==
    \/ CloseBegin /\ UNCHANGED requestVars
    \/ CloseSweep /\ SweepTables
    \/ CloseSwept /\ UNCHANGED requestVars
    \/ CloseDetach /\ UNCHANGED requestVars
    \/ CloseNothing /\ UNCHANGED requestVars
    \/ CloseClear /\ DropTables
    \/ CloseWait /\ timers = {} /\ UNCHANGED requestVars

-----------------------------------------------------------------------------
ClientStep(c) ==
    \/ Connect(c) \/ Connected(c) \/ ReaderExits(c)
    \/ \E r \in Requests : Submit(c, r)
    \/ ClientOffline(c) \/ Register(c) \/ Reject(c)
    \/ ClientWriteFails(c) \/ Arm(c)

CallStep(k) ==
    CallStarts(k) \/ CallOffline(k) \/ CallRegisters(k) \/ CallAbandons(k) \/ CallReturns(k)

SharedStep(p) == Ensured(p) \/ LoadConnection(p) \/ Write(p)

AgentStep(g) ==
    \/ \E i \in Identifiers : Receive(g, i)
    \/ DispatchCall(g) \/ DispatchRequest(g) \/ DispatchUnknown(g)
    \/ Loses(g) \/ Clears(g)

\* Nothing runs once Close has returned and every goroutine has ended.
Terminated == closing = "done" /\ UNCHANGED vars

Next ==
    \/ \E c \in Clients : ClientStep(c) \/ SocketCloses(c) \/ SendFails(c)
    \/ \E k \in Calls : CallStep(k)
    \/ \E p \in Goroutines : SharedStep(p)
    \/ \E p \in Ensurers : Dials(p) \/ WatcherEnsures(p)
    \/ \E g \in Generations : AgentStep(g)
    \/ \E r \in Requests : Expire(r) \/ TimerStops(r)
    \/ CloseSteps
    \/ Terminated

Spec == Init /\ [][Next]_vars

\* Go runs every goroutine that can run; Ensure, writes and timers are bounded
\* by the policy's timeouts; Close closes the sockets it swept.  Nothing makes a
\* peer connect, send, answer or hang up.
Fairness ==
    /\ \A c \in Clients :
         /\ WF_vars(Connected(c) \/ ReaderExits(c) \/ ClientOffline(c))
         /\ WF_vars(Register(c) \/ Reject(c) \/ ClientWriteFails(c) \/ Arm(c))
         /\ WF_vars(closing # "open" /\ SocketCloses(c))
    /\ \A p \in Goroutines : WF_vars(SharedStep(p))
    /\ \A p \in Ensurers : WF_vars(WatcherEnsures(p))
    /\ \A k \in Calls : WF_vars(CallOffline(k) \/ CallRegisters(k) \/ CallReturns(k))
    /\ \A g \in Generations :
         /\ WF_vars(Clears(g))
         /\ WF_vars(DispatchCall(g) \/ DispatchRequest(g) \/ DispatchUnknown(g))
    /\ \A r \in Requests : WF_vars(Expire(r)) /\ WF_vars(TimerStops(r))
    /\ WF_vars(CloseSteps /\ closing # "open")

FairSpec == Spec /\ Fairness

-----------------------------------------------------------------------------
(* clientrpc.go:91-110, removeClient: counting, checking and inserting are  *)
(* one critical section, so racing clients never exceed either limit; an    *)
(* entry that lost its client counts for the table and for no client.       *)
LimitsHold ==
    /\ Cardinality(pending) <= PendingLimit
    /\ \A c \in Clients : Cardinality(HeldBy(c)) <= PendingClientLimit

(* pending.go:1-2: whatever races, a request's entry is settled by one of   *)
(* response, expiry, disconnection and failed write.  The one exception is  *)
(* a failed write whose entry the disconnection has just settled: its       *)
(* goroutine answers too (clientrpc.go:113-117 ignores that the entry is    *)
(* gone).                                                                   *)
SettledOnce ==
    \A r \in Requests :
        Len(told[r]) > 1 => told[r] = <<"disconnected", "unsent">>

(* A request with no entry left was answered or reported, unless its client *)
(* is gone or the hub closed: no interleaving of the five ways an entry is  *)
(* removed leaves a live client waiting for nothing.                        *)
InHand(r) ==
    /\ owner[r] # None /\ current[owner[r]] = r
    /\ pc[owner[r]] \in {"ensuring", "ensured"}

NoneForgotten ==
    \A r \in Requests :
        \/ owner[r] = None \/ r \in pending \/ InHand(r)
        \/ told[r] # <<>>
        \/ socket[owner[r]] = "closed" \/ closed

(* An entry never waits on a connection whose teardown is over: it is       *)
(* inserted before sendAgent loads the connection, so the disconnection     *)
(* that makes an answer impossible also finds the entry.                    *)
NoDeadCarrier ==
    \A r \in pending : carrier[r] # 0 => Attached(carrier[r])

(* rpc.go:47-70, agentdispatch.go:36, agenttransport.go:209-211: a waiting   *)
(* CallRPC is always in the table or has its response, and the channel of    *)
(* capacity one never makes the agent's reader block on a second response.   *)
CallsAreServed ==
    \A k \in Calls :
        /\ pc[k] = "sent" => k \in internal \/ channel[k] > 0
        /\ channel[k] <= 1

(* An initialize result served from the cache came from the connection that *)
(* is up, or from one whose teardown is about to drop the cache.            *)
InitCacheFresh == initGeneration # 0 => Attached(initGeneration)

(* Every forwarded request is settled, even if the agent never answers.     *)
EntriesSettle == \A r \in Requests : r \in pending ~> r \notin pending

(* Close returns: no goroutine it waits for waits for it.                   *)
CloseReturns == closed ~> closing = "done"

=============================================================================
