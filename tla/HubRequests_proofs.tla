-------------------------- MODULE HubRequests_proofs --------------------------
(***************************************************************************)
(* The hub's request tables, for any number of clients, requests, calls    *)
(* and connections and any limits.                                         *)
(***************************************************************************)
EXTENDS HubRequests, AgentLink_proofs, FiniteSetTheorems

-----------------------------------------------------------------------------
(* The hub drives its link only through the link's own actions.            *)

(* A client's step is a step of Ensure or leaves the link alone.           *)
LEMMA ClientStepLinks ==
    ASSUME NEW c \in Clients, ClientStep(c) \/ SocketCloses(c) \/ SendFails(c)
    PROVE  EndsNoTeardown
<1> USE HubAssumption DEF EndsNoTeardown
<1>1. CASE Connected(c)
  BY <1>1 DEF Connected, EnsureSucceeds, EnsureFails, EnsureAlready, EnsurePublish,
              EnsureRefused, EnsureGiveUp
<1>2. CASE ClientOffline(c)
  BY <1>2 DEF ClientOffline, EnsureFails, EnsureRefused, EnsureGiveUp
<1>3. CASE Connect(c) \/ ReaderExits(c) \/ Register(c) \/ Reject(c)
           \/ ClientWriteFails(c) \/ Arm(c) \/ SocketCloses(c) \/ SendFails(c)
  BY <1>3 DEF Connect, ReaderExits, RemoveClient, Register, Reject, ClientWriteFails,
              Arm, SocketCloses, SendFails
<1>4. ASSUME NEW r \in Requests, Submit(c, r)
      PROVE  UNCHANGED linkVars
  BY <1>4 DEF Submit
<1>5. QED
  BY <1>1, <1>2, <1>3, <1>4 DEF ClientStep

\* Whoever ends a teardown empties the request tables in the same step.
EndsTeardown ==
    ((\E g \in Generations : Clear(g)) \/ CloseClear) /\ DropTables

(* So is every other step: one action of the link or none, and a teardown  *)
(* ends only together with the request tables.                             *)
LEMMA NextLinks == Next => EndsNoTeardown \/ EndsTeardown
<1> SUFFICES ASSUME Next PROVE EndsNoTeardown \/ EndsTeardown
  OBVIOUS
<1>1. ASSUME NEW c \in Clients, ClientStep(c) \/ SocketCloses(c) \/ SendFails(c)
      PROVE  EndsNoTeardown
  BY <1>1, ClientStepLinks
<1>2. ASSUME NEW k \in Calls, CallStep(k)
      PROVE  EndsNoTeardown
  <2>1. CASE CallOffline(k)
    BY <2>1, HubAssumption DEF CallOffline, EnsureFails, EnsureRefused, EnsureGiveUp,
                               EndsNoTeardown
  <2>2. CASE CallStarts(k) \/ CallRegisters(k) \/ CallAbandons(k) \/ CallReturns(k)
    BY <2>2 DEF CallStarts, CallRegisters, CallAbandons, CallReturns, EndsNoTeardown
  <2>3. QED
    BY <1>2, <2>1, <2>2 DEF CallStep
<1>3. ASSUME NEW p \in Goroutines, SharedStep(p)
      PROVE  EndsNoTeardown
  <2>1. CASE Ensured(p)
    BY <2>1, HubAssumption DEF Goroutines, Ensured, EnsureSucceeds, EnsureAlready,
                               EndsNoTeardown
  <2>2. CASE LoadConnection(p) \/ Write(p)
    BY <2>2 DEF LoadConnection, Write, EndsNoTeardown
  <2>3. QED
    BY <1>3, <2>1, <2>2 DEF SharedStep
<1>4. ASSUME NEW p \in Ensurers, Dials(p) \/ WatcherEnsures(p)
      PROVE  EndsNoTeardown
  BY <1>4 DEF Dials, WatcherEnsures, EndsNoTeardown
<1>5. ASSUME NEW g \in Generations, AgentStep(g)
      PROVE  EndsNoTeardown \/ EndsTeardown
  <2>1. CASE Loses(g)
    BY <2>1 DEF Generations, Loses, EndsNoTeardown
  <2>2. CASE Clears(g)
    BY <2>2 DEF Clears, EndsTeardown
  <2>3. CASE DispatchCall(g) \/ DispatchRequest(g) \/ DispatchUnknown(g)
    BY <2>3 DEF DispatchCall, DispatchRequest, DispatchUnknown, EndsNoTeardown
  <2>4. ASSUME NEW i \in Identifiers, Receive(g, i)
        PROVE  EndsNoTeardown
    BY <2>4 DEF Receive, EndsNoTeardown
  <2>5. QED
    BY <1>5, <2>1, <2>2, <2>3, <2>4 DEF AgentStep
<1>6. ASSUME NEW r \in Requests, Expire(r) \/ TimerStops(r)
      PROVE  EndsNoTeardown
  BY <1>6 DEF Expire, TimerStops, EndsNoTeardown
<1>7. CASE CloseSteps
  BY <1>7 DEF CloseSteps, CloseSwept, EndsNoTeardown, EndsTeardown
<1>8. CASE Terminated
  BY <1>8 DEF Terminated, vars, EndsNoTeardown
<1>9. QED
  BY <1>1, <1>2, <1>3, <1>4, <1>5, <1>6, <1>7, <1>8 DEF Next

(* So the hub takes only steps of its link.                                *)
LEMMA HubLinkStep == [Next]_vars => [LinkNext]_linkVars
BY NextLinks, TeardownEnds DEF EndsTeardown, Generations, vars, linkVars

(* The hub implements its link: what AgentLink_proofs establishes for the  *)
(* link, the barrier of Close among it, holds of the whole hub.            *)
THEOREM HubImplementsLink == Spec => LinkSpec
<1>1. Init => LinkInit
  BY DEF Init
<1>2. [Next]_vars => [LinkNext]_linkVars
  BY HubLinkStep
<1>3. QED
  BY <1>1, <1>2, PTL DEF Spec, LinkSpec

(* hub.go:140-142, for the hub as a whole.                                 *)
THEOREM HubCloseBarrier == Spec => []CloseBarrier
BY HubImplementsLink, LinkCloseBarrier, PTL

(* agenttransport.go:105-120, for the hub as a whole.                      *)
THEOREM HubCurrentIsLatest == Spec => []CurrentIsLatest
BY HubImplementsLink, LinkCurrentIsLatest, PTL

(* agenttransport.go:29-36, for the hub as a whole.                        *)
THEOREM HubPublishReplacesNothing == Spec => PublishReplacesNothing
BY HubImplementsLink, LinkPublishReplacesNothing, PTL

-----------------------------------------------------------------------------
(* Types, and which goroutine is handling which request.                   *)

Busy == {"ensuring", "ensured", "registered", "writing", "sent"}

\* A request in hand is its owner's, nothing is known of a request before it is
\* sent, and until the write returns it was never written anywhere.
Handling ==
    /\ \A c \in Clients : current[c] # None => owner[current[c]] = c
    /\ \A c \in Clients : pc[c] \in Busy => current[c] # None
    /\ \A r \in Requests : owner[r] = None => carrier[r] = 0 /\ r \notin pending
    /\ \A c \in Clients : pc[c] \in Busy \ {"sent"} => carrier[current[c]] = 0

TypedInv == LinkInv /\ TypeOK /\ Handling

(* Initially no client is connected and every table is empty.              *)
LEMMA TypedInitially == Init => TypedInv
<1> SUFFICES ASSUME Init PROVE TypedInv
  OBVIOUS
<1>1. LinkInv
  BY LinkInitially DEF Init
<1>2. TypeOK
  BY <1>1, HubAssumption
     DEF Init, TypeOK, LinkInv, Goroutines, ClientStages, CallStages, Identifiers
<1>3. Handling
  BY HubAssumption DEF Init, Handling, Busy, Goroutines, Identifiers
<1>4. QED
  BY <1>1, <1>2, <1>3 DEF TypedInv

(* A client's steps move one request through the stages, in order.         *)
LEMMA ClientStepTyped ==
    ASSUME TypedInv, LinkInv', NEW c \in Clients,
           ClientStep(c) \/ SocketCloses(c) \/ SendFails(c)
    PROVE  TypeOK' /\ Handling'
<1> USE HubAssumption
    DEF TypedInv, LinkInv, TypeOK, Handling, Busy, Goroutines, Identifiers, ClientStages,
        CallStages, Answers, Goto, Finish, Answer, Report, clientVars, handlerVars, tableVars,
        callVars, agentVars
<1>1. CASE Connect(c)
  BY <1>1 DEF Connect
<1>2. CASE SocketCloses(c)
  BY <1>2 DEF SocketCloses
<1>3. CASE SendFails(c)
  BY <1>3 DEF SendFails, RemoveClient
<1>4. CASE ReaderExits(c)
  BY <1>4 DEF ReaderExits, RemoveClient
<1>5. CASE Connected(c)
  BY <1>5 DEF Connected, untouchedByEnsure
<1>6. CASE ClientOffline(c)
  BY <1>6 DEF ClientOffline, untouchedByEnsure
<1>7. CASE Register(c)
  BY <1>7 DEF Register
<1>8. CASE Reject(c)
  BY <1>8 DEF Reject
<1>9. CASE ClientWriteFails(c)
  BY <1>9 DEF ClientWriteFails, Remove
<1>10. CASE Arm(c)
  BY <1>10 DEF Arm
<1>11. ASSUME NEW r \in Requests, Submit(c, r)
       PROVE  TypeOK' /\ Handling'
  <2>1. owner[r] = None /\ owner' = [owner EXCEPT ![r] = c]
    BY <1>11 DEF Submit
  <2>2. CASE Finish(c, "reading") /\ Report(r, "cached")
    BY <1>11, <2>1, <2>2 DEF Submit
  <2>3. CASE /\ Goto(c, "reading", "ensuring")
             /\ current' = [current EXCEPT ![c] = r] /\ told' = told
    BY <1>11, <2>1, <2>3 DEF Submit
  <2>4. QED
    BY <1>11, <2>2, <2>3 DEF Submit
<1>12. QED
  BY <1>1, <1>2, <1>3, <1>4, <1>5, <1>6, <1>7, <1>8, <1>9, <1>10, <1>11 DEF ClientStep

(* CallRPC, and the steps that calls and clients share.                    *)
LEMMA CallStepTyped ==
    ASSUME TypedInv, LinkInv', NEW p \in Goroutines,
           SharedStep(p) \/ (p \in Calls /\ CallStep(p))
    PROVE  TypeOK' /\ Handling'
<1> USE HubAssumption
    DEF TypedInv, LinkInv, TypeOK, Handling, Busy, Goroutines, Identifiers, ClientStages,
        CallStages, Goto, clientVars, handlerVars, tableVars, callVars, agentVars
<1>1. CASE p \in Calls /\ CallStarts(p)
  BY <1>1 DEF CallStarts
<1>2. CASE p \in Calls /\ CallOffline(p)
  BY <1>2 DEF CallOffline, untouchedByEnsure
<1>3. CASE p \in Calls /\ CallRegisters(p)
  BY <1>3 DEF CallRegisters
<1>4. CASE p \in Calls /\ CallAbandons(p)
  <2>1. pc' = [pc EXCEPT ![p] = "returned"]
    BY <1>4 DEF CallAbandons
  <2>2. connection' \in [Goroutines -> Nat]
    BY <1>4 DEF CallAbandons
  <2>3. QED
    BY <1>4, <2>1, <2>2 DEF CallAbandons
<1>5. CASE p \in Calls /\ CallReturns(p)
  BY <1>5 DEF CallReturns
<1>6. CASE Ensured(p)
  BY <1>6 DEF Ensured, untouchedByEnsure
<1>7. CASE LoadConnection(p)
  <2>1. connection' \in [Goroutines -> Nat]
    <3>1. agent \in Nat
      BY DEF LinkTypeOK
    <3>2. QED
      BY <1>7, <3>1 DEF LoadConnection
  <2>2. QED
    BY <1>7, <2>1 DEF LoadConnection
<1>8. CASE Write(p)
  BY <1>8 DEF Write, Serving
<1>9. QED
  BY <1>1, <1>2, <1>3, <1>4, <1>5, <1>6, <1>7, <1>8 DEF CallStep, SharedStep

(* The agent's responses and the loss of its connection.                   *)
LEMMA AgentStepTyped ==
    ASSUME TypedInv, LinkInv', NEW g \in Generations, AgentStep(g)
    PROVE  TypeOK' /\ Handling'
<1> USE HubAssumption
    DEF TypedInv, LinkInv, TypeOK, Handling, Goroutines, Identifiers, Generations, Answers,
        clientVars, handlerVars, tableVars, callVars, agentVars
<1>1. CASE DispatchCall(g)
  BY <1>1 DEF DispatchCall
<1>2. CASE DispatchRequest(g)
  BY <1>2 DEF DispatchRequest, Remove, Report, Completion
<1>3. CASE DispatchUnknown(g)
  BY <1>3 DEF DispatchUnknown
<1>4. CASE Loses(g)
  BY <1>4 DEF Loses, requestVars
<1>5. CASE Clears(g)
  BY <1>5 DEF Clears, DropTables, Drop, Remove
<1>6. ASSUME NEW i \in Identifiers, Receive(g, i)
      PROVE  TypeOK' /\ Handling'
  BY <1>6 DEF Receive
<1>7. QED
  BY <1>1, <1>2, <1>3, <1>4, <1>5, <1>6 DEF AgentStep

(* Every step keeps the types and the ownership of requests.               *)
LEMMA TypedStep == TypedInv /\ [Next]_vars => TypedInv'
<1> SUFFICES ASSUME TypedInv, [Next]_vars
             PROVE  TypedInv'
  OBVIOUS
<1>0. LinkInv'
  BY HubLinkStep, LinkStep DEF TypedInv
<1> USE DEF TypedInv
<1>1. ASSUME NEW c \in Clients, ClientStep(c) \/ SocketCloses(c) \/ SendFails(c)
      PROVE  TypeOK' /\ Handling'
  BY <1>0, <1>1, ClientStepTyped
<1>2. ASSUME NEW p \in Goroutines, SharedStep(p) \/ (p \in Calls /\ CallStep(p))
      PROVE  TypeOK' /\ Handling'
  BY <1>0, <1>2, CallStepTyped
<1>3. ASSUME NEW g \in Generations, AgentStep(g)
      PROVE  TypeOK' /\ Handling'
  BY <1>0, <1>3, AgentStepTyped
<1>4. CASE UNCHANGED requestVars
  BY <1>0, <1>4
     DEF LinkInv, TypeOK, Handling, requestVars, clientVars, handlerVars, tableVars, callVars,
         agentVars
<1>5. ASSUME NEW r \in Requests, Expire(r) \/ TimerStops(r)
      PROVE  TypeOK' /\ Handling'
  <2> USE DEF TypeOK, Handling, Answers, clientVars, handlerVars, callVars, agentVars
  <2>1. LinkTypeOK'
    BY <1>0 DEF LinkInv
  <2>2. CASE Expire(r)
    BY <2>1, <2>2 DEF Expire, Remove, Report
  <2>3. CASE TimerStops(r)
    BY <2>1, <2>3 DEF TimerStops
  <2>4. QED
    BY <1>5, <2>2, <2>3
<1>6. ASSUME SweepTables \/ DropTables
      PROVE  TypeOK' /\ Handling'
  <2> USE DEF TypeOK, Handling, Answers, clientVars, handlerVars, callVars, agentVars
  <2>1. LinkTypeOK'
    BY <1>0 DEF LinkInv
  <2>2. CASE SweepTables
    BY <2>1, <2>2 DEF SweepTables, Remove
  <2>3. CASE DropTables
    BY <2>1, <2>3 DEF DropTables, Drop, Remove
  <2>4. QED
    BY <1>6, <2>2, <2>3
<1>7. ASSUME NEW p \in Ensurers, Dials(p) \/ WatcherEnsures(p)
      PROVE  UNCHANGED requestVars
  BY <1>7 DEF Dials, WatcherEnsures
<1>8. CASE Next
  <2>1. CASE CloseSteps
    BY <2>1, <1>0, <1>4, <1>6 DEF CloseSteps
  <2>2. CASE Terminated
    BY <2>2, <1>0, <1>4 DEF Terminated, vars
  <2>3. ASSUME NEW k \in Calls, CallStep(k)
        PROVE  TypeOK' /\ Handling'
    BY <1>2, <2>3 DEF Goroutines
  <2>4. QED
    BY <1>8, <1>0, <1>1, <1>2, <1>3, <1>4, <1>5, <1>7, <2>1, <2>2, <2>3 DEF Next
<1>9. QED
  BY <1>0, <1>4, <1>8 DEF vars

(* The types of the hub's state, and the ownership of requests.            *)
LEMMA TypedInvariant == Spec => []TypedInv
BY TypedInitially, TypedStep, PTL DEF Spec

(* Every table holds only what its declaration says, and a pending entry   *)
(* marked detached is a pending entry.                                     *)
THEOREM HubTypeCorrect == Spec => []TypeOK
<1>1. TypedInv => TypeOK
  BY DEF TypedInv
<1>2. QED
  BY <1>1, TypedInvariant, PTL

-----------------------------------------------------------------------------
(* An entry never waits on a connection whose teardown is over.            *)

CarrierInv == TypedInv /\ NoDeadCarrier

(* Only Write sets a carrier, and only Register adds an entry.             *)
LEMMA CarrierSteps ==
    ASSUME TypedInv, Next
    PROVE  \/ carrier' = carrier /\ pending' \subseteq pending
           \/ \E c \in Clients : Register(c)
           \/ \E p \in Goroutines : Write(p)
<1> DEFINE Quiet == carrier' = carrier /\ pending' \subseteq pending
<1> USE DEF clientVars, tableVars, callVars, agentVars, requestVars, untouchedByEnsure, Remove
<1>1. ASSUME NEW c \in Clients, ClientStep(c) \/ SocketCloses(c) \/ SendFails(c)
      PROVE  Quiet \/ Register(c)
  BY <1>1
     DEF ClientStep, Connect, SocketCloses, SendFails, RemoveClient, ReaderExits, Connected,
              ClientOffline, Reject, ClientWriteFails, Arm, Submit
<1>2. ASSUME NEW k \in Calls, CallStep(k)
      PROVE  Quiet
  BY <1>2 DEF CallStep, CallStarts, CallOffline, CallRegisters, CallAbandons, CallReturns
<1>3. ASSUME NEW p \in Goroutines, SharedStep(p)
      PROVE  Quiet \/ Write(p)
  BY <1>3 DEF SharedStep, Ensured, LoadConnection
<1>4. ASSUME NEW p \in Ensurers, Dials(p) \/ WatcherEnsures(p)
      PROVE  Quiet
  BY <1>4 DEF Dials, WatcherEnsures
<1>5. ASSUME NEW g \in Generations, AgentStep(g)
      PROVE  Quiet
  BY <1>5 DEF AgentStep, Receive, DispatchCall, DispatchRequest, DispatchUnknown, Loses, Clears,
              DropTables, Drop
<1>6. ASSUME NEW r \in Requests, Expire(r) \/ TimerStops(r)
      PROVE  Quiet
  BY <1>6 DEF Expire, TimerStops
<1>7. CASE CloseSteps \/ Terminated
  BY <1>7 DEF CloseSteps, SweepTables, DropTables, Drop, Terminated, vars
<1>8. QED
  BY <1>1, <1>2, <1>3, <1>4, <1>5, <1>6, <1>7 DEF Next

(* NoDeadCarrier is kept: a teardown that ends takes the whole table, and   *)
(* a connection that is being torn down is still attached.                  *)
LEMMA CarrierStep == CarrierInv /\ [Next]_vars => NoDeadCarrier'
<1> SUFFICES ASSUME CarrierInv, [Next]_vars, NEW r \in pending', carrier'[r] # 0
             PROVE  Attached(carrier[r])'
  BY DEF NoDeadCarrier, Attached
<1> USE DEF CarrierInv
<1>1. CASE EndsTeardown
  BY <1>1 DEF EndsTeardown, DropTables, Drop, Remove
<1>2. ASSUME r \in pending, carrier'[r] = carrier[r], EndsNoTeardown
      PROVE  Attached(carrier[r])'
  <2>1. PICK g \in Nat : g = carrier[r]
    BY <1>2 DEF TypedInv, TypeOK, Identifiers
  <2>2. g # 0 /\ Attached(g)
    BY <1>2, <2>1 DEF NoDeadCarrier, Attached
  <2>3. Attached(g)'
    BY <1>2, <2>2, AttachedPersists DEF TypedInv
  <2>4. QED
    BY <1>2, <2>1, <2>3 DEF Attached
<1>3. ASSUME NEW c \in Clients, Register(c)
      PROVE  Attached(carrier[r])'
  <2>1. carrier' = carrier /\ UNCHANGED linkVars /\ pending' = pending \cup {current[c]}
    BY <1>3 DEF Register, agentVars
  <2>2. carrier[current[c]] = 0
    BY <1>3 DEF Register, Goto, TypedInv, Handling, Busy
  <2>3. r \in pending /\ EndsNoTeardown
    BY <2>1, <2>2 DEF EndsNoTeardown
  <2>4. QED
    BY <1>2, <2>1, <2>3
<1>4. ASSUME NEW p \in Goroutines, Write(p)
      PROVE  Attached(carrier[r])'
  <2>1. UNCHANGED linkVars /\ pending' = pending /\ Attached(connection[p])
    BY <1>4 DEF Write, tableVars
  <2>2. carrier'[r] = carrier[r] \/ carrier'[r] = connection[p]
    BY <1>4 DEF Write, TypedInv, TypeOK
  <2>3. CASE carrier'[r] = carrier[r]
    BY <1>2, <2>1, <2>3 DEF EndsNoTeardown
  <2>4. CASE carrier'[r] = connection[p]
    BY <2>1, <2>4 DEF Attached, linkVars
  <2>5. QED
    BY <2>2, <2>3, <2>4
<1>5. CASE UNCHANGED vars
  BY <1>2, <1>5 DEF vars, requestVars, tableVars, agentVars, EndsNoTeardown
<1>6. QED
  BY <1>1, <1>2, <1>3, <1>4, <1>5, NextLinks, CarrierSteps DEF vars

(* agenttransport.go:129-143, clientrpc.go:84-119: no entry waits on a     *)
(* connection whose teardown is over.                                      *)
THEOREM HubNoDeadCarrier == Spec => []NoDeadCarrier
<1>1. Init => NoDeadCarrier
  BY DEF Init, NoDeadCarrier
<1>2. TypedInv /\ TypedInv' /\ NoDeadCarrier /\ [Next]_vars => NoDeadCarrier'
  BY CarrierStep DEF CarrierInv
<1>3. QED
  BY <1>1, <1>2, TypedInvariant, PTL DEF Spec

-----------------------------------------------------------------------------
(* Every request is settled once, but for one documented exception.        *)

ToldShape ==
    \A r \in Requests :
        \/ told[r] = <<>> \/ told[r] = <<"disconnected", "unsent">>
        \/ \E a \in Answers : told[r] = <<a>>

UntoldWhilePending ==
    \A r \in Requests :
        /\ r \in pending => told[r] = <<>>
        /\ owner[r] = None => told[r] = <<>> /\ r \notin timers

UntoldInHand ==
    \A c \in Clients : pc[c] \in {"ensuring", "ensured"} =>
        /\ told[current[c]] = <<>>
        /\ current[c] \notin pending \cup timers

\* Between the registration and the end of the write there is no timer and no
\* response, so only a disconnection can settle the request.
OnlyDropped ==
    \A c \in Clients : pc[c] \in {"registered", "writing"} =>
        /\ told[current[c]] = <<>> \/ told[current[c]] = <<"disconnected">>
        /\ current[c] \notin timers

InboxCarried ==
    \A g \in Generations : inbox[g] \in Requests => carrier[inbox[g]] # 0

SettledInv ==
    ToldShape /\ UntoldWhilePending /\ UntoldInHand /\ OnlyDropped /\ InboxCarried

(* A first answer makes a sequence of one.                                 *)
LEMMA FirstAnswer ==
    ASSUME NEW s \in Seq(Answers), s = <<>>, NEW a \in Answers
    PROVE  Append(s, a) = <<a>>
OBVIOUS

(* A sequence of two is known by its elements.                             *)
LEMMA PairEquality ==
    ASSUME NEW t \in Seq(Answers), Len(t) = 2, t[1] = "disconnected", t[2] = "unsent"
    PROVE  t = <<"disconnected", "unsent">>
OBVIOUS

(* A failed write adds its notice to the disconnection's.                  *)
LEMMA SecondAnswer ==
    ASSUME NEW s \in Seq(Answers), s = <<"disconnected">>
    PROVE  Append(s, "unsent") = <<"disconnected", "unsent">>
<1>1. Append(s, "unsent") \in Seq(Answers)
  BY DEF Answers
<1>2. /\ Len(Append(s, "unsent")) = 2
      /\ Append(s, "unsent")[1] = "disconnected"
      /\ Append(s, "unsent")[2] = "unsent"
  OBVIOUS
<1>3. QED
  BY <1>1, <1>2, PairEquality

(* An answer to a request that was told nothing, or the notice of a failed *)
(* write after a disconnection, keeps the shape of what requests are told. *)
LEMMA AnswerShapes ==
    ASSUME TypeOK, ToldShape, NEW r \in Requests, NEW a \in Answers,
           told[r] = <<>> \/ (told[r] = <<"disconnected">> /\ a = "unsent"),
           Answer(r, a) \/ Report(r, a)
    PROVE  ToldShape'
<1>1. told[r] \in Seq(Answers)
  BY DEF TypeOK
<1>2. told'[r] = told[r] \/ told'[r] = Append(told[r], a)
  BY DEF Answer, Report, TypeOK
<1>3. \A q \in Requests \ {r} : told'[q] = told[q]
  BY DEF Answer, Report, TypeOK
<1>4. CASE told[r] = <<>>
  <2>1. Append(told[r], a) = <<a>>
    BY <1>1, <1>4, FirstAnswer
  <2>2. QED
    BY <1>2, <1>3, <2>1 DEF ToldShape
<1>5. CASE told[r] = <<"disconnected">> /\ a = "unsent"
  <2>1. Append(told[r], a) = <<"disconnected", "unsent">>
    BY <1>1, <1>5, SecondAnswer
  <2>2. QED
    BY <1>2, <1>3, <2>1 DEF ToldShape
<1>6. QED
  BY <1>4, <1>5

(* A step that tells nothing keeps it too.                                 *)
LEMMA SilenceShapes == ToldShape /\ told' = told => ToldShape'
BY DEF ToldShape

(* Emptying the table tells each pending request at most once.             *)
LEMMA TablesSettle ==
    ASSUME TypedInv, TypedInv', SettledInv, SweepTables \/ DropTables
    PROVE  SettledInv'
<1> USE HubAssumption, LinkAssumption
    DEF TypedInv, TypeOK, Handling, SettledInv, ToldShape, UntoldWhilePending, UntoldInHand,
        OnlyDropped, InboxCarried, Busy, Goroutines, Identifiers, Generations, Goto, Finish,
        Answer, Report, Remove, clientVars, handlerVars, tableVars, callVars, agentVars,
        requestVars, Answers, untouchedByEnsure, RemoveClient, Drop
<1>1. CASE SweepTables
  BY <1>1 DEF SweepTables
<1>2. CASE DropTables
  <2>1. ToldShape'
    <3>1. ASSUME NEW r \in Requests, r \in pending
          PROVE  told'[r] = <<>> \/ told'[r] = <<"disconnected">>
      <4>1. told[r] = <<>> /\ told[r] \in Seq(Answers)
        BY <3>1 DEF UntoldWhilePending
      <4>2. Append(told[r], "disconnected") = <<"disconnected">>
        BY <4>1, FirstAnswer
      <4>3. QED
        BY <1>2, <4>1, <4>2 DEF DropTables
    <3>2. ASSUME NEW r \in Requests, r \notin pending
          PROVE  told'[r] = told[r]
      BY <1>2, <3>2 DEF DropTables
    <3>3. QED
      BY <3>1, <3>2 DEF ToldShape
  <2>2. UntoldWhilePending' /\ UntoldInHand' /\ InboxCarried'
    BY <1>2 DEF DropTables, UntoldWhilePending, UntoldInHand, InboxCarried
  <2>3. OnlyDropped'
    <3>1. ASSUME NEW r \in Requests, told[r] = <<>>
          PROVE  told'[r] = <<>> \/ told'[r] = <<"disconnected">>
      <4>1. Append(told[r], "disconnected") = <<"disconnected">>
        BY <3>1, FirstAnswer
      <4>2. QED
        BY <1>2, <3>1, <4>1 DEF DropTables
    <3>2. ASSUME NEW r \in Requests, r \notin pending
          PROVE  told'[r] = told[r]
      BY <1>2, <3>2 DEF DropTables
    <3>3. QED
      BY <1>2, <3>1, <3>2 DEF DropTables, OnlyDropped, UntoldWhilePending
  <2>4. QED
    BY <2>1, <2>2, <2>3
<1>3. QED
  BY <1>1, <1>2

(* A handler answers only the request it has in hand.                      *)
LEMMA ClientStepSettles ==
    ASSUME TypedInv, TypedInv', SettledInv, NEW c \in Clients,
           ClientStep(c) \/ SocketCloses(c) \/ SendFails(c)
    PROVE  SettledInv'
<1> USE HubAssumption, LinkAssumption
    DEF TypedInv, TypeOK, Handling, SettledInv, ToldShape, UntoldWhilePending, UntoldInHand,
        OnlyDropped, InboxCarried, Busy, Goroutines, Identifiers, Generations, Goto, Finish,
        Answer, Report, Remove, clientVars, handlerVars, tableVars, callVars, agentVars,
        requestVars, Answers, untouchedByEnsure, RemoveClient, Drop
<1>1. CASE Connect(c)
  BY <1>1 DEF Connect
<1>2. CASE SocketCloses(c)
  BY <1>2 DEF SocketCloses
<1>3. CASE SendFails(c)
  BY <1>3 DEF SendFails
<1>4. CASE ReaderExits(c)
  BY <1>4 DEF ReaderExits
<1>5. CASE Connected(c)
  BY <1>5 DEF Connected
<1>6. CASE ClientOffline(c)
  <2>1. ToldShape'
    <3>1. current[c] \in Requests /\ told[current[c]] = <<>>
      BY <1>6 DEF UntoldInHand, ClientOffline
    <3>2. QED
      BY <1>6, <3>1, AnswerShapes DEF ClientOffline
  <2>2. UntoldWhilePending' /\ UntoldInHand' /\ OnlyDropped' /\ InboxCarried'
    BY <1>6 DEF ClientOffline
  <2>3. QED
    BY <2>1, <2>2
<1>7. CASE Register(c)
  BY <1>7 DEF Register
<1>8. CASE Reject(c)
  <2>1. ToldShape'
    <3>1. current[c] \in Requests /\ told[current[c]] = <<>>
      BY <1>8 DEF UntoldInHand, Reject
    <3>2. QED
      BY <1>8, <3>1, AnswerShapes DEF Reject
  <2>2. UntoldWhilePending' /\ UntoldInHand' /\ OnlyDropped' /\ InboxCarried'
    BY <1>8 DEF Reject
  <2>3. QED
    BY <2>1, <2>2
<1>9. CASE ClientWriteFails(c)
  <2>1. ToldShape'
    <3>1. current[c] \in Requests
      BY <1>9 DEF ClientWriteFails
    <3>2. told[current[c]] = <<>> \/ told[current[c]] = <<"disconnected">>
      BY <1>9 DEF OnlyDropped, ClientWriteFails
    <3>3. QED
      BY <1>9, <3>1, <3>2, AnswerShapes DEF ClientWriteFails
  <2>2. UntoldWhilePending' /\ UntoldInHand' /\ OnlyDropped' /\ InboxCarried'
    BY <1>9 DEF ClientWriteFails
  <2>3. QED
    BY <2>1, <2>2
<1>10. CASE Arm(c)
  <2> USE DEF Arm
  <2>0. ToldShape'
    <3>1. told' = told
      BY <1>10
    <3>2. QED
      BY <3>1, SilenceShapes, Zenon
  <2>1. UntoldWhilePending'
    BY <1>10
  <2>2. UntoldInHand'
    BY <1>10
  <2>3. OnlyDropped'
    BY <1>10
  <2>4. InboxCarried'
    BY <1>10
  <2>5. QED
    BY <2>0, <2>1, <2>2, <2>3, <2>4
<1>11. ASSUME NEW r \in Requests, Submit(c, r)
       PROVE  SettledInv'
    <2>1. /\ owner[r] = None /\ owner' = [owner EXCEPT ![r] = c] /\ told[r] = <<>>
        /\ r \notin pending \cup timers
    BY <1>11 DEF Submit
  <2>2. CASE Finish(c, "reading") /\ Report(r, "cached")
    <3>1. ToldShape'
      BY <2>1, <2>2, AnswerShapes
    <3>2. UntoldWhilePending' /\ InboxCarried'
      BY <1>11, <2>1, <2>2 DEF Submit
    <3>3. UntoldInHand' /\ OnlyDropped'
      BY <1>11, <2>1, <2>2 DEF Submit
    <3>4. QED
      BY <3>1, <3>2, <3>3
  <2>3. CASE /\ Goto(c, "reading", "ensuring")
             /\ current' = [current EXCEPT ![c] = r] /\ told' = told
    BY <1>11, <2>1, <2>3 DEF Submit
  <2>4. QED
    BY <1>11, <2>2, <2>3 DEF Submit
<1>12. QED
  BY <1>1, <1>2, <1>3, <1>4, <1>5, <1>6, <1>7, <1>8, <1>9, <1>10, <1>11 DEF ClientStep

(* CallRPC and the write of a request tell no client anything.             *)
LEMMA CallStepSettles ==
    ASSUME TypedInv, TypedInv', SettledInv, NEW p \in Goroutines,
           SharedStep(p) \/ (p \in Calls /\ CallStep(p))
    PROVE  SettledInv'
<1> USE HubAssumption, LinkAssumption
    DEF TypedInv, TypeOK, Handling, SettledInv, ToldShape, UntoldWhilePending, UntoldInHand,
        OnlyDropped, InboxCarried, Busy, Goroutines, Identifiers, Generations, Goto, Finish,
        Answer, Report, Remove, clientVars, handlerVars, tableVars, callVars, agentVars,
        requestVars, Answers, untouchedByEnsure, RemoveClient, Drop
<1>1. CASE p \in Calls /\ CallStep(p)
  <2>1. UNCHANGED <<told, pending, timers, owner, current, carrier, inbox>>
    BY <1>1 DEF CallStep, CallStarts, CallOffline, CallRegisters, CallAbandons, CallReturns
  <2>2. \A c \in Clients : pc'[c] = pc[c]
    BY <1>1 DEF CallStep, CallStarts, CallOffline, CallRegisters, CallAbandons, CallReturns
  <2>3. ToldShape' /\ UntoldWhilePending' /\ InboxCarried'
    <3>1. ToldShape'
      BY <2>1, SilenceShapes, Zenon
    <3>2. UntoldWhilePending' /\ InboxCarried'
      BY <2>1
    <3>3. QED
      BY <3>1, <3>2
  <2>4. UntoldInHand' /\ OnlyDropped'
    BY <2>1, <2>2
  <2>5. QED
    BY <2>3, <2>4
<1>2. CASE SharedStep(p)
  <2>1. UNCHANGED <<told, pending, timers, owner, current, inbox>>
    BY <1>2 DEF SharedStep, Ensured, LoadConnection, Write
  <2>2. \A c \in Clients : pc'[c] = pc[c] \/ pc'[c] \in {"ensured", "writing", "sent"}
    BY <1>2 DEF SharedStep, Ensured, LoadConnection, Write
  <2>3. \A c \in Clients :
           /\ pc'[c] = "ensured" => pc[c] \in {"ensuring", "ensured"}
           /\ pc'[c] = "writing" => pc[c] \in {"registered", "writing"}
    BY <1>2 DEF SharedStep, Ensured, LoadConnection, Write
  <2>4. ToldShape' /\ UntoldWhilePending'
    <3>1. ToldShape'
      BY <2>1, SilenceShapes, Zenon
    <3>2. UntoldWhilePending'
      BY <2>1
    <3>3. QED
      BY <3>1, <3>2
  <2>5. UntoldInHand' /\ OnlyDropped'
    BY <2>1, <2>2, <2>3
  <2>6. InboxCarried'
    <3>1. CASE Write(p)
      <4>1. connection[p] # 0 /\ carrier' = [carrier EXCEPT ![Serving(p)] = connection[p]]
        BY <3>1 DEF Write
      <4>2. QED
        BY <2>1, <4>1
    <3>2. CASE carrier' = carrier
      BY <2>1, <3>2
    <3>3. QED
      BY <1>2, <3>1, <3>2 DEF SharedStep, Ensured, LoadConnection
  <2>7. QED
    BY <2>4, <2>5, <2>6
<1>3. QED
  BY <1>1, <1>2

(* A response is for a request that is pending, hence untold.              *)
LEMMA AgentStepSettles ==
    ASSUME TypedInv, TypedInv', SettledInv, NEW g \in Generations, AgentStep(g)
    PROVE  SettledInv'
<1> USE HubAssumption, LinkAssumption
    DEF TypedInv, TypeOK, Handling, SettledInv, ToldShape, UntoldWhilePending, UntoldInHand,
        OnlyDropped, InboxCarried, Busy, Goroutines, Identifiers, Generations, Goto, Finish,
        Answer, Report, Remove, clientVars, handlerVars, tableVars, callVars, agentVars,
        requestVars, Answers, untouchedByEnsure, RemoveClient, Drop
<1>1. CASE DispatchCall(g)
  BY <1>1 DEF DispatchCall
<1>2. CASE DispatchRequest(g)
  <2>1. ToldShape'
    <3>1. inbox[g] \in pending /\ Report(inbox[g], Completion(inbox[g]))
      BY <1>2 DEF DispatchRequest
    <3>2. inbox[g] \in Requests /\ told[inbox[g]] = <<>>
      BY <3>1 DEF UntoldWhilePending
    <3>3. Completion(inbox[g]) \in Answers
      BY DEF Completion
    <3>4. QED
      BY <3>1, <3>2, <3>3, AnswerShapes DEF TypedInv, SettledInv
  <2>2. UntoldWhilePending'
    BY <1>2 DEF DispatchRequest
  <2>3. UntoldInHand'
    BY <1>2 DEF DispatchRequest
  <2>4. OnlyDropped'
    BY <1>2 DEF DispatchRequest
  <2>5. InboxCarried'
    BY <1>2 DEF DispatchRequest
  <2>6. QED
    BY <2>1, <2>2, <2>3, <2>4, <2>5
<1>3. CASE DispatchUnknown(g)
  BY <1>3 DEF DispatchUnknown
<1>4. CASE Loses(g)
  BY <1>4 DEF Loses
<1>5. ASSUME NEW i \in Identifiers, Receive(g, i)
      PROVE  SettledInv'
  <2> USE DEF Receive
  <2>1. ToldShape' /\ UntoldWhilePending'
    BY <1>5
  <2>2. UntoldInHand'
    BY <1>5
  <2>3. OnlyDropped'
    BY <1>5
  <2>4. InboxCarried'
    BY <1>5
  <2>5. QED
    BY <2>1, <2>2, <2>3, <2>4
<1>6. CASE Clears(g)
  BY <1>6, TablesSettle DEF Clears
<1>7. QED
  BY <1>1, <1>2, <1>3, <1>4, <1>5, <1>6 DEF AgentStep

(* So is an expiry.                                                        *)
LEMMA TimerSettles ==
    ASSUME TypedInv, TypedInv', SettledInv, NEW r \in Requests, Expire(r) \/ TimerStops(r)
    PROVE  SettledInv'
<1> USE HubAssumption, LinkAssumption
    DEF TypedInv, TypeOK, Handling, SettledInv, ToldShape, UntoldWhilePending, UntoldInHand,
        OnlyDropped, InboxCarried, Busy, Goroutines, Identifiers, Generations, Goto, Finish,
        Answer, Report, Remove, clientVars, handlerVars, tableVars, callVars, agentVars,
        requestVars, Answers, untouchedByEnsure, RemoveClient, Drop
<1>1. CASE Expire(r)
  <2>1. ToldShape'
    <3>1. told[r] = <<>>
      BY <1>1 DEF Expire, UntoldWhilePending
    <3>2. Report(r, "timeout") \/ Report(r, "notice")
      BY <1>1 DEF Expire
    <3>3. QED
      BY <3>1, <3>2, AnswerShapes
  <2>2. UntoldWhilePending'
    BY <1>1 DEF Expire
  <2>3. UntoldInHand'
    BY <1>1 DEF Expire
  <2>4. OnlyDropped'
    BY <1>1 DEF Expire
  <2>5. InboxCarried'
    BY <1>1 DEF Expire
  <2>6. QED
    BY <2>1, <2>2, <2>3, <2>4, <2>5
<1>2. CASE TimerStops(r)
  BY <1>2 DEF TimerStops
<1>3. QED
  BY <1>1, <1>2

(* Every step keeps the count of what a request is told.                   *)
LEMMA SettledStep == TypedInv /\ TypedInv' /\ SettledInv /\ [Next]_vars => SettledInv'
<1> SUFFICES ASSUME TypedInv, TypedInv', SettledInv, [Next]_vars
             PROVE  SettledInv'
  OBVIOUS
<1>1. CASE UNCHANGED requestVars
  BY <1>1
     DEF SettledInv, ToldShape, UntoldWhilePending, UntoldInHand, OnlyDropped, InboxCarried,
         requestVars, clientVars, handlerVars, tableVars, callVars, agentVars
<1>2. CASE CloseSteps
  BY <1>1, <1>2, TablesSettle DEF CloseSteps
<1>3. ASSUME NEW p \in Ensurers, Dials(p) \/ WatcherEnsures(p)
      PROVE  UNCHANGED requestVars
  BY <1>3 DEF Dials, WatcherEnsures
<1>4. CASE Terminated \/ UNCHANGED vars
  BY <1>1, <1>4 DEF Terminated, vars
<1>5. QED
  BY <1>1, <1>2, <1>3, <1>4, ClientStepSettles, CallStepSettles, AgentStepSettles, TimerSettles
     DEF Next, Goroutines

(* pending.go:1-2, clientrpc.go:113-117: a request is answered or reported *)
(* at most once, except that a failed write after a disconnection is       *)
(* reported a second time.                                                 *)
THEOREM HubSettledOnce == Spec => []SettledOnce
<1>1. Init => SettledInv
  BY HubAssumption
     DEF Init, SettledInv, ToldShape, UntoldWhilePending, UntoldInHand, OnlyDropped,
         InboxCarried, Goroutines, Identifiers
<1>2. SettledInv => SettledOnce
  <2> SUFFICES ASSUME SettledInv, NEW r \in Requests, Len(told[r]) > 1
               PROVE  told[r] = <<"disconnected", "unsent">>
    BY DEF SettledOnce
  <2>1. told[r] # <<>>
    OBVIOUS
  <2>2. ASSUME NEW a \in Answers, told[r] = <<a>>
        PROVE  FALSE
    <3>1. Len(<<a>>) = 1
      OBVIOUS
    <3>2. Len(told[r]) = 1
      BY <2>2, <3>1, Zenon
    <3>3. QED
      BY <3>2
  <2>3. QED
    BY <2>1, <2>2 DEF SettledInv, ToldShape
<1>3. QED
  BY <1>1, <1>2, SettledStep, TypedInvariant, PTL DEF Spec
-----------------------------------------------------------------------------
(* The limits of the pending table.                                        *)

LimitsInv == IsFiniteSet(pending) /\ LimitsHold

(* Only Register adds an entry, and no other step gives a client an entry  *)
(* it did not hold: a request's owner is fixed before it is pending.       *)
LEMMA TableSteps ==
    ASSUME TypedInv, Next
    PROVE  \/ /\ pending' \subseteq pending
              /\ \A c \in Clients : HeldBy(c)' \subseteq HeldBy(c)
           \/ \E c \in Clients : Register(c)
<1> DEFINE Quiet == /\ pending' \subseteq pending
                    /\ \A r \in pending' \ detached' : r \notin detached /\ owner'[r] = owner[r]
<1> USE DEF clientVars, handlerVars, tableVars, callVars, agentVars, requestVars,
            untouchedByEnsure, Remove
<1>1. ASSUME NEW c \in Clients, ClientStep(c) \/ SocketCloses(c) \/ SendFails(c)
      PROVE  Quiet \/ Register(c)
  <2>1. ASSUME NEW r \in Requests, Submit(c, r)
        PROVE  Quiet
    BY <2>1 DEF Submit, TypedInv, TypeOK, Handling
  <2>2. QED
    BY <1>1, <2>1
       DEF ClientStep, Connect, SocketCloses, SendFails, RemoveClient, ReaderExits, Connected,
           ClientOffline, Reject, ClientWriteFails, Arm
<1>2. ASSUME NEW k \in Calls, CallStep(k)
      PROVE  Quiet
  BY <1>2 DEF CallStep, CallStarts, CallOffline, CallRegisters, CallAbandons, CallReturns
<1>3. ASSUME NEW p \in Goroutines, SharedStep(p)
      PROVE  Quiet
  BY <1>3 DEF SharedStep, Ensured, LoadConnection, Write
<1>4. ASSUME NEW p \in Ensurers, Dials(p) \/ WatcherEnsures(p)
      PROVE  Quiet
  BY <1>4 DEF Dials, WatcherEnsures
<1>5. ASSUME NEW g \in Generations, AgentStep(g)
      PROVE  Quiet
  BY <1>5 DEF AgentStep, Receive, DispatchCall, DispatchRequest, DispatchUnknown, Loses, Clears,
              DropTables, Drop
<1>6. ASSUME NEW r \in Requests, Expire(r) \/ TimerStops(r)
      PROVE  Quiet
  BY <1>6 DEF Expire, TimerStops
<1>7. ASSUME CloseSteps \/ Terminated
      PROVE  Quiet
  BY <1>7 DEF CloseSteps, SweepTables, DropTables, Drop, Terminated, vars
<1>8. Quiet => \A c \in Clients : HeldBy(c)' \subseteq HeldBy(c)
  <2> SUFFICES ASSUME Quiet, NEW c \in Clients, NEW r \in HeldBy(c)'
               PROVE  r \in HeldBy(c)
    OBVIOUS
  <2>1. r \in pending' \ detached' /\ owner'[r] = c
    BY DEF HeldBy
  <2>2. r \in pending \ detached /\ owner[r] = c
    BY <2>1
  <2>3. QED
    BY <2>2 DEF HeldBy
<1>9. QED
  BY <1>1, <1>2, <1>3, <1>4, <1>5, <1>6, <1>7, <1>8 DEF Next

(* Register counts and inserts in one critical section, so it adds at most *)
(* one entry to a table, and to a client's share of it, below its limit.   *)
LEMMA RegisterWithinLimits ==
    ASSUME TypedInv, LimitsInv, NEW c \in Clients, Register(c)
    PROVE  LimitsInv'
<1> DEFINE r == current[c]
<1> USE HubAssumption DEF LimitsInv, LimitsHold
<1>1. /\ pending' = pending \cup {r} /\ owner' = owner /\ detached' = detached
      /\ Cardinality(pending) < PendingLimit /\ Cardinality(HeldBy(c)) < PendingClientLimit
  BY DEF Register, Admits
<1>2. r \in Requests /\ owner[r] = c
  BY DEF TypedInv, TypeOK, Handling, Busy, Register, Goto
<1>3. /\ IsFiniteSet(pending') /\ Cardinality(pending') \in Nat /\ Cardinality(pending) \in Nat
      /\ Cardinality(pending') <= Cardinality(pending) + 1
  <2>1. Cardinality(pending') = IF r \in pending THEN Cardinality(pending)
                                ELSE Cardinality(pending) + 1
    BY <1>1, FS_AddElement
  <2>2. QED
    BY <1>1, <2>1, FS_AddElement, FS_CardinalityType
<1>4. ASSUME NEW d \in Clients
      PROVE  Cardinality(HeldBy(d)') <= PendingClientLimit
  <2>1. IsFiniteSet(HeldBy(d)) /\ Cardinality(HeldBy(d)) \in Nat
    <3>1. HeldBy(d) \subseteq pending
      BY DEF HeldBy
    <3>2. QED
      BY <3>1, FS_Subset, FS_CardinalityType
  <2>2. CASE d # c
    <3>1. HeldBy(d)' = HeldBy(d)
      BY <1>1, <1>2, <2>2 DEF HeldBy
    <3>2. QED
      BY <3>1
  <2>3. CASE d = c
    <3>1. HeldBy(c)' = HeldBy(c) \/ HeldBy(c)' = HeldBy(c) \cup {r}
      BY <1>1, <1>2 DEF HeldBy
    <3>2. Cardinality(HeldBy(c) \cup {r}) = IF r \in HeldBy(c) THEN Cardinality(HeldBy(c))
                                            ELSE Cardinality(HeldBy(c)) + 1
      BY <2>1, <2>3, FS_AddElement
    <3>3. /\ Cardinality(HeldBy(c)') \in Nat
          /\ Cardinality(HeldBy(c)') <= Cardinality(HeldBy(c)) + 1
      BY <2>1, <2>3, <3>1, <3>2
    <3>4. QED
      BY <1>1, <2>1, <2>3, <3>3
  <2>4. QED
    BY <2>2, <2>3
<1>5. QED
  BY <1>1, <1>3, <1>4

(* clientrpc.go:91-110: whatever clients race, neither the table's limit   *)
(* nor a client's is exceeded.                                             *)
THEOREM HubLimitsHold == Spec => []LimitsHold
<1>1. Init => LimitsInv
  <2> SUFFICES ASSUME Init PROVE LimitsInv
    OBVIOUS
  <2>1. pending = {} /\ \A c \in Clients : HeldBy(c) = {}
    BY DEF Init, HeldBy
  <2>2. QED
    BY <2>1, FS_EmptySet, HubAssumption DEF LimitsInv, LimitsHold
<1>2. TypedInv /\ LimitsInv /\ [Next]_vars => LimitsInv'
  <2> SUFFICES ASSUME TypedInv, LimitsInv, [Next]_vars
               PROVE  LimitsInv'
    OBVIOUS
  <2>1. CASE /\ pending' \subseteq pending
             /\ \A c \in Clients : HeldBy(c)' \subseteq HeldBy(c)
    <3>1. IsFiniteSet(pending') /\ Cardinality(pending') <= Cardinality(pending)
      BY <2>1, FS_Subset DEF LimitsInv
    <3>2. ASSUME NEW c \in Clients
          PROVE  /\ Cardinality(HeldBy(c)') <= Cardinality(HeldBy(c))
                 /\ Cardinality(HeldBy(c)') \in Nat /\ Cardinality(HeldBy(c)) \in Nat
      <4>1. HeldBy(c) \subseteq pending
        BY DEF HeldBy
      <4>2. IsFiniteSet(HeldBy(c))
        BY <4>1, FS_Subset DEF LimitsInv
      <4>3. QED
        BY <2>1, <4>2, FS_Subset, FS_CardinalityType
    <3>3. Cardinality(pending') \in Nat /\ Cardinality(pending) \in Nat
      BY <3>1, FS_CardinalityType DEF LimitsInv
    <3>4. QED
      BY <3>1, <3>2, <3>3, HubAssumption DEF LimitsInv, LimitsHold
  <2>2. CASE UNCHANGED vars
    BY <2>2 DEF vars, requestVars, tableVars, handlerVars, LimitsInv, LimitsHold, HeldBy
  <2>3. QED
    BY <2>1, <2>2, TableSteps, RegisterWithinLimits
<1>3. LimitsInv => LimitsHold
  BY DEF LimitsInv
<1>4. QED
  BY <1>1, <1>2, <1>3, TypedInvariant, PTL DEF Spec

-----------------------------------------------------------------------------
(* The cached initialize result.                                           *)

\* A reader holds only responses to what was written to its own connection.
InboxFrom ==
    \A g \in Generations : inbox[g] \in Requests => carrier[inbox[g]] = g

CacheInv == InboxFrom /\ InitCacheFresh

(* A request is written once, so a response held by a reader stays one of  *)
(* its own connection.                                                     *)
LEMMA InboxStep == TypedInv /\ InboxFrom /\ [Next]_vars => InboxFrom'
<1> SUFFICES ASSUME TypedInv, InboxFrom, [Next]_vars
             PROVE  InboxFrom'
  OBVIOUS
<1> USE DEF InboxFrom, clientVars, handlerVars, tableVars, callVars, agentVars, requestVars,
            untouchedByEnsure
<1>1. CASE carrier' = carrier /\ inbox' = inbox
  BY <1>1
<1>2. ASSUME NEW c \in Clients, ClientStep(c) \/ SocketCloses(c) \/ SendFails(c)
      PROVE  InboxFrom'
  BY <1>1, <1>2
     DEF ClientStep, Connect, SocketCloses, SendFails, RemoveClient, ReaderExits, Connected,
         ClientOffline, Reject, ClientWriteFails, Arm, Register, Submit
<1>3. ASSUME NEW k \in Calls, CallStep(k)
      PROVE  InboxFrom'
  BY <1>1, <1>3 DEF CallStep, CallStarts, CallOffline, CallRegisters, CallAbandons, CallReturns
<1>4. ASSUME NEW p \in Goroutines, SharedStep(p)
      PROVE  InboxFrom'
  <2>1. CASE Write(p)
    <3>1. /\ inbox' = inbox /\ pc[p] = "writing"
          /\ carrier' = [carrier EXCEPT ![Serving(p)] = connection[p]]
      BY <2>1 DEF Write, Goto
    <3>2. ASSUME NEW g \in Generations, inbox[g] \in Requests
          PROVE  Serving(p) # inbox[g]
      <4>1. carrier[inbox[g]] # 0
        BY <3>2 DEF Generations
      <4>2. p \in Calls \/ carrier[Serving(p)] = 0
        BY <3>1 DEF TypedInv, Handling, Busy, Serving, Goroutines
      <4>3. QED
        BY <3>2, <4>1, <4>2, HubAssumption DEF Serving
    <3>3. QED
      BY <3>1, <3>2 DEF TypedInv, TypeOK, Identifiers
  <2>2. QED
    BY <1>1, <1>4, <2>1 DEF SharedStep, Ensured, LoadConnection
<1>5. ASSUME NEW g \in Generations, AgentStep(g)
      PROVE  InboxFrom'
  <2> USE HubAssumption DEF TypedInv, TypeOK
  <2>1. ASSUME NEW i \in Identifiers, Receive(g, i)
        PROVE  InboxFrom'
    BY <2>1 DEF Receive
  <2>2. CASE DispatchCall(g) \/ DispatchRequest(g) \/ DispatchUnknown(g)
    BY <2>2 DEF DispatchCall, DispatchRequest, DispatchUnknown
  <2>3. CASE Loses(g) \/ Clears(g)
    BY <1>1, <2>3 DEF Loses, Clears, DropTables, Drop
  <2>4. QED
    BY <1>5, <2>1, <2>2, <2>3 DEF AgentStep
<1>6. ASSUME NEW p \in Ensurers, Dials(p) \/ WatcherEnsures(p)
      PROVE  InboxFrom'
  BY <1>1, <1>6 DEF Dials, WatcherEnsures
<1>7. ASSUME NEW r \in Requests, Expire(r) \/ TimerStops(r)
      PROVE  InboxFrom'
  BY <1>1, <1>7 DEF Expire, TimerStops
<1>8. CASE CloseSteps \/ Terminated \/ UNCHANGED vars
  BY <1>1, <1>8 DEF CloseSteps, SweepTables, DropTables, Drop, Terminated, vars
<1>9. QED
  BY <1>2, <1>3, <1>4, <1>5, <1>6, <1>7, <1>8 DEF Next

(* The cache is filled by DispatchRequest and otherwise only emptied.      *)
LEMMA CacheSteps ==
    ASSUME Next
    PROVE  initGeneration' \in {initGeneration, 0} \/ \E g \in Generations : DispatchRequest(g)
<1> DEFINE Quiet == initGeneration' \in {initGeneration, 0}
<1> USE DEF clientVars, tableVars, callVars, agentVars, requestVars, untouchedByEnsure
<1>1. ASSUME NEW c \in Clients, ClientStep(c) \/ SocketCloses(c) \/ SendFails(c)
      PROVE  Quiet
  BY <1>1
     DEF ClientStep, Connect, SocketCloses, SendFails, RemoveClient, ReaderExits, Connected,
         ClientOffline, Reject, ClientWriteFails, Arm, Register, Submit
<1>2. ASSUME NEW k \in Calls, CallStep(k)
      PROVE  Quiet
  BY <1>2 DEF CallStep, CallStarts, CallOffline, CallRegisters, CallAbandons, CallReturns
<1>3. ASSUME NEW p \in Goroutines, SharedStep(p)
      PROVE  Quiet
  BY <1>3 DEF SharedStep, Ensured, LoadConnection, Write
<1>4. ASSUME NEW p \in Ensurers, Dials(p) \/ WatcherEnsures(p)
      PROVE  Quiet
  BY <1>4 DEF Dials, WatcherEnsures
<1>5. ASSUME NEW g \in Generations, AgentStep(g)
      PROVE  Quiet \/ DispatchRequest(g)
  BY <1>5 DEF AgentStep, Receive, DispatchCall, DispatchUnknown, Loses, Clears, DropTables, Drop
<1>6. ASSUME NEW r \in Requests, Expire(r) \/ TimerStops(r)
      PROVE  Quiet
  BY <1>6 DEF Expire, TimerStops
<1>7. ASSUME CloseSteps \/ Terminated
      PROVE  Quiet
  BY <1>7 DEF CloseSteps, SweepTables, DropTables, Drop, Terminated, vars
<1>8. QED
  BY <1>1, <1>2, <1>3, <1>4, <1>5, <1>6, <1>7 DEF Next

(* A response fills the cache only while its entry waits, and an entry     *)
(* never waits on a connection whose teardown is over.                     *)
LEMMA CacheStep ==
    TypedInv /\ NoDeadCarrier /\ InboxFrom /\ InitCacheFresh /\ [Next]_vars => InitCacheFresh'
<1> SUFFICES ASSUME TypedInv, NoDeadCarrier, InboxFrom, InitCacheFresh, [Next]_vars,
                    initGeneration' # 0
             PROVE  Attached(initGeneration)'
  BY DEF InitCacheFresh, Attached
<1>1. CASE EndsTeardown
  BY <1>1 DEF EndsTeardown, DropTables, Drop
<1>2. ASSUME EndsNoTeardown, initGeneration' = initGeneration
      PROVE  Attached(initGeneration)'
  <2>1. PICK g \in Nat : g = initGeneration
    BY DEF TypedInv, TypeOK
  <2>2. g # 0 /\ Attached(g)
    BY <1>2, <2>1 DEF InitCacheFresh, Attached
  <2>3. Attached(g)'
    BY <1>2, <2>2, AttachedPersists DEF TypedInv
  <2>4. QED
    BY <1>2, <2>1, <2>3 DEF Attached
<1>3. ASSUME NEW g \in Generations, DispatchRequest(g)
      PROVE  Attached(initGeneration)'
  <2>1. UNCHANGED linkVars /\ inbox[g] \in pending
    BY <1>3 DEF DispatchRequest
  <2>2. EndsNoTeardown
    BY <2>1 DEF EndsNoTeardown
  <2>3. initGeneration' = initGeneration \/ initGeneration' = g
    BY <1>3 DEF DispatchRequest
  <2>4. CASE initGeneration' = g
    <3>1. g # 0 /\ carrier[inbox[g]] = g
      BY <2>1 DEF InboxFrom, Generations, TypedInv, TypeOK
    <3>2. g = agent \/ g \in clearing
      BY <2>1, <3>1 DEF NoDeadCarrier, Attached
    <3>3. QED
      BY <2>1, <2>4, <3>2 DEF Attached, linkVars
  <2>5. QED
    BY <1>2, <2>2, <2>3, <2>4
<1>4. CASE UNCHANGED vars
  BY <1>2, <1>4 DEF vars, requestVars, agentVars, EndsNoTeardown
<1>5. QED
  BY <1>1, <1>2, <1>3, <1>4, NextLinks, CacheSteps

(* agentdispatch.go:60-75, agenttransport.go:129-143: the initialize result *)
(* handed to a new client is that of the connection that is up, or of one   *)
(* whose teardown is about to drop it.                                      *)
THEOREM HubInitCacheFresh == Spec => []InitCacheFresh
<1>1. Init => InboxFrom /\ InitCacheFresh
  BY HubAssumption DEF Init, InboxFrom, InitCacheFresh
<1>2. QED
  BY <1>1, InboxStep, CacheStep, TypedInvariant, HubNoDeadCarrier, PTL DEF Spec

-----------------------------------------------------------------------------
(* CallRPC.                                                                *)

\* A call in the table has no response yet; a call that waits and has left the
\* table has one; a call that is not registered has neither.
ServedInv ==
    \A k \in Calls :
        /\ k \in internal => channel[k] = 0 /\ pc[k] \in {"registered", "writing", "sent"}
        /\ channel[k] <= 1
        /\ pc[k] \in {"idle", "ensuring", "ensured"} => channel[k] = 0
        /\ pc[k] \in {"registered", "writing", "sent"} => k \in internal \/ channel[k] > 0

(* A client's steps touch no call.                                         *)
LEMMA ClientStepServes ==
    ASSUME TypedInv, NEW c \in Clients, ClientStep(c) \/ SocketCloses(c) \/ SendFails(c)
    PROVE  internal' = internal /\ channel' = channel /\ \A k \in Calls : pc'[k] = pc[k]
<1> USE HubAssumption
    DEF TypedInv, TypeOK, Goroutines, Goto, Finish, clientVars, handlerVars, tableVars, callVars,
        agentVars, untouchedByEnsure
<1>1. internal' = internal /\ channel' = channel
  BY DEF ClientStep, Connect, SocketCloses, SendFails, RemoveClient, ReaderExits, Connected,
         ClientOffline, Reject, ClientWriteFails, Arm, Register, Submit
<1>2. \A k \in Calls : pc'[k] = pc[k]
  BY DEF ClientStep, Connect, SocketCloses, SendFails, RemoveClient, ReaderExits, Connected,
         ClientOffline, Reject, ClientWriteFails, Arm, Register, Submit
<1>3. QED
  BY <1>1, <1>2

(* Every step keeps ServedInv: a response and a disconnection take the     *)
(* call out of the table as they fill its channel.                         *)
LEMMA ServedStep == TypedInv /\ ServedInv /\ [Next]_vars => ServedInv'
<1> SUFFICES ASSUME TypedInv, ServedInv, [Next]_vars
             PROVE  ServedInv'
  OBVIOUS
<1> USE HubAssumption
    DEF TypedInv, TypeOK, ServedInv, Goroutines, Goto, clientVars, handlerVars, tableVars,
        callVars, agentVars, requestVars, untouchedByEnsure
<1>1. CASE internal' = internal /\ channel' = channel /\ \A k \in Calls : pc'[k] = pc[k]
  BY <1>1
<1>2. ASSUME NEW c \in Clients, ClientStep(c) \/ SocketCloses(c) \/ SendFails(c)
      PROVE  ServedInv'
  BY <1>1, <1>2, ClientStepServes
<1>3. ASSUME NEW k \in Calls, CallStep(k)
      PROVE  ServedInv'
  <2>1. CASE CallStarts(k)
    BY <2>1 DEF CallStarts
  <2>2. CASE CallOffline(k)
    BY <2>2 DEF CallOffline
  <2>3. CASE CallRegisters(k)
    BY <2>3 DEF CallRegisters
  <2>4. CASE CallAbandons(k)
    <3>1. pc' = [pc EXCEPT ![k] = "returned"] /\ internal' = internal \ {k}
          /\ channel' = channel
      BY <2>4 DEF CallAbandons
    <3>2. QED
      BY <3>1
  <2>5. CASE CallReturns(k)
    BY <2>5 DEF CallReturns
  <2>6. QED
    BY <1>3, <2>1, <2>2, <2>3, <2>4, <2>5 DEF CallStep
<1>4. ASSUME NEW p \in Goroutines, SharedStep(p)
      PROVE  ServedInv'
  BY <1>4 DEF SharedStep, Ensured, LoadConnection, Write
<1>5. ASSUME NEW p \in Ensurers, Dials(p) \/ WatcherEnsures(p)
      PROVE  ServedInv'
  BY <1>1, <1>5 DEF Dials, WatcherEnsures
<1>6. ASSUME DropTables
      PROVE  ServedInv'
  BY <1>6 DEF DropTables, Drop
<1>7. ASSUME NEW g \in Generations, AgentStep(g)
      PROVE  ServedInv'
  <2>1. CASE DispatchCall(g)
    BY <2>1 DEF DispatchCall
  <2>2. CASE DispatchRequest(g) \/ DispatchUnknown(g) \/ Loses(g)
    BY <1>1, <2>2 DEF DispatchRequest, DispatchUnknown, Loses
  <2>3. ASSUME NEW i \in Identifiers, Receive(g, i)
        PROVE  ServedInv'
    BY <1>1, <2>3 DEF Receive
  <2>4. CASE Clears(g)
    BY <1>6, <2>4 DEF Clears
  <2>5. QED
    BY <1>7, <2>1, <2>2, <2>3, <2>4 DEF AgentStep
<1>8. ASSUME NEW r \in Requests, Expire(r) \/ TimerStops(r)
      PROVE  ServedInv'
  BY <1>1, <1>8 DEF Expire, TimerStops
<1>9. CASE CloseSteps \/ Terminated \/ UNCHANGED vars
  BY <1>1, <1>6, <1>9 DEF CloseSteps, SweepTables, Terminated, vars
<1>10. QED
  BY <1>2, <1>3, <1>4, <1>5, <1>7, <1>8, <1>9 DEF Next

(* rpc.go:47-70, agentdispatch.go:36, agenttransport.go:209-211: a waiting  *)
(* CallRPC has its entry or its response, and no channel is ever full when  *)
(* the agent's reader or the disconnection puts a response on it.           *)
THEOREM HubCallsAreServed == Spec => []CallsAreServed
<1>1. Init => ServedInv
  BY HubAssumption DEF Init, ServedInv, Goroutines
<1>2. ServedInv => CallsAreServed
  BY DEF ServedInv, CallsAreServed
<1>3. QED
  BY <1>1, <1>2, ServedStep, TypedInvariant, PTL DEF Spec
-----------------------------------------------------------------------------
(* No request is forgotten.                                                *)

\* A connection opens once, and before its first request; an entry marked
\* detached lost its client to a closed connection.
Presence ==
    /\ \A c \in Clients : pc[c] = "offline" <=> socket[c] = "new"
    /\ \A r \in Requests : owner[r] # None => pc[owner[r]] # "offline"
    /\ \A r \in detached : socket[owner[r]] = "closed"

RememberedInv == Presence /\ NoneForgotten

(* What a request was told is never taken back.                            *)
LEMMA AppendTells ==
    ASSUME NEW s \in Seq(Answers), NEW a \in Answers
    PROVE  Append(s, a) # <<>>
<1>1. Len(Append(s, a)) = Len(s) + 1 /\ Len(s) \in Nat
  OBVIOUS
<1>2. Len(Append(s, a)) # Len(<<>>)
  BY <1>1
<1>3. QED
  BY <1>2, Zenon

(* An answer leaves the request answered, or its client out of reach.      *)
LEMMA AnswerTells ==
    ASSUME TypeOK, NEW r \in Requests, NEW a \in Answers, Answer(r, a) \/ Report(r, a)
    PROVE  /\ \A q \in Requests : told[q] # <<>> => told'[q] # <<>>
           /\ Report(r, a) \/ Reachable(r) => told'[r] # <<>>
<1>1. told[r] \in Seq(Answers) /\ Append(told[r], a) # <<>>
  BY AppendTells DEF TypeOK
<1>2. \A q \in Requests \ {r} : told'[q] = told[q]
  BY DEF Answer, Report, TypeOK
<1>3. /\ told'[r] = told[r] \/ told'[r] = Append(told[r], a)
      /\ Report(r, a) \/ Reachable(r) => told'[r] = Append(told[r], a)
  BY DEF Answer, Report, TypeOK
<1>4. QED
  BY <1>1, <1>2, <1>3

(* A handler ends a request only by answering it, unless its client is     *)
(* out of reach.                                                           *)
LEMMA ClientStepRemembers ==
    ASSUME TypedInv, RememberedInv, NEW c \in Clients,
           ClientStep(c) \/ SocketCloses(c) \/ SendFails(c)
    PROVE  RememberedInv'
<1> USE HubAssumption
    DEF TypedInv, TypeOK, Handling, Busy, RememberedInv, Presence, NoneForgotten, InHand,
        Goroutines, Goto, Finish, clientVars, handlerVars, tableVars, callVars, agentVars,
        untouchedByEnsure, Remove
<1>0. /\ closed' = closed
      /\ \A r \in Requests : Reachable(r) \/ owner[r] = None \/ socket[owner[r]] = "closed"
  BY DEF ClientStep, Connect, SocketCloses, SendFails, RemoveClient, ReaderExits, Connected,
         ClientOffline, Reject, ClientWriteFails, Arm, Register, Submit, linkVars, Reachable,
         EnsureSucceeds, EnsureFails, EnsureAlready, EnsurePublish, EnsureRefused, EnsureGiveUp
<1>1. CASE Connect(c)
  BY <1>0, <1>1 DEF Connect
<1>2. CASE SocketCloses(c)
  BY <1>0, <1>2 DEF SocketCloses
<1>3. CASE SendFails(c) \/ ReaderExits(c)
  <2>1. /\ socket' = socket /\ owner' = owner /\ pending' = pending /\ told' = told
        /\ socket[c] = "closed" /\ detached' = detached \cup {r \in pending : owner[r] = c}
    BY <1>3 DEF SendFails, ReaderExits, RemoveClient
  <2>2. \/ pc' = pc
        \/ pc[c] = "reading" /\ pc' = [pc EXCEPT ![c] = "gone"]
    BY <1>3 DEF SendFails, ReaderExits
  <2>3. Presence'
    BY <2>1, <2>2
  <2>4. NoneForgotten'
    BY <1>0, <1>3, <2>1, <2>2 DEF SendFails, ReaderExits, RemoveClient
  <2>5. QED
    BY <2>3, <2>4
<1>4. CASE Connected(c)
  BY <1>0, <1>4 DEF Connected
<1>5. CASE ClientOffline(c)
  <2>1. /\ current[c] \in Requests /\ owner[current[c]] = c /\ "offline" \in Answers
        /\ Answer(current[c], "offline")
    BY <1>5 DEF ClientOffline, Answers
  <2>2. /\ \A q \in Requests : told[q] # <<>> => told'[q] # <<>>
        /\ Reachable(current[c]) => told'[current[c]] # <<>>
    BY <2>1, AnswerTells
  <2>3. QED
    BY <1>0, <1>5, <2>1, <2>2 DEF ClientOffline
<1>6. CASE Register(c)
  BY <1>0, <1>6 DEF Register
<1>7. CASE Reject(c)
  <2>1. /\ current[c] \in Requests /\ owner[current[c]] = c /\ "rejected" \in Answers
        /\ Answer(current[c], "rejected")
    BY <1>7 DEF Reject, Answers
  <2>2. /\ \A q \in Requests : told[q] # <<>> => told'[q] # <<>>
        /\ Reachable(current[c]) => told'[current[c]] # <<>>
    BY <2>1, AnswerTells
  <2>3. QED
    BY <1>0, <1>7, <2>1, <2>2 DEF Reject
<1>8. CASE ClientWriteFails(c)
  <2>1. /\ current[c] \in Requests /\ owner[current[c]] = c /\ "unsent" \in Answers
        /\ Answer(current[c], "unsent")
    BY <1>8 DEF ClientWriteFails, Answers
  <2>2. /\ \A q \in Requests : told[q] # <<>> => told'[q] # <<>>
        /\ Reachable(current[c]) => told'[current[c]] # <<>>
    BY <2>1, AnswerTells
  <2>3. QED
    BY <1>0, <1>8, <2>1, <2>2 DEF ClientWriteFails
<1>9. CASE Arm(c)
  BY <1>0, <1>9 DEF Arm
<1>10. ASSUME NEW r \in Requests, Submit(c, r)
       PROVE  RememberedInv'
  <2>1. /\ socket[c] = "open" /\ owner[r] = None /\ owner' = [owner EXCEPT ![r] = c]
        /\ pc[c] = "reading" /\ pending' = pending /\ detached' = detached /\ socket' = socket
    BY <1>10 DEF Submit
  <2>2. CASE Finish(c, "reading") /\ Report(r, "cached")
    <3>1. /\ \A q \in Requests : told[q] # <<>> => told'[q] # <<>>
          /\ told'[r] # <<>>
      BY <2>2, AnswerTells DEF Answers
    <3>2. QED
      BY <1>0, <2>1, <2>2, <3>1
  <2>3. CASE /\ Goto(c, "reading", "ensuring")
             /\ current' = [current EXCEPT ![c] = r] /\ told' = told
    BY <1>0, <2>1, <2>3
  <2>4. QED
    BY <1>10, <2>2, <2>3 DEF Submit
<1>11. QED
  BY <1>1, <1>2, <1>3, <1>4, <1>5, <1>6, <1>7, <1>8, <1>9, <1>10 DEF ClientStep

(* The steps of calls, and those calls share with clients, end no request. *)
LEMMA CallStepRemembers ==
    ASSUME TypedInv, RememberedInv, NEW p \in Goroutines,
           SharedStep(p) \/ (p \in Calls /\ CallStep(p))
    PROVE  RememberedInv'
<1> USE HubAssumption
    DEF TypedInv, TypeOK, Handling, Busy, RememberedInv, Presence, NoneForgotten, InHand,
        Goroutines, Goto, clientVars, handlerVars, tableVars, callVars, agentVars,
        untouchedByEnsure
<1>1. UNCHANGED <<told, pending, detached, owner, current, socket, closed>>
  BY DEF SharedStep, Ensured, LoadConnection, Write, CallStep, CallStarts, CallOffline,
         CallRegisters, CallAbandons, CallReturns, linkVars, EnsureSucceeds, EnsureFails,
         EnsureAlready, EnsurePublish, EnsureRefused, EnsureGiveUp
<1>2. \A c \in Clients : \/ pc'[c] = pc[c]
                         \/ pc[c] = "ensuring" /\ pc'[c] = "ensured"
                         \/ pc[c] \in {"registered", "writing"} /\ pc'[c] \in {"writing", "sent"}
  <2>1. CASE SharedStep(p)
    BY <2>1 DEF SharedStep, Ensured, LoadConnection, Write
  <2>2. CASE p \in Calls /\ CallStep(p)
    BY <2>2 DEF CallStep, CallStarts, CallOffline, CallRegisters, CallAbandons, CallReturns
  <2>3. QED
    BY <2>1, <2>2
<1>3. ASSUME NEW c \in Clients
      PROVE  /\ pc'[c] = "offline" <=> pc[c] = "offline"
             /\ pc[c] \in {"ensuring", "ensured"} => pc'[c] \in {"ensuring", "ensured"}
  BY <1>2
<1>4. Presence'
  BY <1>1, <1>3
<1>5. NoneForgotten'
  <2>1. \A r \in Requests : owner[r] # None /\ InHand(r) => InHand(r)'
    BY <1>1, <1>3
  <2>2. QED
    BY <1>1, <2>1
<1>6. QED
  BY <1>4, <1>5

(* Emptying the table answers every entry whose client is in reach, unless *)
(* the hub is closing.                                                     *)
LEMMA TablesRemember ==
    ASSUME TypedInv, RememberedInv, DropTables \/ (SweepTables /\ closed'), closed => closed'
    PROVE  RememberedInv'
<1> USE HubAssumption
    DEF TypedInv, TypeOK, RememberedInv, Presence, NoneForgotten, InHand, Goroutines,
        clientVars, handlerVars, tableVars, callVars, agentVars, Remove
<1>1. CASE SweepTables /\ closed'
  BY <1>1 DEF SweepTables
<1>2. CASE DropTables
  <2>1. \A r \in Requests : told[r] # <<>> => told'[r] # <<>>
    <3>1. ASSUME NEW r \in Requests
          PROVE  told'[r] = told[r] \/ told'[r] = Append(told[r], "disconnected")
      BY <1>2 DEF DropTables, Drop
    <3>2. QED
      BY <3>1, AppendTells DEF Answers
  <2>2. \A r \in pending \ detached : Reachable(r) => told'[r] # <<>>
    <3>1. ASSUME NEW r \in pending \ detached, Reachable(r)
          PROVE  told'[r] = Append(told[r], "disconnected")
      BY <1>2, <3>1 DEF DropTables, Drop
    <3>2. QED
      BY <3>1, AppendTells DEF Answers
  <2>3. UNCHANGED <<socket, pc, current, owner>> /\ detached' = {} /\ pending' = {}
    BY <1>2 DEF DropTables, Drop
  <2>4. \A r \in Requests : Reachable(r) \/ owner[r] = None \/ socket[owner[r]] = "closed"
    BY DEF Reachable
  <2>5. QED
    BY <2>1, <2>2, <2>3, <2>4
<1>3. QED
  BY <1>1, <1>2

(* A response or an expiry that takes an entry reports on it.              *)
LEMMA ReportRemembers ==
    ASSUME TypedInv, RememberedInv, NEW r \in Requests, NEW a \in Answers,
           Report(r, a), Remove({r}), closed' = closed,
           UNCHANGED <<clientVars, handlerVars>>
    PROVE  RememberedInv'
<1>1. /\ \A q \in Requests : told[q] # <<>> => told'[q] # <<>>
      /\ told'[r] # <<>>
  BY AnswerTells DEF TypedInv
<1>2. QED
  BY <1>1
     DEF TypedInv, TypeOK, RememberedInv, Presence, NoneForgotten, InHand, Remove, clientVars,
         handlerVars

(* Every step keeps the account of the requests.                           *)
LEMMA RememberedStep == TypedInv /\ TypedInv' /\ RememberedInv /\ [Next]_vars => RememberedInv'
<1> SUFFICES ASSUME TypedInv, TypedInv', RememberedInv, [Next]_vars
             PROVE  RememberedInv'
  OBVIOUS
<1> USE DEF clientVars, handlerVars, tableVars, callVars, agentVars, requestVars
<1>1. ASSUME UNCHANGED <<clientVars, handlerVars, pending, detached, told>>, closed => closed'
      PROVE  RememberedInv'
  BY <1>1 DEF RememberedInv, Presence, NoneForgotten, InHand
<1>2. closed => closed'
  BY HubLinkStep
     DEF LinkNext, linkVars, EnsureDial, EnsurePublish, EnsureGiveUp, Detach, Clear, CloseBegin,
         CloseSweep, CloseLock, CloseDetach, CloseNothing, CloseClear, CloseWait
<1>3. CASE CloseSteps
  <2>1. CASE CloseSweep /\ SweepTables
    <3>1. closed'
      BY <2>1 DEF CloseSweep, TypedInv, LinkInv, CloserHolds
    <3>2. QED
      BY <1>2, <2>1, <3>1, TablesRemember
  <2>2. CASE DropTables
    BY <1>2, <2>2, TablesRemember
  <2>3. CASE UNCHANGED requestVars
    BY <1>1, <1>2, <2>3
  <2>4. QED
    BY <1>3, <2>1, <2>2, <2>3 DEF CloseSteps
<1>4. ASSUME NEW g \in Generations, AgentStep(g)
      PROVE  RememberedInv'
  <2>1. CASE DispatchRequest(g)
    <3>1. /\ inbox[g] \in Requests /\ Report(inbox[g], Completion(inbox[g]))
          /\ Remove({inbox[g]}) /\ UNCHANGED <<linkVars, clientVars, handlerVars>>
      BY <2>1 DEF DispatchRequest, TypedInv, TypeOK
    <3>2. Completion(inbox[g]) \in Answers
      BY DEF Completion, Answers
    <3>3. QED
      BY <3>1, <3>2, ReportRemembers DEF linkVars
  <2>2. CASE DispatchCall(g) \/ DispatchUnknown(g) \/ Loses(g)
    BY <1>1, <1>2, <2>2 DEF DispatchCall, DispatchUnknown, Loses
  <2>3. ASSUME NEW i \in Identifiers, Receive(g, i)
        PROVE  RememberedInv'
    BY <1>1, <1>2, <2>3 DEF Receive
  <2>4. CASE Clears(g)
    BY <1>2, <2>4, TablesRemember DEF Clears
  <2>5. QED
    BY <1>4, <2>1, <2>2, <2>3, <2>4 DEF AgentStep
<1>5. ASSUME NEW r \in Requests, Expire(r) \/ TimerStops(r)
      PROVE  RememberedInv'
  <2>1. CASE Expire(r)
    <3>1. /\ Report(r, "timeout") \/ Report(r, "notice")
          /\ Remove({r}) /\ UNCHANGED <<linkVars, clientVars, handlerVars>>
      BY <2>1 DEF Expire
    <3>2. "timeout" \in Answers /\ "notice" \in Answers
      BY DEF Answers
    <3>3. QED
      BY <3>1, <3>2, ReportRemembers DEF linkVars
  <2>2. CASE TimerStops(r)
    BY <1>1, <1>2, <2>2 DEF TimerStops
  <2>3. QED
    BY <1>5, <2>1, <2>2
<1>6. ASSUME NEW p \in Ensurers, Dials(p) \/ WatcherEnsures(p)
      PROVE  RememberedInv'
  BY <1>1, <1>2, <1>6 DEF Dials, WatcherEnsures
<1>7. CASE Terminated \/ UNCHANGED vars
  BY <1>1, <1>2, <1>7 DEF Terminated, vars
<1>8. QED
  BY <1>3, <1>4, <1>5, <1>6, <1>7, ClientStepRemembers, CallStepRemembers DEF Next, Goroutines

(* clientrpc.go:84-119, pending.go:1-2: a request with no entry left was   *)
(* answered or reported, or its client or the hub is gone.                 *)
THEOREM HubNoneForgotten == Spec => []NoneForgotten
<1>1. Init => RememberedInv
  BY HubAssumption DEF Init, RememberedInv, Presence, NoneForgotten, Goroutines
<1>2. RememberedInv => NoneForgotten
  BY DEF RememberedInv
<1>3. QED
  BY <1>1, <1>2, RememberedStep, TypedInvariant, PTL DEF Spec
=============================================================================
