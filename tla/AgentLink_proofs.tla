--------------------------- MODULE AgentLink_proofs ---------------------------
(***************************************************************************)
(* The link's safety properties for any number of ensurers and any bound   *)
(* on generations.  LinkInv adds to them what makes them inductive: who    *)
(* holds connectionMutex, and what each stage of Close has established.    *)
(***************************************************************************)
EXTENDS AgentLink, TLAPS

\* While a goroutine dials, there is no connection to replace.
DialerFindsNone == connectionMutex \in Ensurers => agent = 0

\* Generations start at one, so a nil pointer is never being torn down.
ClearsConnections == 0 \notin clearing

\* What the goroutine that runs Close holds and knows at each stage.
CloserHolds ==
    /\ closing = "open" => ~closed
    /\ closing # "open" => closed
    /\ connectionMutex = "closer" => closing \in {"locked", "clearing"}
    /\ closing \in {"locked", "clearing"} => connectionMutex = "closer"
    /\ closing \in {"clearing", "drained", "done"} => agent = 0
    /\ closing = "clearing" => agentGeneration \in clearing

LinkInv ==
    LinkTypeOK /\ CurrentIsLatest /\ DialerFindsNone /\ ClearsConnections /\ CloserHolds

(* Initially there is no connection and Close has not been called.         *)
LEMMA LinkInitially == LinkInit => LinkInv
<1> SUFFICES ASSUME LinkInit PROVE LinkInv
  OBVIOUS
<1>1. LinkTypeOK
  BY DEF LinkInit, LinkTypeOK, CloseStages
<1>2. CurrentIsLatest /\ DialerFindsNone /\ ClearsConnections /\ CloserHolds
  BY LinkAssumption
     DEF LinkInit, CurrentIsLatest, DialerFindsNone, ClearsConnections, CloserHolds
<1>3. QED
  BY <1>1, <1>2 DEF LinkInv

(* Every step of the link, and every step that leaves it alone, keeps LinkInv. *)
LEMMA LinkStep == LinkInv /\ [LinkNext]_linkVars => LinkInv'
<1> SUFFICES ASSUME LinkInv, [LinkNext]_linkVars
             PROVE  LinkInv'
  OBVIOUS
<1> USE LinkAssumption DEF LinkInv, LinkTypeOK, CurrentIsLatest, DialerFindsNone,
                           ClearsConnections, CloserHolds, CloseStages
<1>1. ASSUME NEW p \in Ensurers, EnsureDial(p)
      PROVE  LinkInv'
  BY <1>1 DEF EnsureDial
<1>2. ASSUME NEW p \in Ensurers, EnsurePublish(p)
      PROVE  LinkInv'
  BY <1>2 DEF EnsurePublish
<1>3. ASSUME NEW p \in Ensurers, EnsureGiveUp(p)
      PROVE  LinkInv'
  BY <1>3 DEF EnsureGiveUp
<1>4. ASSUME NEW g \in 1..MaxGeneration, Detach(g)
      PROVE  LinkInv'
  BY <1>4 DEF Detach
<1>5. ASSUME NEW g \in 1..MaxGeneration, Clear(g)
      PROVE  LinkInv'
  BY <1>5 DEF Clear
<1>6. CASE CloseBegin
  BY <1>6 DEF CloseBegin
<1>7. CASE CloseSweep
  BY <1>7 DEF CloseSweep
<1>8. CASE CloseLock
  BY <1>8 DEF CloseLock
<1>9. CASE CloseDetach
  BY <1>9 DEF CloseDetach
<1>10. CASE CloseNothing
  BY <1>10 DEF CloseNothing
<1>11. CASE CloseClear
  BY <1>11 DEF CloseClear
<1>12. CASE CloseWait
  BY <1>12 DEF CloseWait
<1>13. CASE UNCHANGED linkVars
  BY <1>13 DEF linkVars
<1>14. QED
  BY <1>1, <1>2, <1>3, <1>4, <1>5, <1>6, <1>7, <1>8, <1>9, <1>10, <1>11, <1>12, <1>13
     DEF LinkNext

(* The strengthened invariant holds of every behaviour of the link.        *)
THEOREM LinkInvariant == LinkSpec => []LinkInv
BY LinkInitially, LinkStep, PTL DEF LinkSpec

(* hub.go:140-142: when Close has let connectionMutex go, no connection is *)
(* published and none can be, whatever Ensure was in flight.               *)
THEOREM LinkCloseBarrier == LinkSpec => []CloseBarrier
<1>1. LinkInv => CloseBarrier
  BY DEF LinkInv, CloserHolds, CloseBarrier
<1>2. QED
  BY <1>1, LinkInvariant, PTL

(* agenttransport.go:105-120: the published connection is the latest       *)
(* generation, and a generation being torn down is not the published one.  *)
THEOREM LinkCurrentIsLatest == LinkSpec => []CurrentIsLatest
<1>1. LinkInv => CurrentIsLatest
  BY DEF LinkInv
<1>2. QED
  BY <1>1, LinkInvariant, PTL

(* agenttransport.go:29-36: a connection is never published over another.  *)
LEMMA PublishStep ==
    LinkInv /\ [LinkNext]_linkVars => [agent' > agent => agent = 0]_linkVars
<1> SUFFICES ASSUME LinkInv, LinkNext
             PROVE  agent' > agent => agent = 0
  BY DEF linkVars
<1>1. ASSUME NEW p \in Ensurers, EnsurePublish(p)
      PROVE  agent = 0
  BY <1>1 DEF LinkInv, DialerFindsNone, EnsurePublish
<1>2. ASSUME NEW p \in Ensurers, EnsureDial(p) \/ EnsureGiveUp(p)
      PROVE  agent' = agent
  BY <1>2 DEF EnsureDial, EnsureGiveUp
<1>3. ASSUME NEW g \in 1..MaxGeneration, Detach(g) \/ Clear(g)
      PROVE  agent' = agent \/ agent' = 0
  BY <1>3 DEF Detach, Clear
<1>4. CASE CloseBegin \/ CloseSweep \/ CloseLock \/ CloseDetach \/ CloseNothing
           \/ CloseClear \/ CloseWait
  <2>1. agent' = agent \/ agent' = 0
    BY <1>4 DEF CloseBegin, CloseSweep, CloseLock, CloseDetach, CloseNothing, CloseClear,
                CloseWait
  <2>2. QED
    BY <2>1 DEF LinkInv, LinkTypeOK
<1>5. QED
  BY <1>1, <1>2, <1>3, <1>4 DEF LinkNext, LinkInv, LinkTypeOK

(* Two goroutines that both saw no agent never both publish one.           *)
THEOREM LinkPublishReplacesNothing == LinkSpec => PublishReplacesNothing
BY LinkInvariant, PublishStep, PTL DEF LinkSpec, PublishReplacesNothing

\* The steps of the link that end no teardown.
EndsNoTeardown ==
    \/ \E p \in Ensurers : EnsureDial(p) \/ EnsurePublish(p) \/ EnsureGiveUp(p)
    \/ \E g \in 1..MaxGeneration : Detach(g)
    \/ CloseBegin \/ CloseSweep \/ CloseLock
    \/ CloseDetach \/ CloseNothing \/ CloseWait
    \/ UNCHANGED linkVars

(* A connection is attached until the second step of its own teardown.     *)
LEMMA AttachedPersists ==
    ASSUME LinkInv, EndsNoTeardown, NEW g \in Nat, g # 0, Attached(g)
    PROVE  Attached(g)'
<1>1. ASSUME NEW p \in Ensurers, EnsurePublish(p)
      PROVE  Attached(g)'
  BY <1>1 DEF EnsurePublish, Attached, LinkInv, DialerFindsNone
<1>2. ASSUME NEW p \in Ensurers, EnsureDial(p) \/ EnsureGiveUp(p)
      PROVE  Attached(g)'
  BY <1>2 DEF EnsureDial, EnsureGiveUp, Attached
<1>3. ASSUME NEW h \in 1..MaxGeneration, Detach(h)
      PROVE  Attached(g)'
  BY <1>3 DEF Detach, Attached
<1>4. CASE \/ CloseBegin \/ CloseSweep \/ CloseLock \/ CloseDetach \/ CloseNothing \/ CloseWait
           \/ UNCHANGED linkVars
  BY <1>4 DEF CloseBegin, CloseSweep, CloseLock, CloseDetach, CloseNothing, CloseWait, Attached,
              linkVars
<1>5. QED
  BY <1>1, <1>2, <1>3, <1>4 DEF EndsNoTeardown

(* These are all the steps but the two that do.                            *)
LEMMA TeardownEnds ==
    ASSUME \/ EndsNoTeardown
           \/ \E g \in 1..MaxGeneration : Clear(g)
           \/ CloseClear
    PROVE  [LinkNext]_linkVars
BY DEF EndsNoTeardown, LinkNext
=============================================================================
