------------------------- MODULE ReverseRoutes_proofs -------------------------
(***************************************************************************)
(* Reverse requests, for any number of clients, sessions, requests and     *)
(* connections: the hub implements ReverseContract, and what it does with  *)
(* its clients on the way.                                                 *)
(***************************************************************************)
EXTENDS ReverseRoutes, AgentLink_proofs

-----------------------------------------------------------------------------
(* Steps of the link, as in HubRequests.                                   *)

(* Every step is a step of the link or leaves it alone.                    *)
LEMMA RoutesLinkStep == [Next]_vars => [LinkNext]_linkVars
<1> SUFFICES ASSUME [Next]_vars
             PROVE  [LinkNext]_linkVars
  OBVIOUS
<1> USE DEF LinkNext, Generations
<1>1. ASSUME NEW c \in Clients, Connect(c)
      PROVE  [LinkNext]_linkVars
  BY <1>1 DEF Connect
<1>2. ASSUME NEW c \in Clients, SocketCloses(c)
      PROVE  [LinkNext]_linkVars
  BY <1>2 DEF SocketCloses
<1>3. ASSUME NEW c \in Clients, ReaderExits(c)
      PROVE  [LinkNext]_linkVars
  BY <1>3 DEF ReaderExits
<1>4. ASSUME NEW c \in Clients, NEW s \in Sessions, Subscribe(c, s)
      PROVE  [LinkNext]_linkVars
  BY <1>4 DEF Subscribe
<1>5. ASSUME NEW c \in Clients, NEW a \in Asks, Replay(c, a)
      PROVE  [LinkNext]_linkVars
  BY <1>5 DEF Replay
<1>6. ASSUME NEW c \in Clients, NEW a \in Asks, Answer(c, a)
      PROVE  [LinkNext]_linkVars
  BY <1>6 DEF Answer
<1>7. ASSUME NEW g \in Generations, NEW a \in Asks, NEW s \in Sessions \cup {None}, Receive(g, a, s)
      PROVE  [LinkNext]_linkVars
  BY <1>7 DEF Receive
<1>8. ASSUME NEW g \in Generations, RefuseUnscoped(g)
      PROVE  [LinkNext]_linkVars
  BY <1>8 DEF RefuseUnscoped
<1>9. ASSUME NEW g \in Generations, RefuseMalformed(g)
      PROVE  [LinkNext]_linkVars
  BY <1>9 DEF RefuseMalformed
<1>10. ASSUME NEW g \in Generations, RefuseUnmatched(g)
      PROVE  [LinkNext]_linkVars
  BY <1>10 DEF RefuseUnmatched
<1>11. ASSUME NEW g \in Generations, Forward(g)
      PROVE  [LinkNext]_linkVars
  BY <1>11 DEF Forward
<1>12. ASSUME NEW g \in Generations, ForwardDone(g)
      PROVE  [LinkNext]_linkVars
  BY <1>12 DEF ForwardDone
<1>13. ASSUME NEW g \in Generations, OperationStarts(g)
      PROVE  [LinkNext]_linkVars
  BY <1>13 DEF OperationStarts
<1>14. ASSUME NEW g \in Generations, NEW c \in Clients, ForwardSend(g, c)
      PROVE  [LinkNext]_linkVars
  BY <1>14 DEF ForwardSend
<1>15. ASSUME NEW g \in Generations, Loses(g)
      PROVE  [LinkNext]_linkVars
  BY <1>15 DEF Loses
<1>16. ASSUME NEW g \in Generations, Clears(g)
      PROVE  [LinkNext]_linkVars
  BY <1>16 DEF Clears
<1>17. ASSUME NEW a \in Asks, OperationEnds(a)
      PROVE  [LinkNext]_linkVars
  BY <1>17 DEF OperationEnds
<1>18. ASSUME NEW a \in Asks, Expire(a)
      PROVE  [LinkNext]_linkVars
  BY <1>18 DEF Expire
<1>19. ASSUME NEW a \in Asks, ExpiryStops(a)
      PROVE  [LinkNext]_linkVars
  BY <1>19 DEF ExpiryStops
<1>20. ASSUME NEW p \in Ensurers, Ensures(p)
      PROVE  [LinkNext]_linkVars
  BY <1>20 DEF Ensures
<1>21. CASE CloseSteps
  BY <1>21 DEF CloseSteps, CloseSwept
<1>22. CASE Terminated
  BY <1>22 DEF Terminated, vars
<1>23. CASE UNCHANGED vars
  BY <1>23 DEF vars, linkVars, clientVars, readerVars, routeVars, replyVars
<1>24. QED
  BY <1>1, <1>2, <1>3, <1>4, <1>5, <1>6, <1>7, <1>8, <1>9, <1>10, <1>11, <1>12,
     <1>13, <1>14, <1>15, <1>16, <1>17, <1>18, <1>19, <1>20, <1>21, <1>22, <1>23
     DEF Next, ClientStep, Dispatch

(* The hub's reverse side drives its link only through the link's actions, *)
(* so Close is a barrier for it as well.                                   *)
THEOREM RoutesImplementLink == Spec => LinkSpec
<1>1. Init => LinkInit
  BY DEF Init
<1>2. QED
  BY <1>1, RoutesLinkStep, PTL DEF Spec, LinkSpec

-----------------------------------------------------------------------------
(* Where a request is, and that nothing was replied to it before it leaves. *)

\* What a reader holds came over its own connection.
Reading ==
    \A g \in Generations :
        /\ reader[g] # "idle" => inbox[g] # None
        /\ inbox[g] # None => reader[g] # "idle" /\ asked[inbox[g]] = g

\* A request is in one place at a time.
OnePlace ==
    /\ \A a \in Asks : asked[a] = 0 =>
          a \notin routes /\ a \notin working /\ targets[a] = {} /\ answeredBy[a] = None
    /\ \A g \in Generations : reader[g] = "checked" =>
          inbox[g] \notin routes /\ inbox[g] \notin working
    /\ \A a \in routes : a \notin Operations

PlaceInv == LinkInv /\ TypeOK /\ Reading /\ OnePlace

\* A request that has not come, is being read, routed or worked on.
Unsettled(a) ==
    \/ asked[a] = 0
    \/ \E g \in Generations : reader[g] = "checked" /\ inbox[g] = a
    \/ a \in routes
    \/ a \in working

Unreplied == \A a \in Asks : Unsettled(a) => reply[a] = <<>>

(* Nothing is connected and nothing asked.                                  *)
LEMMA RoutesInitially == Init => PlaceInv /\ Unreplied
<1> SUFFICES ASSUME Init
             PROVE  PlaceInv /\ Unreplied
  OBVIOUS
<1>1. LinkInv
  BY LinkInitially DEF Init
<1>2. QED
  BY <1>1, RouteAssumption
     DEF Init, PlaceInv, LinkInv, TypeOK, Reading, OnePlace, Unreplied

(* What the write of a reply does to the replies.                          *)
LEMMA ReplyWritten ==
    ASSUME TypeOK, NEW a \in Asks, NEW k \in {"answer", "cancelled", "error"}, WriteReply(a, k)
    PROVE  /\ reply' \in [Asks -> Seq({"answer", "cancelled", "error", "failed"})]
           /\ \A b \in Asks : b # a => reply'[b] = reply[b]
<1>1. PICK w \in {k, "failed"} :
          reply' = [reply EXCEPT ![a] = IF agent # 0 /\ agent = asked[a]
                                        THEN Append(@, w) ELSE @]
  BY DEF WriteReply
<1>2. reply[a] \in Seq({"answer", "cancelled", "error", "failed"})
  BY DEF TypeOK
<1>3. Append(reply[a], w) \in Seq({"answer", "cancelled", "error", "failed"})
  BY <1>2
<1>4. QED
  BY <1>1, <1>2, <1>3 DEF TypeOK

(* What the end of a client does to the tables.                            *)
LEMMA Removed ==
    ASSUME TypeOK, NEW c \in Clients, Removal(c)
    PROVE  /\ clients' \in SUBSET Clients
           /\ socket' \in [Clients -> {"new", "open", "closed"}]
           /\ session' \in [Clients -> Sessions \cup {None}]
           /\ targets' \in [Asks -> SUBSET Clients]
           /\ \A b \in Asks : targets'[b] \subseteq targets[b]
BY DEF TypeOK, Removal

(* Every step moves a request from one place to the next.                  *)
LEMMA PlaceStep == PlaceInv /\ [Next]_vars => PlaceInv'
<1> SUFFICES ASSUME PlaceInv, [Next]_vars
             PROVE  PlaceInv'
  OBVIOUS
<1>0. LinkInv'
  BY LinkStep, RoutesLinkStep DEF PlaceInv
<1>a. 0 \notin Generations /\ \A g \in Generations : g \in Nat
  BY LinkAssumption DEF Generations
<1> USE RouteAssumption, <1>a
    DEF PlaceInv, LinkInv, TypeOK, Reading, OnePlace, linkVars, clientVars, readerVars,
       routeVars, replyVars, UnavailableReply, UnmatchedReply
<1>1. ASSUME NEW c \in Clients, Connect(c)
      PROVE  PlaceInv'
  BY <1>1, <1>0 DEF Connect
<1>2. ASSUME NEW c \in Clients, SocketCloses(c)
      PROVE  PlaceInv'
  BY <1>2, <1>0 DEF SocketCloses
<1>3. ASSUME NEW c \in Clients, ReaderExits(c)
      PROVE  PlaceInv'
  BY <1>3, <1>0 DEF ReaderExits, Removal
<1>4. ASSUME NEW c \in Clients, NEW s \in Sessions, Subscribe(c, s)
      PROVE  PlaceInv'
  BY <1>4, <1>0 DEF Subscribe, OrphansOf
<1>5. ASSUME NEW c \in Clients, NEW a \in Asks, Replay(c, a)
      PROVE  PlaceInv'
  <2>1. /\ clients' \in SUBSET Clients
        /\ socket' \in [Clients -> {"new", "open", "closed"}]
        /\ session' \in [Clients -> Sessions \cup {None}]
        /\ targets' \in [Asks -> SUBSET Clients]
        /\ \A b \in Asks : targets'[b] \subseteq targets[b]
    <3>1. CASE Removal(c)
      BY <3>1, Removed
    <3>2. CASE UNCHANGED <<clients, socket, session, targets>>
      BY <3>2
    <3>3. QED
      BY <1>5, <3>1, <3>2 DEF Replay
  <2>2. TypeOK'
    BY <1>5, <1>0, <2>1 DEF Replay
  <2>3. Reading' /\ OnePlace'
    BY <1>5, <2>1 DEF Replay
  <2>4. QED
    BY <1>0, <2>2, <2>3
<1>6. ASSUME NEW c \in Clients, NEW a \in Asks, Answer(c, a)
      PROVE  PlaceInv'
  BY <1>6, <1>0, ReplyWritten DEF Answer, DropRoutes
<1>7. ASSUME NEW g \in Generations, NEW a \in Asks, NEW s \in Sessions \cup {None}, Receive(g, a, s)
      PROVE  PlaceInv'
  <2> USE DEF Receive
  <2>1. TypeOK'
    BY <1>7, <1>0
  <2>2. Reading'
    BY <1>7, <1>0
  <2>3. OnePlace'
    BY <1>7, <1>0
  <2>4. QED
    BY <2>1, <2>2, <2>3, <1>0
<1>8. ASSUME NEW g \in Generations, RefuseUnscoped(g)
      PROVE  PlaceInv'
  <2>1. inbox[g] \in Asks /\ \E k \in {"answer", "cancelled", "error"} : WriteReply(inbox[g], k)
    BY <1>8 DEF RefuseUnscoped, Handling
  <2>2. reply' \in [Asks -> Seq({"answer", "cancelled", "error", "failed"})]
    BY <2>1, ReplyWritten
  <2>3. /\ reader' = [reader EXCEPT ![g] = "idle"]
        /\ inbox' = [inbox EXCEPT ![g] = None]
        /\ UNCHANGED <<linkVars, clientVars, asked, about, unsent, delivered, routeVars,
                       working, answeredBy>>
    BY <1>8 DEF RefuseUnscoped, ReaderDone
  <2>4. TypeOK'
    BY <1>0, <2>2, <2>3
  <2>5. Reading'
    BY <2>3
  <2>6. OnePlace'
    BY <2>3
  <2>7. QED
    BY <1>0, <2>4, <2>5, <2>6
<1>9. ASSUME NEW g \in Generations, RefuseMalformed(g)
      PROVE  PlaceInv'
  <2>1. inbox[g] \in Asks /\ \E k \in {"answer", "cancelled", "error"} : WriteReply(inbox[g], k)
    BY <1>9 DEF RefuseMalformed, Handling
  <2>2. reply' \in [Asks -> Seq({"answer", "cancelled", "error", "failed"})]
    BY <2>1, ReplyWritten
  <2>3. /\ reader' = [reader EXCEPT ![g] = "idle"]
        /\ inbox' = [inbox EXCEPT ![g] = None]
        /\ UNCHANGED <<linkVars, clientVars, asked, about, unsent, delivered, routeVars,
                       working, answeredBy>>
    BY <1>9 DEF RefuseMalformed, ReaderDone
  <2>4. TypeOK'
    BY <1>0, <2>2, <2>3
  <2>5. Reading'
    BY <2>3
  <2>6. OnePlace'
    BY <2>3
  <2>7. QED
    BY <1>0, <2>4, <2>5, <2>6
<1>10. ASSUME NEW g \in Generations, RefuseUnmatched(g)
      PROVE  PlaceInv'
  <2>1. inbox[g] \in Asks /\ \E k \in {"answer", "cancelled", "error"} : WriteReply(inbox[g], k)
    BY <1>10 DEF RefuseUnmatched, Handling
  <2>2. reply' \in [Asks -> Seq({"answer", "cancelled", "error", "failed"})]
    BY <2>1, ReplyWritten
  <2>3. /\ reader' = [reader EXCEPT ![g] = "idle"]
        /\ inbox' = [inbox EXCEPT ![g] = None]
        /\ UNCHANGED <<linkVars, clientVars, asked, about, unsent, delivered, routeVars,
                       working, answeredBy>>
    BY <1>10 DEF RefuseUnmatched, ReaderDone
  <2>4. TypeOK'
    BY <1>0, <2>2, <2>3
  <2>5. Reading'
    BY <2>3
  <2>6. OnePlace'
    BY <2>3
  <2>7. QED
    BY <1>0, <2>4, <2>5, <2>6
<1>11. ASSUME NEW g \in Generations, Forward(g)
      PROVE  PlaceInv'
  <2>a. reader[g] = "checked" /\ inbox[g] \in Asks
    BY <1>11, RouteAssumption DEF Forward, Handling
  <2>b. inbox[g] # None /\ asked[inbox[g]] = g /\ g # 0
    BY <2>a
  <2> USE DEF Forward, Handling, Eligible
  <2>1. TypeOK'
    BY <1>11, <1>0
  <2>2. Reading'
    BY <1>11, <1>0
  <2>3. OnePlace'
    <3>1. inbox[g] \in Asks /\ asked[inbox[g]] # 0
      BY <2>a, <2>b
    <3>2. \A h \in Generations : inbox[h] = inbox[g] => h = g
      BY <3>1
    <3>3. \A h \in Generations : reader'[h] = "checked" => h # g /\ reader[h] = "checked"
      BY <1>11
    <3>4. \A a \in routes' : a \notin Operations
      BY <1>11
    <3>5. \A h \in Generations : reader'[h] = "checked" =>
             inbox'[h] \notin routes' /\ inbox'[h] \notin working'
      BY <1>11, <3>2, <3>3
    <3>6. \A a \in Asks : asked'[a] = 0 =>
             /\ a \notin routes' /\ a \notin working'
             /\ targets'[a] = {} /\ answeredBy'[a] = None
      BY <1>11, <3>1
    <3>7. QED
      BY <3>4, <3>5, <3>6
  <2>4. QED
    BY <2>1, <2>2, <2>3, <1>0
<1>12. ASSUME NEW g \in Generations, ForwardDone(g)
      PROVE  PlaceInv'
  BY <1>12, <1>0 DEF ForwardDone, ReaderDone
<1>13. ASSUME NEW g \in Generations, OperationStarts(g)
      PROVE  PlaceInv'
  <2>a. reader[g] = "checked" /\ inbox[g] \in Asks
    BY <1>13, RouteAssumption DEF OperationStarts, Handling
  <2>b. inbox[g] # None /\ asked[inbox[g]] = g /\ g # 0
    BY <2>a
  <2> USE DEF OperationStarts, ReaderDone, Handling
  <2>1. TypeOK'
    BY <1>13, <1>0
  <2>2. Reading'
    BY <1>13, <1>0
  <2>3. OnePlace'
    <3>1. inbox[g] \in Asks /\ asked[inbox[g]] # 0
      BY <2>a, <2>b
    <3>2. \A h \in Generations : inbox[h] = inbox[g] => h = g
      BY <3>1
    <3>3. \A h \in Generations : reader'[h] = "checked" => h # g /\ reader[h] = "checked"
      BY <1>13
    <3>4. QED
      BY <1>13, <3>1, <3>2, <3>3
  <2>4. QED
    BY <2>1, <2>2, <2>3, <1>0
<1>14. ASSUME NEW g \in Generations, NEW c \in Clients, ForwardSend(g, c)
      PROVE  PlaceInv'
  <2>1. /\ clients' \in SUBSET Clients
        /\ socket' \in [Clients -> {"new", "open", "closed"}]
        /\ session' \in [Clients -> Sessions \cup {None}]
        /\ targets' \in [Asks -> SUBSET Clients]
        /\ \A b \in Asks : targets'[b] \subseteq targets[b]
    <3>1. CASE Removal(c)
      BY <3>1, Removed
    <3>2. CASE UNCHANGED <<clients, socket, session, targets>>
      BY <3>2
    <3>3. QED
      BY <1>14, <3>1, <3>2 DEF ForwardSend
  <2>2. TypeOK'
    <3>1. unsent' \in [Generations -> SUBSET Clients]
      BY <1>14 DEF ForwardSend
    <3>2. delivered' \in [Generations -> BOOLEAN]
      <4>1. delivered' = [delivered EXCEPT ![g] = TRUE] \/ UNCHANGED delivered
        BY <1>14 DEF ForwardSend
      <4>2. QED
        BY <4>1
    <3>3. UNCHANGED <<gone, visited, asked, about, reader, inbox, routes, replays, expiring,
                      undelivered, working, answeredBy, reply>>
      BY <1>14 DEF ForwardSend
    <3>4. QED
      BY <1>0, <2>1, <3>1, <3>2, <3>3
  <2>3. Reading' /\ OnePlace'
    BY <1>14, <2>1 DEF ForwardSend
  <2>4. QED
    BY <1>0, <2>2, <2>3
<1>15. ASSUME NEW g \in Generations, Loses(g)
      PROVE  PlaceInv'
  BY <1>15, <1>0 DEF Loses, Detach
<1>16. ASSUME NEW g \in Generations, Clears(g)
      PROVE  PlaceInv'
  BY <1>16, <1>0 DEF Clears, Clear, DropAllRoutes, DropRoutes
<1>17. ASSUME NEW a \in Asks, OperationEnds(a)
      PROVE  PlaceInv'
  BY <1>17, <1>0, ReplyWritten DEF OperationEnds
<1>18. ASSUME NEW a \in Asks, Expire(a)
      PROVE  PlaceInv'
  BY <1>18, <1>0, ReplyWritten DEF Expire, DropRoutes
<1>19. ASSUME NEW a \in Asks, ExpiryStops(a)
      PROVE  PlaceInv'
  BY <1>19, <1>0 DEF ExpiryStops
<1>20. ASSUME NEW p \in Ensurers, Ensures(p)
      PROVE  PlaceInv'
  BY <1>20, <1>0 DEF Ensures, EnsureDial, EnsurePublish, EnsureGiveUp, others
<1>21. CASE CloseSteps
  BY <1>21, <1>0 DEF CloseSteps, CloseBegin, CloseSweep, SweepTables, CloseSwept,
     CloseLock, CloseDetach, CloseNothing, CloseClear, DropAllRoutes, DropRoutes,
     CloseWait, others
<1>22. CASE Terminated
  BY <1>22, <1>0 DEF Terminated, vars
<1>23. CASE UNCHANGED vars
  BY <1>23, <1>0 DEF vars, linkVars, clientVars, readerVars, routeVars, replyVars
<1>24. QED
  BY <1>1, <1>2, <1>3, <1>4, <1>5, <1>6, <1>7, <1>8, <1>9, <1>10, <1>11, <1>12,
     <1>13, <1>14, <1>15, <1>16, <1>17, <1>18, <1>19, <1>20, <1>21, <1>22, <1>23
     DEF Next, ClientStep, Dispatch

(* Every step that writes a reply takes the request from its place.        *)
LEMMA UnrepliedStep == PlaceInv /\ Unreplied /\ [Next]_vars => Unreplied'
<1> SUFFICES ASSUME PlaceInv, Unreplied, [Next]_vars
             PROVE  Unreplied'
  OBVIOUS
<1>a. 0 \notin Generations /\ \A g \in Generations : g \in Nat
  BY LinkAssumption DEF Generations
<1> USE RouteAssumption, <1>a
    DEF PlaceInv, TypeOK, Reading, OnePlace, Unreplied, Unsettled, linkVars, clientVars,
       readerVars, routeVars, replyVars, UnavailableReply, UnmatchedReply
<1>1. ASSUME NEW c \in Clients, Connect(c)
      PROVE  Unreplied'
  BY <1>1 DEF Connect
<1>2. ASSUME NEW c \in Clients, SocketCloses(c)
      PROVE  Unreplied'
  BY <1>2 DEF SocketCloses
<1>3. ASSUME NEW c \in Clients, ReaderExits(c)
      PROVE  Unreplied'
  BY <1>3 DEF ReaderExits, Removal
<1>4. ASSUME NEW c \in Clients, NEW s \in Sessions, Subscribe(c, s)
      PROVE  Unreplied'
  BY <1>4 DEF Subscribe, OrphansOf
<1>5. ASSUME NEW c \in Clients, NEW a \in Asks, Replay(c, a)
      PROVE  Unreplied'
  BY <1>5 DEF Replay, Removal
<1>6. ASSUME NEW c \in Clients, NEW a \in Asks, Answer(c, a)
      PROVE  Unreplied'
  <2>1. a \in Asks /\ \E k \in {"answer", "cancelled", "error"} : WriteReply(a, k)
    BY <1>6 DEF Answer, DropRoutes
  <2>2. \A b \in Asks : b # a => reply'[b] = reply[b]
    BY <2>1, ReplyWritten
  <2>3. \A b \in Asks : Unsettled(b)' => b # a /\ Unsettled(b)
    BY <1>6, <2>1 DEF Answer, DropRoutes
  <2>4. QED
    BY <2>2, <2>3
<1>7. ASSUME NEW g \in Generations, NEW a \in Asks, NEW s \in Sessions \cup {None}, Receive(g, a, s)
      PROVE  Unreplied'
  BY <1>7 DEF Receive
<1>8. ASSUME NEW g \in Generations, RefuseUnscoped(g)
      PROVE  Unreplied'
  <2>1. inbox[g] \in Asks /\ \E k \in {"answer", "cancelled", "error"} : WriteReply(inbox[g], k)
    BY <1>8 DEF RefuseUnscoped, ReaderDone, Handling
  <2>2. \A b \in Asks : b # inbox[g] => reply'[b] = reply[b]
    BY <2>1, ReplyWritten
  <2>3. \A b \in Asks : Unsettled(b)' => b # inbox[g] /\ Unsettled(b)
    BY <1>8, <2>1 DEF RefuseUnscoped, ReaderDone, Handling
  <2>4. QED
    BY <2>2, <2>3
<1>9. ASSUME NEW g \in Generations, RefuseMalformed(g)
      PROVE  Unreplied'
  <2>1. inbox[g] \in Asks /\ \E k \in {"answer", "cancelled", "error"} : WriteReply(inbox[g], k)
    BY <1>9 DEF RefuseMalformed, ReaderDone, Handling
  <2>2. \A b \in Asks : b # inbox[g] => reply'[b] = reply[b]
    BY <2>1, ReplyWritten
  <2>3. \A b \in Asks : Unsettled(b)' => b # inbox[g] /\ Unsettled(b)
    BY <1>9, <2>1 DEF RefuseMalformed, ReaderDone, Handling
  <2>4. QED
    BY <2>2, <2>3
<1>10. ASSUME NEW g \in Generations, RefuseUnmatched(g)
      PROVE  Unreplied'
  <2>1. inbox[g] \in Asks /\ \E k \in {"answer", "cancelled", "error"} : WriteReply(inbox[g], k)
    BY <1>10 DEF RefuseUnmatched, ReaderDone, Handling
  <2>2. \A b \in Asks : b # inbox[g] => reply'[b] = reply[b]
    BY <2>1, ReplyWritten
  <2>3. \A b \in Asks : Unsettled(b)' => b # inbox[g] /\ Unsettled(b)
    BY <1>10, <2>1 DEF RefuseUnmatched, ReaderDone, Handling
  <2>4. QED
    BY <2>2, <2>3
<1>11. ASSUME NEW g \in Generations, Forward(g)
      PROVE  Unreplied'
  BY <1>11 DEF Forward, Handling, Eligible
<1>12. ASSUME NEW g \in Generations, ForwardDone(g)
      PROVE  Unreplied'
  BY <1>12 DEF ForwardDone, ReaderDone
<1>13. ASSUME NEW g \in Generations, OperationStarts(g)
      PROVE  Unreplied'
  BY <1>13 DEF OperationStarts, ReaderDone, Handling
<1>14. ASSUME NEW g \in Generations, NEW c \in Clients, ForwardSend(g, c)
      PROVE  Unreplied'
  BY <1>14 DEF ForwardSend, Removal
<1>15. ASSUME NEW g \in Generations, Loses(g)
      PROVE  Unreplied'
  BY <1>15 DEF Loses, Detach
<1>16. ASSUME NEW g \in Generations, Clears(g)
      PROVE  Unreplied'
  BY <1>16 DEF Clears, Clear, DropAllRoutes, DropRoutes
<1>17. ASSUME NEW a \in Asks, OperationEnds(a)
      PROVE  Unreplied'
  <2>1. a \in Asks /\ \E k \in {"answer", "cancelled", "error"} : WriteReply(a, k)
    BY <1>17 DEF OperationEnds
  <2>2. \A b \in Asks : b # a => reply'[b] = reply[b]
    BY <2>1, ReplyWritten
  <2>3. \A b \in Asks : Unsettled(b)' => b # a /\ Unsettled(b)
    BY <1>17, <2>1 DEF OperationEnds
  <2>4. QED
    BY <2>2, <2>3
<1>18. ASSUME NEW a \in Asks, Expire(a)
      PROVE  Unreplied'
  <2>1. a \in Asks /\ \E k \in {"answer", "cancelled", "error"} : WriteReply(a, k)
    BY <1>18 DEF Expire, DropRoutes
  <2>2. \A b \in Asks : b # a => reply'[b] = reply[b]
    BY <2>1, ReplyWritten
  <2>3. \A b \in Asks : Unsettled(b)' => b # a /\ Unsettled(b)
    BY <1>18, <2>1 DEF Expire, DropRoutes
  <2>4. QED
    BY <2>2, <2>3
<1>19. ASSUME NEW a \in Asks, ExpiryStops(a)
      PROVE  Unreplied'
  BY <1>19 DEF ExpiryStops
<1>20. ASSUME NEW p \in Ensurers, Ensures(p)
      PROVE  Unreplied'
  BY <1>20 DEF Ensures, EnsureDial, EnsurePublish, EnsureGiveUp, others
<1>21. CASE CloseSteps
  BY <1>21 DEF CloseSteps, CloseBegin, CloseSweep, SweepTables, CloseSwept, CloseLock,
     CloseDetach, CloseNothing, CloseClear, DropAllRoutes, DropRoutes, CloseWait, others
<1>22. CASE Terminated
  BY <1>22 DEF Terminated, vars
<1>23. CASE UNCHANGED vars
  BY <1>23 DEF vars, linkVars, clientVars, readerVars, routeVars, replyVars
<1>24. QED
  BY <1>1, <1>2, <1>3, <1>4, <1>5, <1>6, <1>7, <1>8, <1>9, <1>10, <1>11, <1>12,
     <1>13, <1>14, <1>15, <1>16, <1>17, <1>18, <1>19, <1>20, <1>21, <1>22, <1>23
     DEF Next, ClientStep, Dispatch

(* The places of the requests, and that they are unreplied there.          *)
LEMMA RoutesInvariant == Spec => [](PlaceInv /\ Unreplied)
<1>1. PlaceInv /\ Unreplied /\ [Next]_vars => (PlaceInv /\ Unreplied)'
  BY PlaceStep, UnrepliedStep
<1>2. QED
  BY <1>1, RoutesInitially, PTL DEF Spec

(* reverse.go, sessions.go: tables, targets, readers and replies keep their *)
(* types; a reply in particular is one of the four a write can leave.       *)
THEOREM RoutesTypeCorrect == Spec => []TypeOK
<1>1. PlaceInv => TypeOK
  BY DEF PlaceInv
<1>2. QED
  BY <1>1, RoutesInvariant, PTL

-----------------------------------------------------------------------------
(* The hub implements ReverseContract.                                     *)

contractVars == <<agent, agentGeneration, asked, Outcome>>

Kinds == {"answer", "cancelled", "error"}

(* The outcome is a function of the replies alone.                         *)
LEMMA OutcomeKept == UNCHANGED reply => Outcome' = Outcome
BY DEF Outcome

(* A first reply is the outcome, unless its write failed.                  *)
LEMMA FirstReply ==
    ASSUME NEW a \in Asks, NEW k \in Kinds, reply \in [Asks -> Seq(Kinds \cup {"failed"})],
           reply[a] = <<>>, NEW w \in {k, "failed"}, reply' = [reply EXCEPT ![a] = Append(@, w)]
    PROVE  /\ Outcome[a] = "none"
           /\ Outcome' = Outcome \/ Outcome' = [Outcome EXCEPT ![a] = k]
<1>1. Append(reply[a], w) = <<w>>
  OBVIOUS
<1>2. /\ reply'[a] = <<w>>
      /\ \A b \in Asks : b # a => reply'[b] = reply[b]
  BY <1>1
<1>3. Outcome[a] = "none"
  BY DEF Outcome
<1>4. \A b \in Asks : b # a => Outcome'[b] = Outcome[b]
  BY <1>2 DEF Outcome
<1>5. CASE w = "failed"
  <2>1. Outcome'[a] = "none"
    BY <1>2, <1>5 DEF Outcome
  <2>2. Outcome' = Outcome
    BY <1>3, <1>4, <2>1 DEF Outcome
  <2>3. QED
    BY <1>3, <2>2
<1>6. CASE w # "failed"
  <2>1. w = k /\ k # "failed"
    BY <1>6 DEF Kinds
  <2>2. Len(<<w>>) = 1 /\ <<w>>[1] = w
    OBVIOUS
  <2>3. <<w>> # <<>> /\ <<w>> # <<"failed">>
    BY <1>6, <2>2
  <2>4. Outcome'[a] = k
    BY <1>2, <2>1, <2>2, <2>3 DEF Outcome
  <2>5. Outcome' = [Outcome EXCEPT ![a] = k]
    BY <1>4, <2>4 DEF Outcome
  <2>6. QED
    BY <1>3, <2>5
<1>7. QED
  BY <1>5, <1>6

(* Every reply the hub writes is one the contract allows.                  *)
LEMMA ReplyRefines ==
    ASSUME PlaceInv, Unreplied, NEW a \in Asks, NEW k \in Kinds, WriteReply(a, k),
           Unsettled(a), UNCHANGED <<agent, agentGeneration, asked>>
    PROVE  Contract!Reply(a) \/ UNCHANGED contractVars
<1>1. reply[a] = <<>> /\ reply \in [Asks -> Seq(Kinds \cup {"failed"})]
  <2>1. Kinds \cup {"failed"} = {"answer", "cancelled", "error", "failed"}
    BY DEF Kinds
  <2>2. QED
    BY <2>1 DEF Unreplied, PlaceInv, TypeOK
<1>2. CASE agent # 0 /\ agent = asked[a]
  <2>1. PICK w \in {k, "failed"} : reply' = [reply EXCEPT ![a] = Append(@, w)]
    BY <1>2 DEF WriteReply
  <2>2. /\ Outcome[a] = "none"
        /\ Outcome' = Outcome \/ Outcome' = [Outcome EXCEPT ![a] = k]
    BY <1>1, <2>1, FirstReply
  <2>3. k \in RepliesTo[a]
    BY DEF RepliesTo, Kinds
  <2>4. QED
    BY <1>2, <2>2, <2>3 DEF Contract!Reply, contractVars
<1>3. CASE ~(agent # 0 /\ agent = asked[a])
  <2>1. reply' = reply
    BY <1>1, <1>3 DEF WriteReply
  <2>2. QED
    BY <2>1, OutcomeKept DEF contractVars
<1>4. QED
  BY <1>2, <1>3

(* Every step is a step of the contract or changes nothing it speaks of.   *)
LEMMA ContractStep ==
    PlaceInv /\ Unreplied /\ [Next]_vars => [Contract!Next]_contractVars
<1> SUFFICES ASSUME PlaceInv, Unreplied, [Next]_vars
             PROVE  [Contract!Next]_contractVars
  OBVIOUS
<1>a. UNCHANGED <<agent, agentGeneration, asked, reply>> => UNCHANGED contractVars
  BY OutcomeKept DEF contractVars
<1> USE RouteAssumption, <1>a
    DEF Contract!Next, linkVars, clientVars, readerVars, routeVars, replyVars, Kinds,
        UnavailableReply, UnmatchedReply
<1>1. ASSUME NEW c \in Clients, Connect(c)
      PROVE  [Contract!Next]_contractVars
  BY <1>1 DEF Connect
<1>2. ASSUME NEW c \in Clients, SocketCloses(c)
      PROVE  [Contract!Next]_contractVars
  BY <1>2 DEF SocketCloses
<1>3. ASSUME NEW c \in Clients, ReaderExits(c)
      PROVE  [Contract!Next]_contractVars
  BY <1>3 DEF ReaderExits, Removal
<1>4. ASSUME NEW c \in Clients, NEW s \in Sessions, Subscribe(c, s)
      PROVE  [Contract!Next]_contractVars
  BY <1>4 DEF Subscribe, OrphansOf
<1>5. ASSUME NEW c \in Clients, NEW a \in Asks, Replay(c, a)
      PROVE  [Contract!Next]_contractVars
  BY <1>5 DEF Replay, Removal
<1>6. ASSUME NEW c \in Clients, NEW a \in Asks, Answer(c, a)
      PROVE  [Contract!Next]_contractVars
  <2>1. a \in Asks /\ \E k \in {"answer", "cancelled", "error"} : WriteReply(a, k)
    BY <1>6 DEF Answer, DropRoutes, Asks
  <2>2. Unsettled(a) /\ UNCHANGED <<agent, agentGeneration, asked>>
    BY <1>6 DEF Answer, DropRoutes, Unsettled
  <2>3. QED
    BY <2>1, <2>2, ReplyRefines
<1>7. ASSUME NEW g \in Generations, NEW a \in Asks, NEW s \in Sessions \cup {None}, Receive(g, a, s)
      PROVE  [Contract!Next]_contractVars
  <2>1. Contract!Ask(a)
    BY <1>7, OutcomeKept, LinkAssumption DEF Receive, Generations, Contract!Ask
  <2>2. QED
    BY <2>1
<1>8. ASSUME NEW g \in Generations, RefuseUnscoped(g)
      PROVE  [Contract!Next]_contractVars
  <2>1. inbox[g] \in Asks /\ \E k \in {"answer", "cancelled", "error"} : WriteReply(inbox[g], k)
    BY <1>8 DEF RefuseUnscoped, ReaderDone, Handling, Asks
  <2>2. Unsettled(inbox[g]) /\ UNCHANGED <<agent, agentGeneration, asked>>
    BY <1>8 DEF RefuseUnscoped, ReaderDone, Handling, Unsettled
  <2>3. QED
    BY <2>1, <2>2, ReplyRefines
<1>9. ASSUME NEW g \in Generations, RefuseMalformed(g)
      PROVE  [Contract!Next]_contractVars
  <2>1. inbox[g] \in Asks /\ \E k \in {"answer", "cancelled", "error"} : WriteReply(inbox[g], k)
    BY <1>9 DEF RefuseMalformed, ReaderDone, Handling, Asks
  <2>2. Unsettled(inbox[g]) /\ UNCHANGED <<agent, agentGeneration, asked>>
    BY <1>9 DEF RefuseMalformed, ReaderDone, Handling, Unsettled
  <2>3. QED
    BY <2>1, <2>2, ReplyRefines
<1>10. ASSUME NEW g \in Generations, RefuseUnmatched(g)
      PROVE  [Contract!Next]_contractVars
  <2>1. inbox[g] \in Asks /\ \E k \in {"answer", "cancelled", "error"} : WriteReply(inbox[g], k)
    BY <1>10 DEF RefuseUnmatched, ReaderDone, Handling, Asks
  <2>2. Unsettled(inbox[g]) /\ UNCHANGED <<agent, agentGeneration, asked>>
    BY <1>10 DEF RefuseUnmatched, ReaderDone, Handling, Unsettled
  <2>3. QED
    BY <2>1, <2>2, ReplyRefines
<1>11. ASSUME NEW g \in Generations, Forward(g)
      PROVE  [Contract!Next]_contractVars
  BY <1>11 DEF Forward, Handling, Eligible
<1>12. ASSUME NEW g \in Generations, ForwardDone(g)
      PROVE  [Contract!Next]_contractVars
  BY <1>12 DEF ForwardDone, ReaderDone
<1>13. ASSUME NEW g \in Generations, OperationStarts(g)
      PROVE  [Contract!Next]_contractVars
  BY <1>13 DEF OperationStarts, ReaderDone, Handling
<1>14. ASSUME NEW g \in Generations, NEW c \in Clients, ForwardSend(g, c)
      PROVE  [Contract!Next]_contractVars
  BY <1>14 DEF ForwardSend, Removal
<1>15. ASSUME NEW g \in Generations, Loses(g)
      PROVE  [Contract!Next]_contractVars
  <2>1. Contract!Down
    BY <1>15, OutcomeKept DEF Loses, Detach, Contract!Down
  <2>2. QED
    BY <2>1
<1>16. ASSUME NEW g \in Generations, Clears(g)
      PROVE  [Contract!Next]_contractVars
  BY <1>16 DEF Clears, Clear, DropAllRoutes, DropRoutes
<1>17. ASSUME NEW a \in Asks, OperationEnds(a)
      PROVE  [Contract!Next]_contractVars
  <2>1. a \in Asks /\ \E k \in {"answer", "cancelled", "error"} : WriteReply(a, k)
    BY <1>17 DEF OperationEnds, Asks
  <2>2. Unsettled(a) /\ UNCHANGED <<agent, agentGeneration, asked>>
    BY <1>17 DEF OperationEnds, Unsettled
  <2>3. QED
    BY <2>1, <2>2, ReplyRefines
<1>18. ASSUME NEW a \in Asks, Expire(a)
      PROVE  [Contract!Next]_contractVars
  <2>1. a \in Asks /\ \E k \in {"answer", "cancelled", "error"} : WriteReply(a, k)
    BY <1>18 DEF Expire, DropRoutes, Asks
  <2>2. Unsettled(a) /\ UNCHANGED <<agent, agentGeneration, asked>>
    BY <1>18 DEF Expire, DropRoutes, Unsettled
  <2>3. QED
    BY <2>1, <2>2, ReplyRefines
<1>19. ASSUME NEW a \in Asks, ExpiryStops(a)
      PROVE  [Contract!Next]_contractVars
  BY <1>19 DEF ExpiryStops
<1>20. ASSUME NEW p \in Ensurers, Ensures(p)
      PROVE  [Contract!Next]_contractVars
  <2>1. CASE EnsurePublish(p)
    <3>1. agent = 0
      BY <2>1 DEF EnsurePublish, PlaceInv, LinkInv, DialerFindsNone
    <3>2. Contract!Up
      BY <1>20, <2>1, <3>1, OutcomeKept DEF Ensures, EnsurePublish, others, Contract!Up
    <3>3. QED
      BY <3>2
  <2>2. CASE EnsureDial(p) \/ EnsureGiveUp(p)
    BY <1>20, <2>2 DEF Ensures, EnsureDial, EnsureGiveUp, others
  <2>3. QED
    BY <1>20, <2>1, <2>2 DEF Ensures
<1>21. CASE CloseSteps
  <2>1. CASE CloseDetach
    <3>1. Contract!Down
      BY <1>21, <2>1, OutcomeKept DEF CloseSteps, CloseDetach, CloseBegin, CloseSweep,
         CloseSwept, CloseLock, CloseNothing, CloseClear, CloseWait, SweepTables,
         DropAllRoutes, others, Contract!Down
    <3>2. QED
      BY <3>1
  <2>2. CASE ~CloseDetach
    BY <1>21, <2>2 DEF CloseSteps, CloseBegin, CloseSweep, CloseSwept, CloseLock,
       CloseNothing, CloseClear, CloseWait, SweepTables, DropAllRoutes, others
  <2>3. QED
    BY <2>1, <2>2
<1>22. CASE Terminated
  BY <1>22 DEF Terminated, vars
<1>23. CASE UNCHANGED vars
  BY <1>23 DEF vars, linkVars, clientVars, readerVars, routeVars, replyVars
<1>24. QED
  BY <1>1, <1>2, <1>3, <1>4, <1>5, <1>6, <1>7, <1>8, <1>9, <1>10, <1>11, <1>12,
     <1>13, <1>14, <1>15, <1>16, <1>17, <1>18, <1>19, <1>20, <1>21, <1>22, <1>23
     DEF Next, ClientStep, Dispatch

(* agenttransport.go:145-170, reverse.go:19-30: an agent request is given   *)
(* at most one reply, over the connection that asked and while it is up,   *)
(* for any number of clients that answer, deadlines, operations, teardowns *)
(* and connections.                                                        *)
THEOREM RoutesImplementContract == Spec => ImplementsContract
<1>1. Init => Contract!Init
  BY DEF Init, LinkInit, Contract!Init, Outcome
<1>2. PlaceInv /\ Unreplied /\ [Next]_vars => [Contract!Next]_(Contract!contractVars)
  BY ContractStep DEF contractVars, Contract!contractVars
<1>3. QED
  BY <1>1, <1>2, RoutesInvariant, PTL DEF Spec, ImplementsContract, Contract!Spec

-----------------------------------------------------------------------------
(* The clients a request is routed to.                                     *)

\* A target has been in the session of its request, as has every subscriber.
TargetsVisited ==
    /\ \A c \in Clients : session[c] # None => session[c] \in visited[c]
    /\ \A a \in Asks, c \in Clients :
          c \in targets[a] /\ about[a] # None => about[a] \in visited[c]

\* A client that is gone is closed, and a target of nothing.
GoneIsClosed ==
    \A c \in gone : socket[c] = "closed" /\ \A a \in Asks : c \notin targets[a]

RouteInv ==
    /\ TargetsVisited /\ GoneIsClosed
    /\ EligibleAnswerOnly /\ NoGhost /\ RoutesAreTimed /\ CloseWaitsForOperations

(* Every step keeps the clients and the routes in agreement.               *)
LEMMA RouteStep == PlaceInv /\ RouteInv /\ [Next]_vars => RouteInv'
<1> SUFFICES ASSUME PlaceInv, RouteInv, [Next]_vars
             PROVE  RouteInv'
  OBVIOUS
<1>a. 0 \notin Generations /\ \A g \in Generations : g \in Nat
  BY LinkAssumption DEF Generations
<1> USE RouteAssumption, <1>a
    DEF PlaceInv, LinkInv, CloserHolds, TypeOK, Reading, OnePlace, RouteInv,
       TargetsVisited, GoneIsClosed, EligibleAnswerOnly, NoGhost, RoutesAreTimed,
       BeingForwarded, CloseWaitsForOperations, linkVars, clientVars, readerVars,
       routeVars, replyVars
<1>1. ASSUME NEW c \in Clients, Connect(c)
      PROVE  RouteInv'
  BY <1>1 DEF Connect
<1>2. ASSUME NEW c \in Clients, SocketCloses(c)
      PROVE  RouteInv'
  BY <1>2 DEF SocketCloses
<1>3. ASSUME NEW c \in Clients, ReaderExits(c)
      PROVE  RouteInv'
  BY <1>3 DEF ReaderExits, Removal
<1>4. ASSUME NEW c \in Clients, NEW s \in Sessions, Subscribe(c, s)
      PROVE  RouteInv'
  BY <1>4 DEF Subscribe, OrphansOf
<1>5. ASSUME NEW c \in Clients, NEW a \in Asks, Replay(c, a)
      PROVE  RouteInv'
  <2>1. /\ \A b \in Asks : targets'[b] \subseteq targets[b]
        /\ \A d \in Clients : session'[d] \in {session[d], None}
    BY <1>5 DEF Replay, Removal
  <2>2. /\ UNCHANGED <<about, visited, gone>>
        /\ \A d \in Clients : socket[d] = "closed" => socket'[d] = "closed"
    BY <1>5 DEF Replay, Removal
  <2>3. TargetsVisited' /\ GoneIsClosed'
    BY <2>1, <2>2
  <2>4. EligibleAnswerOnly'
    BY <1>5, <2>1 DEF Replay, Removal
  <2>5. NoGhost'
    BY <1>5, <2>1 DEF Replay, Removal
  <2>6. RoutesAreTimed'
    BY <1>5 DEF Replay, Removal
  <2>7. CloseWaitsForOperations'
    BY <1>5 DEF Replay, Removal
  <2>8. QED
    BY <2>3, <2>4, <2>5, <2>6, <2>7
<1>6. ASSUME NEW c \in Clients, NEW a \in Asks, Answer(c, a)
      PROVE  RouteInv'
  BY <1>6 DEF Answer, DropRoutes
<1>7. ASSUME NEW g \in Generations, NEW a \in Asks, NEW s \in Sessions \cup {None}, Receive(g, a, s)
      PROVE  RouteInv'
  BY <1>7 DEF Receive
<1>8. ASSUME NEW g \in Generations, RefuseUnscoped(g)
      PROVE  RouteInv'
  BY <1>8 DEF RefuseUnscoped, ReaderDone, Handling
<1>9. ASSUME NEW g \in Generations, RefuseMalformed(g)
      PROVE  RouteInv'
  BY <1>9 DEF RefuseMalformed, ReaderDone, Handling
<1>10. ASSUME NEW g \in Generations, RefuseUnmatched(g)
      PROVE  RouteInv'
  BY <1>10 DEF RefuseUnmatched, ReaderDone, Handling
<1>11. ASSUME NEW g \in Generations, Forward(g)
      PROVE  RouteInv'
  BY <1>11 DEF Forward, Handling, Eligible
<1>12. ASSUME NEW g \in Generations, ForwardDone(g)
      PROVE  RouteInv'
  BY <1>12 DEF ForwardDone, ReaderDone
<1>13. ASSUME NEW g \in Generations, OperationStarts(g)
      PROVE  RouteInv'
  BY <1>13 DEF OperationStarts, ReaderDone, Handling
<1>14. ASSUME NEW g \in Generations, NEW c \in Clients, ForwardSend(g, c)
      PROVE  RouteInv'
  <2>1. /\ \A b \in Asks : targets'[b] \subseteq targets[b]
        /\ \A d \in Clients : session'[d] \in {session[d], None}
    BY <1>14 DEF ForwardSend, Removal
  <2>2. /\ UNCHANGED <<about, visited, gone>>
        /\ \A d \in Clients : socket[d] = "closed" => socket'[d] = "closed"
    BY <1>14 DEF ForwardSend, Removal
  <2>3. TargetsVisited' /\ GoneIsClosed'
    BY <2>1, <2>2
  <2>4. EligibleAnswerOnly'
    BY <1>14, <2>1 DEF ForwardSend, Removal
  <2>5. NoGhost'
    BY <1>14, <2>1 DEF ForwardSend, Removal
  <2>6. RoutesAreTimed'
    BY <1>14 DEF ForwardSend, Removal
  <2>7. CloseWaitsForOperations'
    BY <1>14 DEF ForwardSend, Removal
  <2>8. QED
    BY <2>3, <2>4, <2>5, <2>6, <2>7
<1>15. ASSUME NEW g \in Generations, Loses(g)
      PROVE  RouteInv'
  BY <1>15 DEF Loses, Detach
<1>16. ASSUME NEW g \in Generations, Clears(g)
      PROVE  RouteInv'
  BY <1>16 DEF Clears, Clear, DropAllRoutes, DropRoutes
<1>17. ASSUME NEW a \in Asks, OperationEnds(a)
      PROVE  RouteInv'
  BY <1>17 DEF OperationEnds
<1>18. ASSUME NEW a \in Asks, Expire(a)
      PROVE  RouteInv'
  BY <1>18 DEF Expire, DropRoutes
<1>19. ASSUME NEW a \in Asks, ExpiryStops(a)
      PROVE  RouteInv'
  BY <1>19 DEF ExpiryStops
<1>20. ASSUME NEW p \in Ensurers, Ensures(p)
      PROVE  RouteInv'
  BY <1>20 DEF Ensures, EnsureDial, EnsurePublish, EnsureGiveUp, others
<1>21. CASE CloseSteps
  <2>1. /\ \A b \in Asks : targets'[b] \subseteq targets[b]
        /\ \A d \in Clients : session'[d] \in {session[d], None}
    <3>1. DropRoutes(routes) \/ UNCHANGED targets
      BY <1>21 DEF CloseSteps, SweepTables, DropAllRoutes, others
    <3>2. session' = [d \in Clients |-> None] \/ UNCHANGED session
      BY <1>21 DEF CloseSteps, SweepTables, DropAllRoutes, others
    <3>3. QED
      BY <3>1, <3>2 DEF DropRoutes
  <2>2. /\ UNCHANGED <<about, visited, gone>>
        /\ \A d \in Clients : socket[d] = "closed" => socket'[d] = "closed"
    BY <1>21 DEF CloseSteps, CloseBegin, CloseSweep, SweepTables, CloseSwept, CloseLock,
       CloseDetach, CloseNothing, CloseClear, DropAllRoutes, DropRoutes, CloseWait,
       others
  <2>3. TargetsVisited' /\ GoneIsClosed'
    BY <2>1, <2>2
  <2>4. EligibleAnswerOnly'
    BY <1>21, <2>1 DEF CloseSteps, CloseBegin, CloseSweep, SweepTables, CloseSwept,
       CloseLock, CloseDetach, CloseNothing, CloseClear, DropAllRoutes, DropRoutes,
       CloseWait, others
  <2>5. NoGhost'
    BY <1>21, <2>1 DEF CloseSteps, CloseBegin, CloseSweep, SweepTables, CloseSwept,
       CloseLock, CloseDetach, CloseNothing, CloseClear, DropAllRoutes, DropRoutes,
       CloseWait, others
  <2>6. RoutesAreTimed'
    BY <1>21 DEF CloseSteps, CloseBegin, CloseSweep, SweepTables, CloseSwept, CloseLock,
       CloseDetach, CloseNothing, CloseClear, DropAllRoutes, DropRoutes, CloseWait,
       others
  <2>7. CloseWaitsForOperations'
    BY <1>21 DEF CloseSteps, CloseBegin, CloseSweep, SweepTables, CloseSwept, CloseLock,
       CloseDetach, CloseNothing, CloseClear, DropAllRoutes, DropRoutes, CloseWait,
       others
  <2>8. QED
    BY <2>3, <2>4, <2>5, <2>6, <2>7
<1>22. CASE Terminated
  BY <1>22 DEF Terminated, vars
<1>23. CASE UNCHANGED vars
  BY <1>23 DEF vars, linkVars, clientVars, readerVars, routeVars, replyVars
<1>24. QED
  BY <1>1, <1>2, <1>3, <1>4, <1>5, <1>6, <1>7, <1>8, <1>9, <1>10, <1>11, <1>12,
     <1>13, <1>14, <1>15, <1>16, <1>17, <1>18, <1>19, <1>20, <1>21, <1>22, <1>23
     DEF Next, ClientStep, Dispatch

LEMMA RouteInvariant == Spec => []RouteInv
<1>1. Init => RouteInv
  BY RouteAssumption
     DEF Init, LinkInit, RouteInv, TargetsVisited, GoneIsClosed, EligibleAnswerOnly,
        NoGhost, RoutesAreTimed, CloseWaitsForOperations
<1>2. QED
  BY <1>1, RouteStep, RoutesInvariant, PTL DEF Spec

(* docs/PROTOCOL.md:207-209, sessions.go:180-182: the answer taken comes    *)
(* from a client that has been in the session the request is about.        *)
THEOREM RoutesEligibleAnswerOnly == Spec => []EligibleAnswerOnly
<1>1. RouteInv => EligibleAnswerOnly
  BY DEF RouteInv
<1>2. QED
  BY <1>1, RouteInvariant, PTL

(* clienttransport.go:124-148: a client that is gone is in no table.        *)
THEOREM RoutesNoGhost == Spec => []NoGhost
<1>1. RouteInv => NoGhost
  BY DEF RouteInv
<1>2. QED
  BY <1>1, RouteInvariant, PTL

(* reverse.go:213-224: a route has a deadline, is being sent, or reached no *)
(* client.                                                                 *)
THEOREM RoutesTimed == Spec => []RoutesAreTimed
<1>1. RouteInv => RoutesAreTimed
  BY DEF RouteInv
<1>2. QED
  BY <1>1, RouteInvariant, PTL

(* reverse.go:59-66, hub.go:147: no operation runs once Close has returned. *)
THEOREM RoutesCloseWaits == Spec => []CloseWaitsForOperations
<1>1. RouteInv => CloseWaitsForOperations
  BY DEF RouteInv
<1>2. QED
  BY <1>1, RouteInvariant, PTL
-----------------------------------------------------------------------------
(* No request of a connected agent is forgotten.                           *)

\* A request came over a connection that has been published.
AskedPast == \A a \in Asks : asked[a] <= agentGeneration

\* What keeps a request of the published connection from being forgotten.
Placed(a) ==
    \/ \E g \in Generations : inbox[g] = a /\ reader[g] = "checked"
    \/ a \in routes \cup working \/ reply[a] # <<>>

(* The link publishes only new generations, and stays closed once closed.  *)
LEMMA LinkMoves ==
    ASSUME LinkInv, [LinkNext]_linkVars
    PROVE  /\ agent' \in {agent, 0, agentGeneration + 1}
           /\ agentGeneration' \in {agentGeneration, agentGeneration + 1}
           /\ agentGeneration \in Nat
           /\ closed => closed'
BY DEF LinkInv, LinkTypeOK, LinkNext, linkVars, EnsureDial, EnsurePublish, EnsureGiveUp, Detach,
       Clear, CloseBegin, CloseSweep, CloseLock, CloseDetach, CloseNothing, CloseClear, CloseWait

(* A request is given its generation once, when it is read.                *)
LEMMA AskedSteps ==
    ASSUME Next
    PROVE  \/ asked' = asked
           \/ \E g \in Generations, a \in Asks, s \in Sessions \cup {None} : Receive(g, a, s)
<1> USE DEF others, clientVars, readerVars, routeVars, replyVars, SweepTables, DropAllRoutes
<1>1. ASSUME NEW c \in Clients, ClientStep(c)
      PROVE  asked' = asked
  BY <1>1 DEF ClientStep, Connect, SocketCloses, ReaderExits, Subscribe, Replay, Answer
<1>2. ASSUME NEW g \in Generations, Dispatch(g) \/ Loses(g) \/ Clears(g)
      PROVE  asked' = asked
  BY <1>2 DEF Dispatch, RefuseUnscoped, RefuseMalformed, RefuseUnmatched, Forward, ForwardDone,
              OperationStarts, ForwardSend, Loses, Clears
<1>3. ASSUME NEW a \in Asks, OperationEnds(a) \/ Expire(a) \/ ExpiryStops(a)
      PROVE  asked' = asked
  BY <1>3 DEF OperationEnds, Expire, ExpiryStops
<1>4. ASSUME (\E p \in Ensurers : Ensures(p)) \/ CloseSteps \/ Terminated
      PROVE  asked' = asked
  BY <1>4 DEF Ensures, CloseSteps, Terminated, vars
<1>5. QED
  BY <1>1, <1>2, <1>3, <1>4 DEF Next

(* A request never comes from the future.                                  *)
LEMMA AskedStep == PlaceInv /\ AskedPast /\ [Next]_vars => AskedPast'
<1> SUFFICES ASSUME PlaceInv, AskedPast, [Next]_vars
             PROVE  AskedPast'
  OBVIOUS
<1>1. /\ agentGeneration' \in {agentGeneration, agentGeneration + 1}
      /\ agentGeneration \in Nat
  BY RoutesLinkStep, LinkMoves DEF PlaceInv
<1>2. CASE asked' = asked
  BY <1>1, <1>2 DEF AskedPast, PlaceInv, TypeOK
<1>3. ASSUME NEW g \in Generations, NEW a \in Asks, NEW s \in Sessions \cup {None},
             Receive(g, a, s)
      PROVE  AskedPast'
  <2>1. /\ agent = g /\ g # 0 /\ asked' = [asked EXCEPT ![a] = g]
        /\ agentGeneration' = agentGeneration
    BY <1>3 DEF Receive, Generations, linkVars
  <2>2. agent = agentGeneration
    BY <2>1 DEF PlaceInv, LinkInv, CurrentIsLatest
  <2>3. QED
    BY <1>1, <2>1, <2>2 DEF AskedPast, PlaceInv, TypeOK
<1>4. CASE UNCHANGED vars
  BY <1>2, <1>4 DEF vars, readerVars
<1>5. QED
  BY <1>2, <1>3, <1>4, AskedSteps

(* A reply that is dropped is one whose connection is no longer published. *)
LEMMA ReplyPlaces ==
    ASSUME TypeOK, NEW a \in Asks, NEW k \in {"answer", "cancelled", "error"}, WriteReply(a, k)
    PROVE  /\ asked[a] = 0 \/ asked[a] # agent \/ reply'[a] # <<>>
           /\ \A b \in Asks : reply[b] # <<>> => reply'[b] # <<>>
<1>1. PICK w \in {k, "failed"} :
          reply' = [reply EXCEPT ![a] = IF agent # 0 /\ agent = asked[a]
                                        THEN Append(@, w) ELSE @]
  BY DEF WriteReply
<1>2. reply[a] \in Seq({"answer", "cancelled", "error", "failed"})
  BY DEF TypeOK
<1>3. Len(Append(reply[a], w)) = Len(reply[a]) + 1 /\ Len(reply[a]) \in Nat
  BY <1>2
<1>4. Len(Append(reply[a], w)) # Len(<<>>)
  BY <1>3
<1>5. Append(reply[a], w) # <<>>
  BY <1>4, Zenon
<1>6. QED
  BY <1>1, <1>5 DEF TypeOK

(* While the link stands still a request is accounted for as long as it    *)
(* has a place.                                                            *)
LEMMA PlacedKept ==
    ASSUME NEW a \in Asks, Accounted(a), UNCHANGED linkVars, asked'[a] = asked[a],
           Placed(a) => Placed(a)' \/ asked[a] = 0 \/ asked[a] # agent
    PROVE  Accounted(a)'
BY DEF Accounted, Placed, linkVars

(* A reader that refuses its request, or hands it on, leaves it placed, and *)
(* every other request where it was.                                        *)
LEMMA DispatchAccounts ==
    ASSUME PlaceInv, NEW g \in Generations, Dispatch(g), NEW a \in Asks, Accounted(a)
    PROVE  Accounted(a)'
<1> USE RouteAssumption DEF PlaceInv, TypeOK, Reading, Placed, readerVars, routeVars, replyVars,
        ReaderDone, Handling
<1>1. UNCHANGED linkVars /\ asked' = asked
  BY DEF Dispatch, RefuseUnscoped, RefuseMalformed, RefuseUnmatched, Forward, ForwardDone,
         OperationStarts, ForwardSend
<1>2. CASE RefuseUnscoped(g) \/ RefuseMalformed(g) \/ RefuseUnmatched(g)
  <2>1. /\ reader[g] = "checked" /\ inbox[g] \in Asks
        /\ reader' = [reader EXCEPT ![g] = "idle"] /\ inbox' = [inbox EXCEPT ![g] = None]
        /\ UNCHANGED <<routes, working>>
    BY <1>2 DEF RefuseUnscoped, RefuseMalformed, RefuseUnmatched
  <2>2. \E k \in {"answer", "cancelled", "error"} : WriteReply(inbox[g], k)
    BY <1>2 DEF RefuseUnscoped, RefuseMalformed, RefuseUnmatched, UnmatchedReply,
                UnavailableReply
  <2>3. /\ \/ asked[inbox[g]] = 0 \/ asked[inbox[g]] # agent \/ reply'[inbox[g]] # <<>>
        /\ \A b \in Asks : reply[b] # <<>> => reply'[b] # <<>>
    BY <2>1, <2>2, ReplyPlaces
  <2>4. Placed(a) => Placed(a)' \/ asked[a] = 0 \/ asked[a] # agent
    BY <2>1, <2>3
  <2>5. QED
    BY <1>1, <2>4, PlacedKept
<1>3. CASE Forward(g)
  <2>1. Placed(a) => Placed(a)'
    BY <1>3 DEF Forward
  <2>2. QED
    BY <1>1, <2>1, PlacedKept
<1>4. CASE ForwardDone(g)
  <2>1. Placed(a) => Placed(a)'
    BY <1>4 DEF ForwardDone
  <2>2. QED
    BY <1>1, <2>1, PlacedKept
<1>5. CASE OperationStarts(g)
  <2>1. closed \/ (Placed(a) => Placed(a)')
    BY <1>5 DEF OperationStarts
  <2>2. closed => Accounted(a)'
    BY <1>1 DEF Accounted, linkVars
  <2>3. QED
    BY <1>1, <2>1, <2>2, PlacedKept
<1>6. ASSUME NEW c \in Clients, ForwardSend(g, c)
      PROVE  Accounted(a)'
  <2>1. Placed(a) => Placed(a)'
    BY <1>6 DEF ForwardSend
  <2>2. QED
    BY <1>1, <2>1, PlacedKept
<1>7. QED
  BY <1>2, <1>3, <1>4, <1>5, <1>6 DEF Dispatch

(* Whoever takes a request out of a table replies to it.                   *)
LEMMA EndingsAccount ==
    ASSUME PlaceInv, NEW b \in Asks,
           \/ \E c \in Clients : Answer(c, b)
           \/ OperationEnds(b) \/ Expire(b),
           NEW a \in Asks, Accounted(a)
    PROVE  Accounted(a)'
<1> USE DEF PlaceInv, readerVars, routeVars, replyVars, DropRoutes
<1>1. /\ UNCHANGED <<linkVars, asked, reader, inbox>>
      /\ routes \ {b} \subseteq routes' /\ working \ {b} \subseteq working'
  BY DEF Answer, OperationEnds, Expire
<1>2. \E k \in {"answer", "cancelled", "error"} : WriteReply(b, k)
  BY DEF Answer, OperationEnds, Expire, UnavailableReply
<1>3. /\ asked[b] = 0 \/ asked[b] # agent \/ reply'[b] # <<>>
      /\ \A d \in Asks : reply[d] # <<>> => reply'[d] # <<>>
  BY <1>2, ReplyPlaces
<1>4. Placed(a) => Placed(a)' \/ asked[a] = 0 \/ asked[a] # agent
  BY <1>1, <1>3 DEF Placed
<1>5. QED
  BY <1>1, <1>4, PlacedKept

(* A step of the link alone detaches a connection or publishes a new one,  *)
(* of which no request has come yet.                                       *)
LEMMA LinkAccounts ==
    ASSUME PlaceInv, AskedPast, [Next]_vars,
           UNCHANGED <<asked, inbox, reader, routes, working, reply>>,
           NEW a \in Asks, Accounted(a)
    PROVE  Accounted(a)'
<1>1. /\ agent' \in {agent, 0, agentGeneration + 1} /\ agentGeneration \in Nat
      /\ closed => closed'
  BY RoutesLinkStep, LinkMoves DEF PlaceInv
<1>2. asked[a] \in Nat /\ asked[a] <= agentGeneration /\ asked'[a] = asked[a]
  BY DEF PlaceInv, TypeOK, AskedPast
<1>3. agent' = agent \/ asked'[a] = 0 \/ asked'[a] # agent'
  BY <1>1, <1>2
<1>4. QED
  BY <1>1, <1>3 DEF Accounted

(* Only the end of an older connection's teardown loses a request.         *)
LEMMA AccountStep ==
    ASSUME PlaceInv, PlaceInv', AskedPast, [Next]_vars, NEW a \in Asks, Accounted(a)
    PROVE  Accounted(a)' \/ \E g \in clearing \ clearing' : g < asked[a]
<1> USE DEF others, clientVars, readerVars, routeVars, replyVars
<1>1. ASSUME UNCHANGED <<asked, inbox, reader, routes, working, reply>>
      PROVE  Accounted(a)'
  BY <1>1, LinkAccounts
<1>2. ASSUME NEW c \in Clients, ClientStep(c)
      PROVE  Accounted(a)'
  BY <1>1, <1>2, EndingsAccount
     DEF ClientStep, Connect, SocketCloses, ReaderExits, Subscribe, Replay
<1>3. ASSUME NEW g \in Generations, NEW b \in Asks, NEW s \in Sessions \cup {None},
             Receive(g, b, s)
      PROVE  Accounted(a)'
  <2> USE DEF Receive, PlaceInv, TypeOK, Reading
  <2>1. UNCHANGED <<linkVars, routes, working, reply>>
    BY <1>3
  <2>2. CASE a = b
    BY <1>3, <2>2 DEF Accounted
  <2>3. CASE a # b
    <3>1. asked'[a] = asked[a] /\ (Placed(a) => Placed(a)')
      BY <1>3, <2>3 DEF Placed
    <3>2. QED
      BY <2>1, <3>1, PlacedKept
  <2>4. QED
    BY <2>2, <2>3
<1>4. ASSUME NEW g \in Generations, Clears(g)
      PROVE  Accounted(a)' \/ \E h \in clearing \ clearing' : h < asked[a]
  <2>1. /\ g \in clearing \ clearing' /\ agent' = agent /\ asked' = asked /\ reply' = reply
        /\ working' = working /\ inbox' = inbox /\ reader' = reader /\ closed' = closed
    BY <1>4 DEF Clears, Clear, DropAllRoutes
  <2>2. CASE asked[a] # 0 /\ asked[a] = agent
    <3>1. asked[a] = agentGeneration /\ g <= agentGeneration /\ g # asked[a]
      BY <2>1, <2>2 DEF PlaceInv, LinkInv, CurrentIsLatest
    <3>2. g \in Nat /\ agentGeneration \in Nat
      BY LinkAssumption DEF PlaceInv, LinkInv, LinkTypeOK, Generations
    <3>3. g < asked[a]
      BY <3>1, <3>2
    <3>4. QED
      BY <2>1, <3>3
  <2>3. CASE asked[a] = 0 \/ asked[a] # agent
    BY <2>1, <2>3 DEF Accounted
  <2>4. QED
    BY <2>2, <2>3
<1>5. CASE CloseSteps
  <2>1. CASE (CloseSweep /\ SweepTables) \/ (CloseClear /\ DropAllRoutes)
    <3>1. closed /\ closed' = closed
      BY <2>1 DEF CloseSweep, CloseClear, PlaceInv, LinkInv, CloserHolds
    <3>2. QED
      BY <3>1 DEF Accounted
  <2>2. CASE UNCHANGED others
    BY <1>1, <2>2
  <2>3. QED
    BY <1>5, <2>1, <2>2 DEF CloseSteps
<1>6. ASSUME NEW b \in Asks, OperationEnds(b) \/ Expire(b) \/ ExpiryStops(b)
      PROVE  Accounted(a)'
  BY <1>1, <1>6, EndingsAccount DEF ExpiryStops
<1>7. ASSUME NEW g \in Generations, Loses(g)
      PROVE  Accounted(a)'
  BY <1>1, <1>7 DEF Loses
<1>8. CASE (\E p \in Ensurers : Ensures(p)) \/ Terminated \/ UNCHANGED vars
  BY <1>1, <1>8 DEF Ensures, Terminated, vars
<1>9. QED
  BY <1>2, <1>3, <1>4, <1>5, <1>6, <1>7, <1>8, DispatchAccounts DEF Next

(* reverse.go:82-151, 153-232, agenttransport.go:145-170: for any number of *)
(* connections, a request of the connected agent is being handled, in the   *)
(* table or replied to, until an older connection's teardown takes the      *)
(* table from it.                                                           *)
THEOREM RoutesAsksAccounted == Spec => AsksAccounted
<1>1. Init => AskedPast
  BY DEF Init, LinkInit, AskedPast
<1>2. PlaceInv /\ PlaceInv' /\ AskedPast /\ [Next]_vars =>
        [\A a \in Asks : Accounted(a) =>
           Accounted(a)' \/ \E g \in clearing \ clearing' : g < asked[a]]_vars
  BY AccountStep
<1>3. PlaceInv /\ AskedPast /\ [Next]_vars => AskedPast'
  BY AskedStep
<1>4. QED
  BY <1>1, <1>2, <1>3, RoutesInvariant, PTL DEF Spec, AsksAccounted
=============================================================================
