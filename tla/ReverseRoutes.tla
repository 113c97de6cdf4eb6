---------------------------- MODULE ReverseRoutes ----------------------------
(***************************************************************************)
(* Requests the agent sends the other way (reverse.go, sessions.go, the    *)
(* response branch of clientrpc.go).  Permissions and interactions go to   *)
(* the clients subscribed to their session, methods the adapter does not   *)
(* know to that session or to everyone, and file and terminal operations   *)
(* are carried out by the daemon.                                          *)
(*                                                                         *)
(* forwardReverseRequest gives every request a fresh hub identifier, so a  *)
(* request stands for its route key.  It runs in the agent reader's        *)
(* goroutine: the reader takes no other message until it has sent the      *)
(* request to every target.                                                *)
(***************************************************************************)
EXTENDS AgentLink, FiniteSets, Sequences

CONSTANTS
    Clients,        \* client connections
    Sessions,       \* sessions of the configured provider
    Permissions,    \* session/request_permission
    Interactions,   \* questions and plan approvals
    Extensions,     \* methods ClassifyReverseRequest does not know
    Operations,     \* fs/* and terminal/*
    None

Asks == Permissions \cup Interactions \cup Extensions \cup Operations
Generations == 1..MaxGeneration

ASSUME RouteAssumption ==
    /\ Permissions \cap (Interactions \cup Extensions \cup Operations) = {}
    /\ Interactions \cap (Extensions \cup Operations) = {}
    /\ Extensions \cap Operations = {}
    /\ None \notin Clients \cup Sessions \cup Asks

VARIABLES
    clients,      \* Hub.clients
    socket,       \* per client: not yet connected, open, closed flag set
    gone,         \* clients whose goroutine has run its removeClient
    session,      \* the session a client is subscribed to (Hub.sessionClients)
    visited,      \* history: sessions a client has been subscribed to
    asked,        \* generation a request came from, 0 before it came
    about,        \* the session it names
    reader,       \* per generation: idle, checked, forwarding
    inbox,        \* per generation: the message its reader is handling
    unsent,       \* per generation: targets its reader has not written to yet
    delivered,    \* per generation: one of those writes succeeded
    routes,       \* keys of Hub.reverseRequests
    targets,      \* route.clients
    replays,      \* goroutines that send a route's payload again: <<c, a>>
    expiring,     \* goroutines waiting in expireReverseRequest
    undelivered,  \* history: forwarded, and no write succeeded
    working,      \* operations running in handleReverse
    answeredBy,   \* history: the client whose answer was taken
    reply         \* writes of a reply to the agent, in order, failed or not

clientVars == <<clients, socket, gone, session, visited>>
readerVars == <<asked, about, reader, inbox, unsent, delivered>>
routeVars == <<routes, targets, replays, expiring, undelivered>>
replyVars == <<working, answeredBy, reply>>
vars == <<linkVars, clientVars, readerVars, routeVars, replyVars>>

TypeOK ==
    /\ LinkTypeOK
    /\ clients \in SUBSET Clients
    /\ socket \in [Clients -> {"new", "open", "closed"}]
    /\ gone \in SUBSET Clients
    /\ session \in [Clients -> Sessions \cup {None}]
    /\ visited \in [Clients -> SUBSET Sessions]
    /\ asked \in [Asks -> Nat]
    /\ about \in [Asks -> Sessions \cup {None}]
    /\ reader \in [Generations -> {"idle", "checked", "forwarding"}]
    /\ inbox \in [Generations -> Asks \cup {None}]
    /\ unsent \in [Generations -> SUBSET Clients]
    /\ delivered \in [Generations -> BOOLEAN]
    /\ routes \in SUBSET Asks
    /\ targets \in [Asks -> SUBSET Clients]
    /\ replays \in SUBSET (Clients \X Asks)
    /\ expiring \in SUBSET Asks
    /\ undelivered \in SUBSET Asks
    /\ working \in SUBSET Operations
    /\ answeredBy \in [Asks -> Clients \cup {None}]
    /\ reply \in [Asks -> Seq({"answer", "cancelled", "error", "failed"})]

Init ==
    /\ LinkInit
    /\ clients = {}
    /\ socket = [c \in Clients |-> "new"]
    /\ gone = {}
    /\ session = [c \in Clients |-> None]
    /\ visited = [c \in Clients |-> {}]
    /\ asked = [a \in Asks |-> 0]
    /\ about = [a \in Asks |-> None]
    /\ reader = [g \in Generations |-> "idle"]
    /\ inbox = [g \in Generations |-> None]
    /\ unsent = [g \in Generations |-> {}]
    /\ delivered = [g \in Generations |-> FALSE]
    /\ routes = {}
    /\ targets = [a \in Asks |-> {}]
    /\ replays = {}
    /\ expiring = {}
    /\ undelivered = {}
    /\ working = {}
    /\ answeredBy = [a \in Asks |-> None]
    /\ reply = [a \in Asks |-> <<>>]

-----------------------------------------------------------------------------
(* replyAgentForGeneration: pointer and generation are compared under one  *)
(* lock, and a reply whose connection is no longer the published one is     *)
(* dropped.  The write that follows may fail, which is only logged; it is   *)
(* counted at the comparison, since it can reach no other connection.       *)

\* Mutant: the reply goes to whatever connection is published.
WriteToCurrent(a, k) ==
    \E w \in {k, "failed"} :
        reply' = [reply EXCEPT ![a] = IF agent # 0 THEN Append(@, w) ELSE @]

WriteReply(a, k) ==
    \E w \in {k, "failed"} :
        reply' = [reply EXCEPT ![a] = IF agent # 0 /\ agent = asked[a]
                                      THEN Append(@, w) ELSE @]

\* replyReverseUnavailable: route.permission is set for interactions too.
UnavailableReply(a) ==
    IF a \in Permissions \cup Interactions THEN "cancelled" ELSE "error"

\* No client is subscribed: here interactions have a reply of their own.
UnmatchedReply(a) == IF a \in Interactions THEN "error" ELSE UnavailableReply(a)

DropRoutes(S) ==
    /\ routes' = routes \ S
    /\ targets' = [a \in Asks |-> IF a \in S THEN {} ELSE targets[a]]

-----------------------------------------------------------------------------
(* Clients. *)

Connect(c) ==
    /\ ~closed
    /\ socket[c] = "new"
    /\ socket' = [socket EXCEPT ![c] = "open"]
    /\ clients' = clients \cup {c}
    /\ UNCHANGED <<linkVars, gone, session, visited, readerVars, routeVars, replyVars>>

SocketCloses(c) ==
    /\ socket[c] = "open"
    /\ socket' = [socket EXCEPT ![c] = "closed"]
    /\ UNCHANGED <<linkVars, clients, gone, session, visited, readerVars, routeVars,
                   replyVars>>

\* Mutant: a departing client stays a target of the routes it was sent.
RemovalKeepsTargets(c) ==
    /\ clients' = clients \ {c}
    /\ socket' = [socket EXCEPT ![c] = "closed"]
    /\ session' = [session EXCEPT ![c] = None]
    /\ UNCHANGED targets

\* removeClient: the routes stay, without it, for a client to come.
Removal(c) ==
    /\ clients' = clients \ {c}
    /\ socket' = [socket EXCEPT ![c] = "closed"]
    /\ session' = [session EXCEPT ![c] = None]
    /\ targets' = [a \in Asks |-> targets[a] \ {c}]

ReaderExits(c) ==
    /\ socket[c] = "closed" /\ c \notin gone
    /\ gone' = gone \cup {c}
    /\ Removal(c)
    /\ UNCHANGED <<linkVars, visited, readerVars, routes, replays, expiring,
                   undelivered, replyVars>>

\* Mutant: routes of every session are replayed.
OrphansOfAnySession(s) == {a \in routes : targets[a] = {}}

OrphansOf(s) == {a \in routes : about[a] = s /\ targets[a] = {}}

\* subscribeSessionClientLocked, from the client's own traffic or, for a new
\* session, from the agent's response; then replayDetachedReverseRequestsLocked.
Subscribe(c, s) ==
    /\ socket[c] = "open" /\ c \notin gone
    /\ session' = [session EXCEPT ![c] = s]
    /\ visited' = [visited EXCEPT ![c] = @ \cup {s}]
    /\ targets' = [a \in Asks |-> IF a \in OrphansOf(s) THEN {c} ELSE targets[a]]
    /\ replays' = replays \cup {<<c, a>> : a \in OrphansOf(s)}
    /\ UNCHANGED <<linkVars, clients, socket, gone, readerVars, routes, expiring,
                   undelivered, replyVars>>

Replay(c, a) ==
    /\ <<c, a>> \in replays
    /\ replays' = replays \ {<<c, a>>}
    /\ \/ /\ socket[c] = "open"
          /\ UNCHANGED <<clients, socket, session, targets>>
       \/ Removal(c)
    /\ UNCHANGED <<linkVars, gone, visited, readerVars, routes, expiring, undelivered,
                   replyVars>>

-----------------------------------------------------------------------------
(* The agent asks. *)

\* The message is read and its generation found current.
Receive(g, a, s) ==
    /\ agent = g
    /\ reader[g] = "idle"
    /\ asked[a] = 0
    /\ asked' = [asked EXCEPT ![a] = g]
    /\ about' = [about EXCEPT ![a] = s]
    /\ inbox' = [inbox EXCEPT ![g] = a]
    /\ reader' = [reader EXCEPT ![g] = "checked"]
    /\ UNCHANGED <<linkVars, clientVars, unsent, delivered, routeVars, replyVars>>

ReaderDone(g) ==
    /\ reader' = [reader EXCEPT ![g] = "idle"]
    /\ inbox' = [inbox EXCEPT ![g] = None]

Handling(g, S) == reader[g] = "checked" /\ inbox[g] \in S

\* Mutant: every connected client is asked, whatever its session.
EveryClient(a) == {c \in clients : socket[c] = "open"}

Eligible(a) ==
    IF about[a] # None
    THEN {c \in clients : session[c] = about[a] /\ socket[c] = "open"}
    ELSE IF a \in Extensions THEN {c \in clients : socket[c] = "open"} ELSE {}

\* A permission or interaction that names no session.
RefuseUnscoped(g) ==
    /\ Handling(g, Permissions \cup Interactions)
    /\ about[inbox[g]] = None
    /\ WriteReply(inbox[g], "cancelled")
    /\ ReaderDone(g)
    /\ UNCHANGED <<linkVars, clientVars, asked, about, unsent, delivered, routeVars,
                   working, answeredBy>>

\* NormalizeInteractionRequest rejects the parameters.
RefuseMalformed(g) ==
    /\ Handling(g, Interactions)
    /\ WriteReply(inbox[g], "error")
    /\ ReaderDone(g)
    /\ UNCHANGED <<linkVars, clientVars, asked, about, unsent, delivered, routeVars,
                   working, answeredBy>>

\* Mutant: a request nobody can answer is dropped.
RefuseSilently(g) ==
    /\ Handling(g, Asks \ Operations)
    /\ about[inbox[g]] # None \/ inbox[g] \in Extensions
    /\ Eligible(inbox[g]) = {}
    /\ ReaderDone(g)
    /\ UNCHANGED <<linkVars, clientVars, asked, about, unsent, delivered, routeVars,
                   replyVars>>

RefuseUnmatched(g) ==
    /\ Handling(g, Asks \ Operations)
    /\ about[inbox[g]] # None \/ inbox[g] \in Extensions
    /\ Eligible(inbox[g]) = {}
    /\ WriteReply(inbox[g], UnmatchedReply(inbox[g]))
    /\ ReaderDone(g)
    /\ UNCHANGED <<linkVars, clientVars, asked, about, unsent, delivered, routeVars,
                   working, answeredBy>>

Forward(g) ==
    /\ Handling(g, Asks \ Operations)
    /\ Eligible(inbox[g]) # {}
    /\ routes' = routes \cup {inbox[g]}
    /\ targets' = [targets EXCEPT ![inbox[g]] = Eligible(inbox[g])]
    /\ unsent' = [unsent EXCEPT ![g] = Eligible(inbox[g])]
    /\ delivered' = [delivered EXCEPT ![g] = FALSE]
    /\ reader' = [reader EXCEPT ![g] = "forwarding"]
    /\ UNCHANGED <<linkVars, clientVars, asked, about, inbox, replays, expiring,
                   undelivered, replyVars>>

ForwardSend(g, c) ==
    /\ reader[g] = "forwarding" /\ c \in unsent[g]
    /\ unsent' = [unsent EXCEPT ![g] = @ \ {c}]
    /\ \/ /\ socket[c] = "open"
          /\ delivered' = [delivered EXCEPT ![g] = TRUE]
          /\ UNCHANGED <<clients, socket, session, targets>>
       \/ Removal(c) /\ UNCHANGED delivered
    /\ UNCHANGED <<linkVars, gone, visited, asked, about, reader, inbox, routes,
                   replays, expiring, undelivered, replyVars>>

\* Mutant: the deadline starts only while a target is still connected.
ForwardTimesTargets(g) ==
    /\ reader[g] = "forwarding" /\ unsent[g] = {}
    /\ expiring' = IF targets[inbox[g]] # {} THEN expiring \cup {inbox[g]} ELSE expiring
    /\ undelivered' = IF delivered[g] THEN undelivered ELSE undelivered \cup {inbox[g]}
    /\ ReaderDone(g)
    /\ UNCHANGED <<linkVars, clientVars, asked, about, unsent, delivered, routes,
                   targets, replays, replyVars>>

\* Only a request that reached a client is given a deadline.
ForwardDone(g) ==
    /\ reader[g] = "forwarding" /\ unsent[g] = {}
    /\ expiring' = IF delivered[g] THEN expiring \cup {inbox[g]} ELSE expiring
    /\ undelivered' = IF delivered[g] THEN undelivered ELSE undelivered \cup {inbox[g]}
    /\ ReaderDone(g)
    /\ UNCHANGED <<linkVars, clientVars, asked, about, unsent, delivered, routes,
                   targets, replays, replyVars>>

OperationStarts(g) ==
    /\ Handling(g, Operations)
    /\ working' = IF closed THEN working ELSE working \cup {inbox[g]}
    /\ ReaderDone(g)
    /\ UNCHANGED <<linkVars, clientVars, asked, about, unsent, delivered, routeVars,
                   answeredBy, reply>>

\* handleReverse: a result, an error, or nothing once its connection is gone.
OperationEnds(a) ==
    /\ a \in working
    /\ working' = working \ {a}
    /\ WriteReply(a, "answer") \/ WriteReply(a, "error")
    /\ UNCHANGED <<linkVars, clientVars, readerVars, routeVars, answeredBy>>

-----------------------------------------------------------------------------
(* How a route ends. *)

\* A client's response.  Any client may send one for any identifier; one that
\* finds no route, or is not among its targets, changes nothing.  The relay
\* turns an unusable interaction answer into an error.
Answer(c, a) ==
    /\ socket[c] # "new" /\ c \notin gone
    /\ a \in routes /\ c \in targets[a]
    /\ DropRoutes({a})
    /\ answeredBy' = [answeredBy EXCEPT ![a] = c]
    /\ WriteReply(a, "answer") \/ (a \in Interactions /\ WriteReply(a, "error"))
    /\ UNCHANGED <<linkVars, clientVars, readerVars, replays, expiring, undelivered,
                   working>>

\* Mutant: the deadline passes without a look at the table.
ExpireBlindly(a) ==
    /\ a \in expiring
    /\ expiring' = expiring \ {a}
    /\ DropRoutes({a})
    /\ WriteReply(a, UnavailableReply(a))
    /\ UNCHANGED <<linkVars, clientVars, readerVars, replays, undelivered, working,
                   answeredBy>>

Expire(a) ==
    /\ a \in expiring \cap routes
    /\ expiring' = expiring \ {a}
    /\ DropRoutes({a})
    /\ WriteReply(a, UnavailableReply(a))
    /\ UNCHANGED <<linkVars, clientVars, readerVars, replays, undelivered, working,
                   answeredBy>>

\* The timer finds no route, or the hub's lifetime is over.
ExpiryStops(a) ==
    /\ a \in expiring
    /\ a \notin routes \/ closed
    /\ expiring' = expiring \ {a}
    /\ UNCHANGED <<linkVars, clientVars, readerVars, routes, targets, replays,
                   undelivered, replyVars>>

Loses(g) ==
    Detach(g) /\ UNCHANGED <<clientVars, readerVars, routeVars, replyVars>>

\* agentDisconnected replaces the whole table, whoever asked.
DropAllRoutes ==
    /\ DropRoutes(routes)
    /\ UNCHANGED <<clientVars, readerVars, replays, expiring, undelivered, replyVars>>

Clears(g) == Clear(g) /\ DropAllRoutes

SweepTables ==
    /\ DropRoutes(routes)
    /\ clients' = {}
    /\ session' = [c \in Clients |-> None]
    /\ UNCHANGED <<socket, gone, visited, readerVars, replays, expiring, undelivered,
                   replyVars>>

others == <<clientVars, readerVars, routeVars, replyVars>>

CloseSwept == CloseLock /\ \A c \in Clients : socket[c] # "open"

CloseSteps ==
    \/ CloseBegin /\ UNCHANGED others
    \/ CloseSweep /\ SweepTables
    \/ CloseSwept /\ UNCHANGED others
    \/ CloseDetach /\ UNCHANGED others
    \/ CloseNothing /\ UNCHANGED others
    \/ CloseClear /\ DropAllRoutes
    \/ CloseWait /\ working = {} /\ UNCHANGED others

Ensures(p) ==
    /\ EnsureDial(p) \/ EnsurePublish(p) \/ EnsureGiveUp(p)
    /\ UNCHANGED others

-----------------------------------------------------------------------------
ClientStep(c) ==
    \/ Connect(c) \/ SocketCloses(c) \/ ReaderExits(c)
    \/ \E s \in Sessions : Subscribe(c, s)
    \/ \E a \in Asks : Replay(c, a) \/ Answer(c, a)

Dispatch(g) ==
    \/ RefuseUnscoped(g) \/ RefuseMalformed(g) \/ RefuseUnmatched(g)
    \/ Forward(g) \/ ForwardDone(g) \/ OperationStarts(g)
    \/ \E c \in Clients : ForwardSend(g, c)

\* Nothing runs once Close has returned and every goroutine has ended.
Terminated == closing = "done" /\ UNCHANGED vars

Next ==
    \/ \E c \in Clients : ClientStep(c)
    \/ \E g \in Generations :
         \/ \E a \in Asks, s \in Sessions \cup {None} : Receive(g, a, s)
         \/ Dispatch(g) \/ Loses(g) \/ Clears(g)
    \/ \E a \in Asks : OperationEnds(a) \/ Expire(a) \/ ExpiryStops(a)
    \/ \E p \in Ensurers : Ensures(p)
    \/ CloseSteps
    \/ Terminated

Spec == Init /\ [][Next]_vars

\* Go runs every goroutine that can run, sends are bounded by the write timeout
\* and the deadline by ReverseOperationTimeout.  Nobody has to answer.
Fairness ==
    /\ \A g \in Generations : WF_vars(Dispatch(g)) /\ WF_vars(Clears(g))
    /\ \A a \in Asks :
         /\ WF_vars(Expire(a)) /\ WF_vars(ExpiryStops(a)) /\ WF_vars(OperationEnds(a))
         /\ \A c \in Clients : WF_vars(Replay(c, a))
    /\ \A c \in Clients : WF_vars(ReaderExits(c))
    /\ WF_vars(CloseSteps /\ closing # "open")

FairSpec == Spec /\ Fairness

-----------------------------------------------------------------------------
(* agenttransport.go:145-170, reverse.go:19-30: whatever races for a route, *)
(* its agent request gets at most one reply, and only on the connection     *)
(* that asked, while that connection is the published one.                  *)
Outcome ==
    [a \in Asks |->
        IF reply[a] \in {<<>>, <<"failed">>} THEN "none"
        ELSE IF Len(reply[a]) = 1 THEN reply[a][1] ELSE "repeated"]

RepliesTo == [a \in Asks |-> {"answer", "cancelled", "error"}]

Contract ==
    INSTANCE ReverseContract
        WITH latest <- agentGeneration, reply <- Outcome, Replies <- RepliesTo

ImplementsContract == Contract!Spec

(* docs/PROTOCOL.md:207-209, sessions.go:180-182: the answer that is taken  *)
(* comes from a client that has been in the session the request is about,   *)
(* through any disconnection, replay and change of session.                 *)
EligibleAnswerOnly ==
    \A a \in Asks :
        answeredBy[a] # None /\ about[a] # None => about[a] \in visited[answeredBy[a]]

(* clienttransport.go:124-148: a client whose goroutine has ended is left   *)
(* in no table, so a route with no one to answer it is seen as orphaned and *)
(* replayed to the next client of the session.                              *)
NoGhost ==
    \A c \in gone :
        /\ c \notin clients /\ session[c] = None
        /\ \A a \in routes : c \notin targets[a]

(* reverse.go:213-224: a route has its deadline running, or is still being  *)
(* sent, or reached no client when it was.                                  *)
BeingForwarded(a) == \E g \in Generations : inbox[g] = a /\ reader[g] = "forwarding"

RoutesAreTimed ==
    \A a \in routes : a \in expiring \/ BeingForwarded(a) \/ a \in undelivered \/ closed

(* reverse.go:82-151, 153-232, agenttransport.go:145-170: no request of a    *)
(* connected agent is forgotten: it is being handled, is in the table, or a *)
(* reply was written.  One step alone loses requests: the one that ends the *)
(* teardown of an older connection, which empties the whole table           *)
(* (agenttransport.go:200-205), whichever connection its routes came from.  *)
Accounted(a) ==
    \/ asked[a] = 0 \/ asked[a] # agent \/ closed
    \/ \E g \in Generations : inbox[g] = a /\ reader[g] = "checked"
    \/ a \in routes \cup working \/ reply[a] # <<>>

AsksAccounted ==
    [][\A a \in Asks : Accounted(a) =>
          Accounted(a)' \/ \E g \in clearing \ clearing' : g < asked[a]]_vars

(* reverse.go:59-66, hub.go:147: Close waits for the operations in flight   *)
(* and none starts behind its back.                                         *)
CloseWaitsForOperations == closing = "done" => working = {}

(* Every route that reached a client is concluded, even if that client and  *)
(* all the others go away without an answer.                                *)
RoutesSettle ==
    \A a \in Asks : a \in routes ~> a \notin routes \/ a \in undelivered

-----------------------------------------------------------------------------
(* What the repository says of itself, and the code does not keep.          *)

(* docs/PROTOCOL.md:209-210: no client, every client gone or the deadline:  *)
(* each way the agent gets its answer.                                      *)
PermissionsConclude == \A a \in Permissions : a \in routes ~> a \notin routes
=============================================================================
