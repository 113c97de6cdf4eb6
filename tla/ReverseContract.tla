--------------------------- MODULE ReverseContract ---------------------------
(***************************************************************************)
(* What the hub promises the agent about reverse requests: a reply goes to *)
(* the connection that asked, while that connection is up, and at most     *)
(* once.  Nothing is said of how the reply is found.                       *)
(***************************************************************************)
EXTENDS Naturals

CONSTANTS
    Asks,           \* reverse requests the agent may send
    Replies         \* the kinds of reply each request may be given

VARIABLES
    agent,    \* generation of the published connection, 0 when there is none
    latest,   \* the last generation published
    asked,    \* generation that sent a request, 0 before it is sent
    reply     \* the reply written, "none" before

contractVars == <<agent, latest, asked, reply>>

Init ==
    /\ agent = 0
    /\ latest = 0
    /\ asked = [a \in Asks |-> 0]
    /\ reply = [a \in Asks |-> "none"]

Up ==
    /\ agent = 0
    /\ latest' = latest + 1
    /\ agent' = latest'
    /\ UNCHANGED <<asked, reply>>

Down == agent' = 0 /\ UNCHANGED <<latest, asked, reply>>

Ask(a) ==
    /\ agent # 0 /\ asked[a] = 0
    /\ asked' = [asked EXCEPT ![a] = agent]
    /\ UNCHANGED <<agent, latest, reply>>

Reply(a) ==
    /\ agent # 0 /\ asked[a] = agent
    /\ reply[a] = "none"
    /\ \E k \in Replies[a] : reply' = [reply EXCEPT ![a] = k]
    /\ UNCHANGED <<agent, latest, asked>>

Next == Up \/ Down \/ \E a \in Asks : Ask(a) \/ Reply(a)

Spec == Init /\ [][Next]_contractVars
=============================================================================
