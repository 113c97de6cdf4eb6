----------------------------- MODULE MCServices -----------------------------
(* Small instances of the daemon's smaller services for TLC. They share no  *)
(* state and each property speaks of one of them, so it is enough to        *)
(* explore them one at a time: one moves, the others are where they began.  *)
EXTENDS Room, History, Interaction, Archive, Redactor

CONSTANTS f1, a1, a2

(* A message of each side, and an update of each kind that is none. A live  *)
(* client is sent whatever is kept, so one kind is enough that is and one   *)
(* that is not.                                                             *)
MCKinds == {"user", "agent", "tool", "other"}
LiveKinds == {"user", "other"}

(* Questions with one text or two, and every way to break a frame.          *)
Question(text, labels, multi) == [text |-> text, labels |-> labels, multiSelect |-> multi]
QuestionLists ==
    {<<>>, <<Question("why", <<"x", "y">>, "true")>>, <<Question("", <<"x">>, "absent")>>,
     <<Question("why", <<"x">>, "absent"), Question("how", <<>>, "false")>>,
     <<Question("why", <<"x">>, "absent"), Question("why", <<"y">>, "absent")>>,
     <<Question("why", <<"">>, "absent")>>, <<Question("why", <<"x">>, "malformed")>>}
Asks(modes, wrappings, sessions) ==
    [method: {"ask_user_question"}, wrapping: wrappings, sessionId: sessions,
     toolCallId: {"t"}, planContent: {""}, questions: QuestionLists, mode: modes]
MCFrames ==
    Asks({"absent", "default", "malformed"}, {"wrapped", "bare"}, {"s"})
    \union Asks({"plan"}, {"wrapped", "half"}, {"s", ""})
    \union [method: {"exit_plan_mode"}, wrapping: {"wrapped", "bare", "mismatched"},
            sessionId: {"s"}, toolCallId: {"t", ""}, planContent: {"", "plan", "malformed"},
            questions: {<<>>}, mode: {"absent"}]

(* The keys 0, 1, 2, 00, 01, the empty one and one that is no number; at    *)
(* most two of them at once.                                                *)
Keys == {<<0>>, <<1>>, <<2>>, <<0, 0>>, <<0, 1>>, <<>>, <<NotADigit>>}
Entries(values) == UNION {[keys -> values]: keys \in {k \in SUBSET Keys: Cardinality(k) <= 2}}
NoEntries == {<<>>}
Response(outcomes, answers, annotations, partial) ==
    [form: {"result"}, outcome: outcomes, answers: answers, annotations: annotations,
     partialAnswers: partial, feedback: {"more"}]
MCAnswers ==
    {[form |-> "error"], [form |-> "undecodable"]}
    \union Response({"approved", "abandoned", "cancelled", "accepted", "unknown"},
                    NoEntries, NoEntries, NoEntries)
    \union Response({"accepted"}, Entries({<<"x">>, <<"y", "">>}),
                    {notes \in Entries({"", "note"}): Cardinality(DOMAIN notes) <= 1}, NoEntries)
    \union Response({"chat_about_this", "skip_interview"}, NoEntries, NoEntries,
                    Entries({"x", "y"}))

(* One value begins another, one overlaps itself.                           *)
MCValues == {<<"a", "b">>, <<"a", "b", "b", "a">>, <<"b", "a", "b">>, <<>>}

ServicesInit == RoomInit /\ HInit /\ IInit /\ AInit /\ RInit

HRests == HInit /\ role = "live"
ARests == AInit /\ archive.form = "absent"

HistoryNext == HNext /\ (role = "live" => ToSet(lines') \subseteq LiveKinds)

ServicesNext ==
    \/ /\ HRests /\ IInit /\ ARests /\ RInit
       /\ RoomNext /\ UNCHANGED <<hvars, ivars, avars, rvars>>
    \/ /\ RoomInit /\ IInit /\ ARests /\ RInit
       /\ HistoryNext /\ UNCHANGED <<roomVars, ivars, avars, rvars>>
    \/ /\ RoomInit /\ HRests /\ ARests /\ RInit
       /\ INext /\ UNCHANGED <<roomVars, hvars, avars, rvars>>
    \/ /\ RoomInit /\ HRests /\ IInit /\ RInit
       /\ ANext /\ UNCHANGED <<roomVars, hvars, ivars, rvars>>
    \/ /\ RoomInit /\ HRests /\ IInit /\ ARests
       /\ RNext /\ UNCHANGED <<roomVars, hvars, ivars, avars>>

ServicesSpec == ServicesInit /\ [][ServicesNext]_<<roomVars, hvars, ivars, avars, rvars>>
=============================================================================
