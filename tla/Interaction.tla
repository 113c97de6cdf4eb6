----------------------------- MODULE Interaction -----------------------------
(***************************************************************************)
(* What a structured interaction says, from the agent's frame over the      *)
(* neutral request that a client is shown to the result the agent gets      *)
(* (provider/grok/interaction.go, hub/clientrpc.go). Who may answer, and    *)
(* when, is in ReverseRoutes. Clients name a question by its index, the     *)
(* agent by its text.                                                       *)
(***************************************************************************)
EXTENDS Integers, Sequences, SequencesExt, FiniteSets

CONSTANTS
    Frames,         \* interaction frames the agent may send
    Answers         \* results a client may send

VARIABLES
    frame,          \* the agent's frame, Nothing before it comes
    interaction,    \* the neutral request the client is shown
    answer,         \* the client's result
    verdict         \* what the agent is answered, and whether the client is told
                    \* that its answer was rejected; <<>> until then

ivars == <<frame, interaction, answer, verdict>>

Blank == ""
Nothing == [given |-> FALSE]

IInit == frame = Nothing /\ interaction = Nothing /\ answer = Nothing /\ verdict = <<>>

-----------------------------------------------------------------------------
(* NormalizeInteractionRequest. A field that is absent, of another type or  *)
(* blank is Blank where a string is required; "malformed" is of another     *)
(* type where the field is optional.                                        *)

(* unwrapInteraction: the payload under method and params, or bare as in    *)
(* older frames.                                                            *)
Unwraps(f) == f.wrapping \in {"wrapped", "bare"}

\* Mutant: two questions may have the same text.
QuestionsMayRepeat(questions) ==
    /\ questions # <<>>
    /\ \A k \in DOMAIN questions:
           /\ questions[k].text # Blank
           /\ Blank \notin ToSet(questions[k].labels)
           /\ questions[k].multiSelect # "malformed"

QuestionsValid(questions) ==
    /\ questions # <<>>
    /\ \A k \in DOMAIN questions:
           /\ questions[k].text # Blank
           /\ \A j \in 1..(k - 1): questions[j].text # questions[k].text
           /\ Blank \notin ToSet(questions[k].labels)
           /\ questions[k].multiSelect # "malformed"

(* A wrapped frame must name the mode.                                      *)
ModeValid(f) ==
    f.mode \in {"default", "plan"} \union (IF f.wrapping = "bare" THEN {"absent"} ELSE {})

Normalizes(f) ==
    /\ Unwraps(f) /\ f.method \in {"exit_plan_mode", "ask_user_question"}
    /\ f.sessionId # Blank /\ f.toolCallId # Blank
    /\ f.method = "exit_plan_mode" => f.planContent # "malformed"
    /\ f.method = "ask_user_question" => QuestionsValid(f.questions) /\ ModeValid(f)

Normalized(f) ==
    IF f.method = "exit_plan_mode"
    THEN [given |-> TRUE, kind |-> "exit_plan", questions |-> <<>>,
          planContent |-> f.planContent]
    ELSE [given |-> TRUE, kind |-> "ask_question", planContent |-> Blank,
          questions |-> [k \in DOMAIN f.questions |->
              [question |-> f.questions[k].text, options |-> f.questions[k].labels,
               multiSelect |-> f.questions[k].multiSelect = "true"]]]

-----------------------------------------------------------------------------
(* DenormalizeInteractionResponse. A key is a sequence of characters, each  *)
(* a digit or NotADigit.                                                    *)

NotADigit == 10

(* The keys of a JSON object are texts, and there are finitely many.        *)
IsEntries(entries) ==
    DOMAIN entries \subseteq Seq(0..NotADigit) /\ IsFiniteSet(DOMAIN entries)

ASSUME InteractionAssumption ==
    /\ Nothing \notin Frames
    /\ \A f \in Frames:
           f.questions \in Seq([text: STRING, labels: Seq(STRING), multiSelect: STRING])
    /\ \A response \in Answers: response.form = "result" =>
           /\ IsEntries(response.answers) /\ IsEntries(response.annotations)
           /\ IsEntries(response.partialAnswers)

\* Mutant: leading zeros are passed over.
IsIndexPadded(key) == key # <<>> /\ \A k \in DOMAIN key: key[k] \in 0..9

(* parseQuestionIndex: only the canonical decimal of a number.              *)
IsIndex(key) ==
    /\ key # <<>>
    /\ key = <<0>> \/ key[1] \in 1..9
    /\ \A k \in DOMAIN key: key[k] \in 0..9

IndexOf(key) ==
    LET upTo[n \in 0..Len(key)] == IF n = 0 THEN 0 ELSE 10 * upTo[n - 1] + key[n]
    IN  upTo[Len(key)]

NamesQuestion(request, key) == IsIndex(key) /\ IndexOf(key) < Len(request.questions)

QuestionForIndex(request, key) == request.questions[IndexOf(key) + 1].question

(* An entry for each key, under its question's text. Of two entries with    *)
(* one text Go keeps either.                                                *)
ByQuestion(request, entries) ==
    [text \in {QuestionForIndex(request, key): key \in DOMAIN entries} |->
        entries[CHOOSE key \in DOMAIN entries: QuestionForIndex(request, key) = text]]

Refusal(told) == [form |-> "error", told |-> told]
Result(fields) == [form |-> "result", told |-> FALSE, result |-> fields]

(* Blank labels are left out of an answer.                                  *)
NotBlank(answers) ==
    [key \in DOMAIN answers |-> SelectSeq(answers[key], LAMBDA label: label # Blank)]

(* Annotations of which nothing but blanks is left are dropped.             *)
AnnotationsOf(request, annotations) ==
    LET kept == {key \in DOMAIN annotations: annotations[key] # Blank}
    IN  ByQuestion(request, [key \in kept |-> annotations[key]])

DenormalizeAsk(request, response) ==
    LET Named(entries) == \A key \in DOMAIN entries: NamesQuestion(request, key)
    IN  CASE response.outcome = "cancelled" -> Result([outcome |-> "cancelled"])
          [] response.outcome = "accepted" /\ Named(response.answers)
                 /\ DOMAIN response.answers # {} /\ Named(response.annotations) ->
                 Result([outcome |-> "accepted",
                         answers |-> ByQuestion(request, NotBlank(response.answers)),
                         annotations |-> AnnotationsOf(request, response.annotations)])
          [] response.outcome \in {"chat_about_this", "skip_interview"}
                 /\ Named(response.partialAnswers) ->
                 Result([outcome |-> response.outcome,
                         partialAnswers |-> ByQuestion(request, response.partialAnswers)])
          [] OTHER -> Refusal(TRUE)

DenormalizeExitPlan(response) ==
    CASE response.outcome \in {"approved", "abandoned"} ->
             Result([outcome |-> response.outcome])
      [] response.outcome = "cancelled" ->
             Result([outcome |-> "cancelled", feedback |-> response.feedback])
      [] OTHER -> Refusal(TRUE)

(* relayInteractionAnswer: the client's error is passed on, and a result    *)
(* that cannot be decoded or does not fit is an error for both.             *)
Relayed(request, response) ==
    IF response.form = "error" THEN Refusal(FALSE)
    ELSE IF response.form # "result" THEN Refusal(TRUE)
    ELSE IF request.kind = "exit_plan" THEN DenormalizeExitPlan(response)
    ELSE DenormalizeAsk(request, response)

-----------------------------------------------------------------------------
(* The agent asks; a frame that is not well-formed is refused at once.      *)
Asked(f) ==
    /\ frame = Nothing
    /\ frame' = f
    /\ IF Normalizes(f)
       THEN interaction' = Normalized(f) /\ UNCHANGED verdict
       ELSE verdict' = <<Refusal(FALSE)>> /\ UNCHANGED interaction
    /\ UNCHANGED answer

(* The route is gone once it is answered, well or not.                      *)
Answered(response) ==
    /\ interaction.given /\ verdict = <<>>
    /\ answer' = response
    /\ verdict' = <<Relayed(interaction, response)>>
    /\ UNCHANGED <<frame, interaction>>

INext == (\E f \in Frames: Asked(f)) \/ (\E response \in Answers: Answered(response))

ISpec == IInit /\ [][INext]_ivars

-----------------------------------------------------------------------------
(* The decimal of n < 10, as the clients write it.                          *)
Decimal(n) == <<n>>

EntriesArrive(given, relayed) ==
    /\ Cardinality(DOMAIN relayed) = Cardinality(DOMAIN given)
    /\ \A k \in DOMAIN frame.questions: Decimal(k - 1) \in DOMAIN given =>
           relayed[frame.questions[k].text] = given[Decimal(k - 1)]

(* interaction.go:73-125, 244-297: each answer that a client gives reaches  *)
(* the agent under the text of the question the client gave it to, and none *)
(* is lost to or mixed with another, although the client names questions by *)
(* position and the agent by text; and the agent never gets an outcome that *)
(* its kind of interaction does not know.                                   *)
AnswersReachTheirQuestions ==
    verdict # <<>> /\ verdict[1].form = "result" =>
        LET result == verdict[1].result
        IN  /\ result.outcome \in
                   (IF frame.method = "exit_plan_mode"
                    THEN {"approved", "abandoned", "cancelled"}
                    ELSE {"accepted", "cancelled", "chat_about_this", "skip_interview"})
            /\ result.outcome = "accepted" =>
                   EntriesArrive(NotBlank(answer.answers), result.answers)
            /\ result.outcome \in {"chat_about_this", "skip_interview"} =>
                   EntriesArrive(answer.partialAnswers, result.partialAnswers)
=============================================================================
