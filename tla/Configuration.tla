---------------------------- MODULE Configuration ----------------------------
(***************************************************************************)
(* How the daemon's settings are resolved (config/, the environment of      *)
(* compat/ and the provider options of provider/factory): the defaults,     *)
(* then the configuration document, the environment and the flags. Fields   *)
(* that the code treats alike stand for each other: bind for the other      *)
(* strings, approve for the provider's options (one of their two older      *)
(* variables for both), ensure for the other boolean, each with its         *)
(* variables and its flag. A directory is a sequence of names, already      *)
(* clean and absolute; <<>> is a blank one. A flag has the values that the  *)
(* command line gives it, one after another, blank ones too. Everything is  *)
(* an operator: the state is in Startup.                                    *)
(***************************************************************************)
EXTENDS Integers, Sequences, FiniteSets

CONSTANTS
    Limits,         \* names of the tuning values
    Ordered,        \* pairs of them, the first at most the second
    MaxPort,        \* 65535
    DefaultPort, DefaultAgentPort

ASSUME ConfigurationAssumption ==
    /\ "agentMessageBytes" \in Limits
    /\ Ordered \subseteq Limits \X Limits
    /\ MaxPort \in Nat
    /\ DefaultPort \in 1..MaxPort /\ DefaultAgentPort \in 1..MaxPort
    /\ DefaultPort # DefaultAgentPort

(* A number that was not given, and a word that is no number.               *)
Unset == -1
NotANumber == -2

DefaultData == <<"home">>
RunOf(data) == Append(data, "run")

(* The defaults satisfy validateTuning; 0 in a document is a missing value. *)
DefaultTuning == [l \in Limits |-> 1]

DefaultDocument ==
    [version |-> 1, bind |-> "any", port |-> DefaultPort,
     agentPort |-> DefaultAgentPort, ensure |-> TRUE,
     data |-> DefaultData, runtime |-> RunOf(DefaultData),
     approve |-> "", secretOption |-> FALSE, tuning |-> DefaultTuning]

Refused == [ok |-> FALSE]
Accepted(document) == [ok |-> TRUE, document |-> document]

(* A value that was given goes before another.                              *)
Given(value, none, other) == IF value # none THEN value ELSE other

(* What a step does with the result of the one before.                      *)
Then(result, Step(_)) == IF result.ok THEN Step(result.document) ELSE Refused

-----------------------------------------------------------------------------
(* validateTuning: every value is positive, and the limits are in order.    *)
ValidTuning(tuning) ==
    /\ \A l \in Limits: tuning[l] > 0
    /\ \A pair \in Ordered: tuning[pair[1]] <= tuning[pair[2]]

ValidPort(port) == port \in 1..MaxPort

ValidDocument(document) ==
    /\ document.version = 1
    /\ document.bind # ""
    /\ ValidPort(document.port) /\ ValidPort(document.agentPort)
    /\ document.port # document.agentPort
    /\ document.data # <<>> /\ document.runtime # <<>>
    /\ ~document.secretOption
    /\ ValidTuning(document.tuning)

Checked(document) ==
    IF ValidDocument(document) THEN Accepted(document) ELSE Refused

(* Documents written before this limit existed lack it.                     *)
FillTuning(tuning) ==
    [tuning EXCEPT !["agentMessageBytes"] =
        IF @ = 0 THEN DefaultTuning["agentMessageBytes"] ELSE @]

\* Mutant: the runtime directory is always put below the data directory.
NormalizeAppending(document) ==
    [document EXCEPT !.data = Given(@, <<>>, DefaultData), !.runtime = Append(@, "run")]

(* NormalizeDocument fills the one limit that older documents lack, and     *)
(* blank directories; the runtime directory is below the data directory     *)
(* that the document has at this moment.                                    *)
NormalizeDocument(document) ==
    [document EXCEPT
        !.data = Given(@, <<>>, DefaultData),
        !.runtime = Given(@, <<>>, RunOf(Given(document.data, <<>>, DefaultData))),
        !.tuning = FillTuning(@)]

(* migrateV0: what an old document gives replaces the default.              *)
MigrateV0(old) ==
    [DefaultDocument EXCEPT
        !.bind = Given(old.bind, "", @),
        !.port = Given(old.port, 0, @),
        !.agentPort = Given(old.agentPort, 0, @),
        !.data = Given(old.data, <<>>, @),
        !.runtime = Given(old.runtime, <<>>, @),
        !.ensure = IF old.ensure # "" THEN old.ensure = "true" ELSE @,
        !.approve = old.approve,
        !.secretOption = old.secretOption]

(* The text of a document is malformed (broken JSON, an unknown field, data *)
(* after the end, too long), of version 0, or of a version with all fields. *)
DecodeDocument(raw) ==
    CASE raw.form = "v0" -> Checked(MigrateV0(raw.old))
      [] raw.form = "v1" /\ raw.document.version = 1 ->
             Checked(NormalizeDocument(raw.document))
      [] OTHER -> Refused

LoadDocument(raw) ==
    IF raw.form = "absent" THEN Accepted(NormalizeDocument(DefaultDocument))
    ELSE Then(DecodeDocument(raw), LAMBDA d: Accepted(NormalizeDocument(d)))

(* The candidate of `config validate --input` and `config apply`.           *)
Candidate(raw) ==
    Then(DecodeDocument(raw), LAMBDA d: Checked(NormalizeDocument(d)))

(* What SaveDocument writes, after it has validated once more.              *)
SaveDocument(document) == [form |-> "v1", document |-> document]

-----------------------------------------------------------------------------
\* Mutant: the old name goes before the new one.
EnvironmentLegacy(variable, none) ==
    Given(variable.legacy, none, variable.primary)

(* compat.Environment: the variable, or the one it had before the rename.   *)
Environment(variable, none) == Given(variable.primary, none, variable.legacy)

TrueWords == {"true", "yes"}
FalseWords == {"false", "off"}

(* setBoolean: what a variable makes of a value, and when it cannot be read. *)
BooleanReadable(variable) ==
    Environment(variable, "") \in {""} \union TrueWords \union FalseWords
BooleanOr(variable, value) ==
    IF Environment(variable, "") = "" THEN value ELSE Environment(variable, "") \in TrueWords

(* The option parser refuses the document's own option before it looks for  *)
(* a variable that replaces it.                                             *)
OptionReadable(document, environment) ==
    /\ document.approve \in {"", "true", "false"}
    /\ BooleanReadable(environment.approve)

Option(document, environment) ==
    IF BooleanOr(environment.approve, document.approve = "true") THEN "true" ELSE "false"

(* applyEnvironment, then the option parser.                                *)
ApplyEnvironment(document, environment) ==
    IF \/ Environment(environment.port, Unset) = NotANumber
       \/ ~BooleanReadable(environment.ensure)
       \/ ~OptionReadable(document, environment)
    THEN Refused
    ELSE Accepted(
        [document EXCEPT
            !.bind = Given(Environment(environment.bind, ""), "", @),
            !.port = Given(Environment(environment.port, Unset), Unset, @),
            !.data = Given(Environment(environment.data, <<>>), <<>>, @),
            !.runtime = Given(Environment(environment.runtime, <<>>), <<>>, @),
            !.ensure = BooleanOr(environment.ensure, @),
            !.approve = Option(document, environment)])

(* A flag that is given replaces what it is bound to, even with a blank;    *)
(* the last one counts.                                                     *)
LastGiven(values, other) == IF values = <<>> THEN other ELSE values[Len(values)]

(* A boolean flag takes fewer words than a variable.                        *)
FlagReadable(words) == \A k \in DOMAIN words: words[k] \in {"true", "false"}

FlagsRefused(flags) ==
    \/ flags.plaintextSecret
    \/ \E k \in DOMAIN flags.port: flags.port[k] = NotANumber
    \/ ~FlagReadable(flags.ensure) \/ ~FlagReadable(flags.approve)

\* Mutant: a directory that is given blank counts as not given.
ApplyFlagsNotBlank(document, flags) ==
    IF FlagsRefused(flags) THEN Refused
    ELSE Accepted(
        [document EXCEPT
            !.bind = LastGiven(flags.bind, @),
            !.port = LastGiven(flags.port, @),
            !.data = Given(LastGiven(flags.data, <<>>), <<>>, @),
            !.runtime = Given(LastGiven(flags.runtime, <<>>), <<>>, @),
            !.ensure = IF flags.ensure = <<>> THEN @ ELSE LastGiven(flags.ensure, "") = "true",
            !.approve = LastGiven(flags.approve, @)])

(* flagSet.Parse over the bound fields. NormalizeDocument then replaces a   *)
(* blank directory by its default, and a blank bind is refused.             *)
ApplyFlags(document, flags) ==
    IF FlagsRefused(flags) THEN Refused
    ELSE Accepted(
        [document EXCEPT
            !.bind = LastGiven(flags.bind, @),
            !.port = LastGiven(flags.port, @),
            !.data = LastGiven(flags.data, @),
            !.runtime = LastGiven(flags.runtime, @),
            !.ensure = IF flags.ensure = <<>> THEN @ ELSE LastGiven(flags.ensure, "") = "true",
            !.approve = LastGiven(flags.approve, @)])

(* ResolveConfigurationPath: the last --config, else the variable, else the *)
(* path in the home directory. A blank --config anywhere is refused.        *)
ConfigurationPath(environment, flags) ==
    LastGiven(flags.config, Given(environment.config, "", "config.json"))

\* Mutant: what was laid over the document is not checked.
ResolveUnchecked(files, environment, flags) ==
    IF \E k \in DOMAIN flags.config: flags.config[k] = "" THEN Refused
    ELSE LET raw == files[ConfigurationPath(environment, flags)]
         IN  Then(Then(Then(LoadDocument(raw),
                            LAMBDA d: ApplyEnvironment(d, environment)),
                       LAMBDA d: ApplyFlags(d, flags)),
                  LAMBDA d: Accepted(NormalizeDocument(d)))

(* Resolve: the document is normalized and checked again with everything    *)
(* laid over it.                                                            *)
Resolve(files, environment, flags) ==
    IF \E k \in DOMAIN flags.config: flags.config[k] = "" THEN Refused
    ELSE LET raw == files[ConfigurationPath(environment, flags)]
         IN  Then(Then(Then(LoadDocument(raw),
                            LAMBDA d: ApplyEnvironment(d, environment)),
                       LAMBDA d: ApplyFlags(d, flags)),
                  LAMBDA d: Checked(NormalizeDocument(d)))
=============================================================================
