--------------------------- MODULE Storage_proofs ---------------------------
(***************************************************************************)
(* What the parts of the daemon that keep files promise. Its start: settings*)
(* survive every way of writing and reading them, and the secrets and the   *)
(* files of the earlier program survive overlapping starts. The room:       *)
(* messages stay, and reach those who follow it in order. The archive of    *)
(* sessions: no change of the list is lost. The history of a session: those *)
(* who follow it and those who go back through it miss nothing.             *)
(***************************************************************************)
EXTENDS Startup, Room, Archive, History, SequenceTheorems, FiniteSetTheorems, TLAPS

LEMMA AppendNotBlank ==
    ASSUME NEW S, NEW s \in Seq(S), NEW name
    PROVE Append(s, name) # <<>>
<1>1. s \in Seq(S \union {name})
  OBVIOUS
<1>2. QED
  BY <1>1, AppendProperties

LEMMA FillType ==
    ASSUME NEW tuning \in [Limits -> Int]
    PROVE /\ FillTuning(tuning) \in [Limits -> Int]
          /\ ValidTuning(tuning) => FillTuning(tuning) = tuning
<1>1. DefaultTuning["agentMessageBytes"] \in Int
  BY ConfigurationAssumption DEF DefaultTuning
<1>2. FillTuning(tuning) \in [Limits -> Int]
  BY <1>1, ConfigurationAssumption DEF FillTuning
<1>3. ASSUME ValidTuning(tuning) PROVE FillTuning(tuning) = tuning
  BY <1>3, ConfigurationAssumption DEF FillTuning, ValidTuning
<1>4. QED
  BY <1>2, <1>3

(* The directories of a normalized document.                                *)
DataOf(d) == Given(d.data, <<>>, DefaultData)
RuntimeOf(d) == Given(d.runtime, <<>>, RunOf(DataOf(d)))

LEMMA DirectoriesGiven ==
    ASSUME NEW d, d.data \in DataDirectories \union {<<>>}
    PROVE DataOf(d) \in DataDirectories /\ DataOf(d) # <<>> /\ RuntimeOf(d) # <<>>
<1>1. DataOf(d) \in DataDirectories
  BY StartupAssumption DEF DataOf, Given
<1>2. DataOf(d) \in Seq(STRING) /\ DataOf(d) # <<>>
  BY <1>1, StartupAssumption
<1>3. RunOf(DataOf(d)) # <<>>
  BY <1>2, AppendNotBlank DEF RunOf
<1>4. QED
  BY <1>1, <1>2, <1>3 DEF RuntimeOf, Given

LEMMA NormalizeFields ==
    ASSUME NEW d, IsDocument(d)
    PROVE NormalizeDocument(d) =
              [version |-> d.version, bind |-> d.bind, port |-> d.port,
               agentPort |-> d.agentPort, ensure |-> d.ensure, data |-> DataOf(d),
               runtime |-> RuntimeOf(d), approve |-> d.approve,
               secretOption |-> d.secretOption, tuning |-> FillTuning(d.tuning)]
<1>1. d = [version |-> d.version, bind |-> d.bind, port |-> d.port, agentPort |-> d.agentPort,
           ensure |-> d.ensure, data |-> d.data, runtime |-> d.runtime, approve |-> d.approve,
           secretOption |-> d.secretOption, tuning |-> d.tuning]
  BY DEF IsDocument
<1>2. NormalizeDocument(d) =
          [d EXCEPT !.data = DataOf(d), !.runtime = RuntimeOf(d), !.tuning = FillTuning(d.tuning)]
  BY Zenon DEF NormalizeDocument, DataOf, RuntimeOf
<1>3. QED
  BY <1>1, <1>2

LEMMA NormalizeType ==
    ASSUME NEW d, IsDocument(d)
    PROVE /\ IsDocument(NormalizeDocument(d))
          /\ NormalizeDocument(d).data # <<>> /\ NormalizeDocument(d).runtime # <<>>
          /\ NormalizeDocument(d).data \in DataDirectories
<1>1. FillTuning(d.tuning) \in [Limits -> Int]
  BY FillType DEF IsDocument
<1>2. QED
  BY <1>1, NormalizeFields, DirectoriesGiven DEF IsDocument

LEMMA NormalizeFixed ==
    ASSUME NEW d, IsDocument(d), ValidDocument(d)
    PROVE NormalizeDocument(d) = d
<1>1. d.data # <<>> /\ d.runtime # <<>> /\ ValidTuning(d.tuning)
  BY DEF ValidDocument
<1>2. FillTuning(d.tuning) = d.tuning
  BY <1>1, FillType DEF IsDocument
<1>3. QED
  BY <1>1, <1>2, NormalizeFields DEF IsDocument, DataOf, RuntimeOf, Given

LEMMA MigrateType ==
    ASSUME NEW old, old.data \in DataDirectories \union {<<>>}
    PROVE IsDocument(MigrateV0(old))
<1> DEFINE ensure == IF old.ensure # "" THEN old.ensure = "true" ELSE TRUE
           bind == Given(old.bind, "", "any")
           port == Given(old.port, 0, DefaultPort)
           agentPort == Given(old.agentPort, 0, DefaultAgentPort)
           data == Given(old.data, <<>>, DefaultData)
           runtime == Given(old.runtime, <<>>, RunOf(DefaultData))
<1>1. MigrateV0(old) =
          [version |-> 1, bind |-> bind, port |-> port, agentPort |-> agentPort,
           ensure |-> ensure, data |-> data, runtime |-> runtime, approve |-> old.approve,
           secretOption |-> old.secretOption, tuning |-> DefaultTuning]
  <2>1. MigrateV0(old) =
            [DefaultDocument EXCEPT !.bind = bind, !.port = port, !.agentPort = agentPort,
                !.data = data, !.runtime = runtime, !.ensure = ensure, !.approve = old.approve,
                !.secretOption = old.secretOption]
    BY Zenon DEF MigrateV0, DefaultDocument
  <2> HIDE DEF ensure, bind, port, agentPort, data, runtime
  <2>2. QED
    BY <2>1 DEF DefaultDocument
<1>2. data \in DataDirectories
  BY StartupAssumption DEF Given
<1>3. DefaultTuning \in [Limits -> Int]
  BY DEF DefaultTuning
<1> HIDE DEF ensure, bind, port, agentPort, data, runtime
<1>4. QED
  BY <1>1, <1>2, <1>3 DEF IsDocument

LEMMA AcceptedDocument == \A d: Accepted(d).ok /\ Accepted(d).document = d
  BY DEF Accepted

(* What decoding, checking and loading accept.                              *)
LEMMA CheckedValid ==
    ASSUME NEW d, Checked(d).ok
    PROVE Checked(d) = Accepted(d) /\ ValidDocument(d)
  BY DEF Checked, Accepted, Refused

LEMMA DecodedValid ==
    ASSUME NEW raw, WellFormed(raw), DecodeDocument(raw).ok
    PROVE \E d: DecodeDocument(raw) = Accepted(d) /\ IsDocument(d) /\ ValidDocument(d)
<1>1. CASE raw.form = "v0"
  <2>1. DecodeDocument(raw) = Checked(MigrateV0(raw.old))
    BY <1>1 DEF DecodeDocument
  <2>2. QED
    BY <1>1, <2>1, CheckedValid, MigrateType DEF WellFormed
<1>2. CASE raw.form = "v1" /\ raw.document.version = 1
  <2>1. DecodeDocument(raw) = Checked(NormalizeDocument(raw.document))
    BY <1>2 DEF DecodeDocument
  <2>2. QED
    BY <1>2, <2>1, CheckedValid, NormalizeType DEF WellFormed
<1>3. QED
  BY <1>1, <1>2 DEF DecodeDocument, Refused

LEMMA DefaultType == IsDocument(DefaultDocument)
<1>1. DefaultTuning \in [Limits -> Int]
  BY DEF DefaultTuning
<1>2. QED
  BY <1>1, StartupAssumption DEF IsDocument, DefaultDocument

LEMMA LoadedType ==
    ASSUME NEW raw, WellFormed(raw), LoadDocument(raw).ok
    PROVE \E d: /\ LoadDocument(raw) = Accepted(d) /\ IsDocument(d)
                /\ d.data # <<>> /\ d.runtime # <<>>
<1>1. CASE raw.form = "absent"
  BY <1>1, DefaultType, NormalizeType DEF LoadDocument
<1>2. CASE raw.form # "absent"
  <2>1. LoadDocument(raw) = IF DecodeDocument(raw).ok
                            THEN Accepted(NormalizeDocument(DecodeDocument(raw).document))
                            ELSE Refused
    BY <1>2 DEF LoadDocument, Then
  <2>2. DecodeDocument(raw).ok
    BY <2>1 DEF Refused
  <2>3. PICK d: DecodeDocument(raw) = Accepted(d) /\ IsDocument(d)
    BY <2>2, DecodedValid
  <2>4. LoadDocument(raw) = Accepted(NormalizeDocument(d))
    BY <2>1, <2>2, <2>3 DEF Accepted
  <2>5. QED
    BY <2>3, <2>4, NormalizeType
<1>3. QED
  BY <1>1, <1>2

LEMMA CandidateValid ==
    ASSUME NEW raw, WellFormed(raw), Candidate(raw).ok
    PROVE \E d: Candidate(raw) = Accepted(d) /\ IsDocument(d) /\ ValidDocument(d)
<1>1. Candidate(raw) = IF DecodeDocument(raw).ok
                       THEN Checked(NormalizeDocument(DecodeDocument(raw).document))
                       ELSE Refused
  BY DEF Candidate, Then
<1>2. DecodeDocument(raw).ok
  BY <1>1 DEF Refused
<1>3. PICK d: DecodeDocument(raw) = Accepted(d) /\ IsDocument(d) /\ ValidDocument(d)
  BY <1>2, DecodedValid
<1>4. Candidate(raw) = Checked(d)
  BY <1>1, <1>2, <1>3, NormalizeFixed DEF Accepted
<1>5. QED
  BY <1>3, <1>4 DEF Checked

(* A valid document that is written down comes back as it was.              *)
LEMMA SavedComesBack ==
    ASSUME NEW d, IsDocument(d), ValidDocument(d)
    PROVE /\ LoadDocument(SaveDocument(d)) = Accepted(d)
          /\ Candidate(SaveDocument(d)) = Accepted(d)
          /\ WellFormed(SaveDocument(d))
<1> DEFINE raw == SaveDocument(d)
<1>1. raw.form = "v1" /\ raw.document = d
  BY DEF SaveDocument
<1> HIDE DEF raw
<1>2. d.version = 1 /\ NormalizeDocument(d) = d
  BY NormalizeFixed DEF ValidDocument
<1>3. DecodeDocument(raw) = Accepted(d)
  BY <1>1, <1>2 DEF DecodeDocument, Checked
<1>4. DecodeDocument(raw).ok /\ DecodeDocument(raw).document = d
  BY <1>3 DEF Accepted
<1>5. LoadDocument(raw) = Accepted(d)
  BY <1>1, <1>2, <1>4 DEF LoadDocument, Then
<1>6. Candidate(raw) = Accepted(d)
  BY <1>1, <1>2, <1>4 DEF Candidate, Then, Checked
<1>7. WellFormed(raw)
  BY <1>1 DEF WellFormed
<1>8. QED
  BY <1>5, <1>6, <1>7 DEF raw

-----------------------------------------------------------------------------
(* What the environment and the flags lay over a document.                  *)
LEMMA EnvironmentFields ==
    ASSUME NEW d, IsDocument(d), NEW e, ApplyEnvironment(d, e).ok
    PROVE /\ ApplyEnvironment(d, e) = Accepted(
              [version |-> d.version, bind |-> Given(Environment(e.bind, ""), "", d.bind),
               port |-> Given(Environment(e.port, Unset), Unset, d.port),
               agentPort |-> d.agentPort, ensure |-> BooleanOr(e.ensure, d.ensure),
               data |-> Given(Environment(e.data, <<>>), <<>>, d.data),
               runtime |-> Given(Environment(e.runtime, <<>>), <<>>, d.runtime),
               approve |-> Option(d, e),
               secretOption |-> d.secretOption, tuning |-> d.tuning])
          /\ OptionReadable(d, e)
  BY DEF ApplyEnvironment, Accepted, Refused, IsDocument

LEMMA FlagsFields ==
    ASSUME NEW d, IsDocument(d), NEW f, ApplyFlags(d, f).ok
    PROVE /\ ApplyFlags(d, f) = Accepted(
              [version |-> d.version, bind |-> LastGiven(f.bind, d.bind),
               port |-> LastGiven(f.port, d.port), agentPort |-> d.agentPort,
               ensure |-> IF f.ensure = <<>> THEN d.ensure
                          ELSE LastGiven(f.ensure, "") = "true",
               data |-> LastGiven(f.data, d.data), runtime |-> LastGiven(f.runtime, d.runtime),
               approve |-> LastGiven(f.approve, d.approve),
               secretOption |-> d.secretOption, tuning |-> d.tuning])
          /\ ~FlagsRefused(f)
  BY DEF ApplyFlags, Accepted, Refused, IsDocument

LEMMA LastOfFlag ==
    ASSUME NEW S, NEW values \in Seq(S), NEW other \in S
    PROVE LastGiven(values, other) \in S
  BY DEF LastGiven

(* What is resolved is a valid document, each of its settings laid over the *)
(* loaded one, and a blank directory replaced.                              *)
LaidOver(base, e, f, d) ==
    /\ d.bind = LastGiven(f.bind, Given(Environment(e.bind, ""), "", base.bind))
    /\ d.port = LastGiven(f.port, Given(Environment(e.port, Unset), Unset, base.port))
    /\ d.ensure = IF f.ensure = <<>> THEN BooleanOr(e.ensure, base.ensure)
                  ELSE LastGiven(f.ensure, "") = "true"
    /\ LET data == LastGiven(f.data, Given(Environment(e.data, <<>>), <<>>, base.data))
       IN  d.data = Given(data, <<>>, DefaultData)
    /\ LET runtime == LastGiven(f.runtime,
                                Given(Environment(e.runtime, <<>>), <<>>, base.runtime))
       IN  d.runtime = Given(runtime, <<>>, RunOf(d.data))
    /\ d.approve = LastGiven(f.approve, Option(base, e))

Resolved(texts, e, f, base, d) ==
    /\ LoadDocument(texts[ConfigurationPath(e, f)]) = Accepted(base)
    /\ OptionReadable(base, e) /\ ~FlagsRefused(f)
    /\ Resolve(texts, e, f) = Accepted(d)
    /\ IsDocument(d) /\ ValidDocument(d) /\ d.data \in DataDirectories
    /\ LaidOver(base, e, f, d)

LEMMA ResolvedFields ==
    ASSUME NEW texts, NEW input, WellGiven(input),
           \A p \in Paths: WellFormed(texts[p]),
           Resolve(texts, input.environment, input.flags).ok
    PROVE \E base, d: Resolved(texts, input.environment, input.flags, base, d)
<1> DEFINE e == input.environment
           f == input.flags
           raw == texts[ConfigurationPath(e, f)]
           loaded == LoadDocument(raw)
           environed == Then(loaded, LAMBDA d: ApplyEnvironment(d, e))
           flagged == Then(environed, LAMBDA d: ApplyFlags(d, f))
<1>1. Resolve(texts, e, f) = Then(flagged, LAMBDA d: Checked(NormalizeDocument(d)))
  BY DEF Resolve, Refused
<1>2. flagged.ok /\ Resolve(texts, e, f) = Checked(NormalizeDocument(flagged.document))
  BY <1>1 DEF Then, Refused
<1>3. environed.ok /\ flagged = ApplyFlags(environed.document, f)
  BY <1>2 DEF Then, Refused
<1>4. loaded.ok /\ environed = ApplyEnvironment(loaded.document, e)
  BY <1>3 DEF Then, Refused
<1>5. WellFormed(raw)
  BY DEF WellGiven
<1>6. PICK base: /\ loaded = Accepted(base) /\ IsDocument(base)
                 /\ base.data # <<>> /\ base.runtime # <<>>
  BY <1>4, <1>5, LoadedType
<1>7. loaded.document = base
  BY <1>6 DEF Accepted
<1> HIDE DEF loaded, environed, flagged, raw, e, f
<1>8. ApplyEnvironment(base, e).ok
  BY <1>3, <1>4, <1>7
<1> DEFINE d1 == [version |-> base.version,
                  bind |-> Given(Environment(e.bind, ""), "", base.bind),
                  port |-> Given(Environment(e.port, Unset), Unset, base.port),
                  agentPort |-> base.agentPort, ensure |-> BooleanOr(e.ensure, base.ensure),
                  data |-> Given(Environment(e.data, <<>>), <<>>, base.data),
                  runtime |-> Given(Environment(e.runtime, <<>>), <<>>, base.runtime),
                  approve |-> Option(base, e),
                  secretOption |-> base.secretOption, tuning |-> base.tuning]
<1>9. environed = Accepted(d1) /\ OptionReadable(base, e)
  <2>1. environed = ApplyEnvironment(base, e)
    BY <1>4, <1>7
  <2>2. QED
    BY <2>1, <1>6, <1>8, EnvironmentFields, Zenon
<1>10. IsDocument(d1)
  <2>1. Given(Environment(e.data, <<>>), <<>>, base.data) \in DataDirectories \union {<<>>}
    BY <1>6 DEF IsDocument, WellGiven, Given, e
  <2>2. QED
    BY <2>1, <1>6 DEF IsDocument
<1>11. environed.document = d1
  BY <1>9 DEF Accepted
<1> DEFINE d2 == [version |-> d1.version, bind |-> LastGiven(f.bind, d1.bind),
                  port |-> LastGiven(f.port, d1.port), agentPort |-> d1.agentPort,
                  ensure |-> IF f.ensure = <<>> THEN d1.ensure
                             ELSE LastGiven(f.ensure, "") = "true",
                  data |-> LastGiven(f.data, d1.data),
                  runtime |-> LastGiven(f.runtime, d1.runtime),
                  approve |-> LastGiven(f.approve, d1.approve),
                  secretOption |-> d1.secretOption, tuning |-> d1.tuning]
<1> HIDE DEF d1
<1>12. flagged = Accepted(d2) /\ ~FlagsRefused(f)
  <2>1. flagged = ApplyFlags(d1, f) /\ ApplyFlags(d1, f).ok
    BY <1>2, <1>3, <1>11
  <2>2. QED
    BY <2>1, <1>10, FlagsFields, Zenon
<1>13. IsDocument(d2)
  <2>1. LastGiven(f.data, d1.data) \in DataDirectories \union {<<>>}
    BY <1>10, LastOfFlag DEF IsDocument, WellGiven, f
  <2>2. QED
    BY <2>1, <1>10 DEF IsDocument
<1>14. flagged.document = d2
  BY <1>12 DEF Accepted
<1>15. /\ d1.bind = Given(Environment(e.bind, ""), "", base.bind)
       /\ d1.port = Given(Environment(e.port, Unset), Unset, base.port)
       /\ d1.ensure = BooleanOr(e.ensure, base.ensure)
       /\ d1.data = Given(Environment(e.data, <<>>), <<>>, base.data)
       /\ d1.runtime = Given(Environment(e.runtime, <<>>), <<>>, base.runtime)
       /\ d1.approve = Option(base, e)
  BY Zenon DEF d1
<1>16. /\ d2.bind = LastGiven(f.bind, d1.bind) /\ d2.port = LastGiven(f.port, d1.port)
       /\ d2.ensure = IF f.ensure = <<>> THEN d1.ensure ELSE LastGiven(f.ensure, "") = "true"
       /\ d2.data = LastGiven(f.data, d1.data) /\ d2.runtime = LastGiven(f.runtime, d1.runtime)
       /\ d2.approve = LastGiven(f.approve, d1.approve)
  BY Zenon DEF d2
<1> HIDE DEF d2
<1> DEFINE d == NormalizeDocument(d2)
<1>17. IsDocument(d) /\ d.data \in DataDirectories /\ LaidOver(base, e, f, d)
  <2>1. IsDocument(d) /\ d.data \in DataDirectories
    BY <1>13, NormalizeType
  <2>2. /\ d.bind = d2.bind /\ d.port = d2.port /\ d.ensure = d2.ensure
        /\ d.data = DataOf(d2) /\ d.runtime = RuntimeOf(d2) /\ d.approve = d2.approve
    BY <1>13, NormalizeFields
  <2> HIDE DEF d
  <2>3. d.bind = LastGiven(f.bind, Given(Environment(e.bind, ""), "", base.bind))
    BY <1>15, <1>16, <2>2, Zenon
  <2>4. d.data = Given(LastGiven(f.data, Given(Environment(e.data, <<>>), <<>>, base.data)),
                       <<>>, DefaultData)
    BY <1>15, <1>16, <2>2, Zenon DEF DataOf
  <2>5. d.runtime = Given(LastGiven(f.runtime,
                              Given(Environment(e.runtime, <<>>), <<>>, base.runtime)),
                          <<>>, RunOf(d.data))
    BY <1>15, <1>16, <2>2, Zenon DEF DataOf, RuntimeOf
  <2>6. d.approve = LastGiven(f.approve, Option(base, e))
    BY <1>15, <1>16, <2>2, Zenon
  <2>7. d.port = LastGiven(f.port, Given(Environment(e.port, Unset), Unset, base.port))
    BY <1>15, <1>16, <2>2, Zenon
  <2>8. d.ensure = IF f.ensure = <<>> THEN BooleanOr(e.ensure, base.ensure)
                   ELSE LastGiven(f.ensure, "") = "true"
    BY <1>15, <1>16, <2>2, Zenon
  <2>9. QED
    BY <2>1, <2>3, <2>4, <2>5, <2>6, <2>7, <2>8, Zenon DEF LaidOver
<1>18. Resolve(texts, e, f) = Accepted(d) /\ ValidDocument(d)
  <2>1. Resolve(texts, e, f) = Checked(d)
    BY <1>2, <1>14
  <2>2. Checked(d).ok
    BY <2>1 DEF e, f
  <2>3. QED
    BY <2>1, <2>2, CheckedValid
<1>19. LoadDocument(texts[ConfigurationPath(e, f)]) = Accepted(base)
  BY <1>6 DEF loaded, raw
<1> HIDE DEF d
<1>20. QED
  BY <1>9, <1>12, <1>17, <1>18, <1>19 DEF e, f, Resolved

-----------------------------------------------------------------------------
LEMMA FirstOfFour ==
    ASSUME NEW a, NEW b, NEW c, NEW d
    PROVE FirstGiven(<<a, b, c, d>>) = Given(a, <<>>, Given(b, <<>>, Given(c, <<>>, d)))
<1> DEFINE s == <<a, b, c, d>>
           Chosen(k) == (s[k] # <<>> \/ k = 4) /\ \A j \in 1..(k - 1): s[j] = <<>>
<1>1. DOMAIN s = 1..4 /\ Len(s) = 4
  OBVIOUS
<1>2. FirstGiven(s) = s[CHOOSE k \in 1..4: Chosen(k)]
  BY <1>1 DEF FirstGiven
<1>3. \E k \in 1..4: Chosen(k)
  <2>1. a # <<>> => Chosen(1)
    OBVIOUS
  <2>2. a = <<>> /\ b # <<>> => Chosen(2)
    OBVIOUS
  <2>3. a = <<>> /\ b = <<>> /\ c # <<>> => Chosen(3)
    OBVIOUS
  <2>4. a = <<>> /\ b = <<>> /\ c = <<>> => Chosen(4)
    OBVIOUS
  <2> HIDE DEF Chosen
  <2>5. QED
    BY <2>1, <2>2, <2>3, <2>4
<1>4. \A k \in 1..4: Chosen(k) => s[k] = Given(a, <<>>, Given(b, <<>>, Given(c, <<>>, d)))
  BY DEF Given
<1> HIDE DEF Chosen
<1>5. QED
  BY <1>2, <1>3, <1>4

(* The layers one after another are the flag laid over the variables, laid  *)
(* over the document.                                                       *)
LEMMA LayersLaidOver ==
    ASSUME NEW flag, NEW variable, NEW none, NEW base
    PROVE Layered(flag, variable, none, base) =
              LastGiven(flag, Given(Environment(variable, none), none, base))
<1> DEFINE a == Said(variable.primary, none)
           b == Said(variable.legacy, none)
           c == Given(a, <<>>, Given(b, <<>>, <<base>>))
           values == Given(flag, <<>>, c)
<1>1. Layered(flag, variable, none, base) = values[Len(values)]
  <2>1. FirstGiven(<<flag, a, b, <<base>>>>) = values
    BY FirstOfFour
  <2> HIDE DEF values, c
  <2>2. QED
    BY <2>1, Zenon DEF Layered
<1>2. c = <<Given(Environment(variable, none), none, base)>>
  BY DEF Given, Environment, Said
<1>3. c[Len(c)] = Given(Environment(variable, none), none, base)
  BY <1>2
<1>4. CASE flag = <<>>
  <2>1. values = c
    BY <1>4 DEF Given
  <2>2. LastGiven(flag, Given(Environment(variable, none), none, base)) =
            Given(Environment(variable, none), none, base)
    BY <1>4, Zenon DEF LastGiven
  <2> HIDE DEF values, c
  <2>3. QED
    BY <1>1, <1>3, <2>1, <2>2
<1>5. CASE flag # <<>>
  <2>1. values = flag
    BY <1>5, Zenon DEF Given
  <2> HIDE DEF values, c
  <2>2. QED
    BY <1>1, <1>5, <2>1, Zenon DEF LastGiven
<1>6. QED
  BY <1>4, <1>5

-----------------------------------------------------------------------------
(* What the configuration files hold, what was applied to them, and what    *)
(* was shown, which is of the files as they still are.                      *)
FilesInv == \A p \in Paths: WellFormed(files[p])

AppliedInv ==
    \A p \in Paths: applied[p].ok =>
        \E d: /\ IsDocument(d) /\ ValidDocument(d)
              /\ applied[p] = Accepted(d) /\ files[p] = SaveDocument(d)

ShownInv ==
    shown # <<>> =>
        \E input \in Inputs:
            shown = [environment |-> input.environment, flags |-> input.flags,
                     result |-> Resolve(files, input.environment, input.flags)]

ConfigurationInv ==
    /\ DOMAIN files = Paths /\ DOMAIN applied = Paths
    /\ FilesInv /\ AppliedInv /\ ShownInv

LEMMA ConfigurationInit == Init => ConfigurationInv
<1>1. WellFormed([form |-> "absent"])
  BY DEF WellFormed
<1>2. QED
  BY <1>1 DEF Init, ConfigurationInv, FilesInv, AppliedInv, ShownInv, Refused

LEMMA ConfigurationStep == ConfigurationInv /\ [Next]_vars => ConfigurationInv'
<1> SUFFICES ASSUME ConfigurationInv, [Next]_vars PROVE ConfigurationInv'
  OBVIOUS
<1> USE DEF ConfigurationInv
<1>1. ASSUME NEW p \in Paths, NEW raw \in Raws, Edit(p, raw)
      PROVE ConfigurationInv'
  <2>1. FilesInv'
    BY <1>1, StartupAssumption DEF Edit, FilesInv
  <2>2. AppliedInv'
    BY <1>1 DEF Edit, AppliedInv, Refused
  <2>3. QED
    BY <1>1, <2>1, <2>2 DEF Edit, ShownInv
<1>2. ASSUME NEW p \in Paths, NEW raw \in Raws, Apply(p, raw)
      PROVE ConfigurationInv'
  <2>1. PICK d: Candidate(raw) = Accepted(d) /\ IsDocument(d) /\ ValidDocument(d)
    BY <1>2, StartupAssumption, CandidateValid DEF Apply
  <2>2. /\ files' = [files EXCEPT ![p] = SaveDocument(d)]
        /\ applied' = [applied EXCEPT ![p] = Accepted(d)]
    BY <1>2, <2>1 DEF Apply, Accepted
  <2>3. FilesInv'
    BY <2>1, <2>2, SavedComesBack DEF FilesInv
  <2>4. AppliedInv'
    BY <2>1, <2>2 DEF AppliedInv
  <2>5. QED
    BY <1>2, <2>2, <2>3, <2>4 DEF Apply, ShownInv
<1>3. ASSUME NEW input \in Inputs, Show(input)
      PROVE ConfigurationInv'
  BY <1>3 DEF Show, FilesInv, AppliedInv, ShownInv
<1>4. ASSUME NEW d \in Daemons, NEW input \in Starts, Start(d, input)
      PROVE ConfigurationInv'
  BY <1>4 DEF Start, FilesInv, AppliedInv, ShownInv
<1>5. ASSUME UNCHANGED configuration PROVE ConfigurationInv'
  BY <1>5 DEF configuration, FilesInv, AppliedInv, ShownInv
<1>6. ASSUME NEW d \in Daemons, Migrate(d) PROVE UNCHANGED configuration
  BY <1>6 DEF Migrate, LookForCopy, LegacyFileUnreadable, WriteCopy
<1>7. ASSUME NEW d \in Daemons, Ends(d) PROVE UNCHANGED configuration
  BY <1>7 DEF Ends
<1>8. ASSUME NEW d \in Daemons, NEW name \in Secrets,
             \/ SecretElsewhere(d, name) \/ SecretRead(d, name) \/ SecretGenerate(d, name)
             \/ SecretCreate(d, name) \/ SecretFill(d, name) \/ SecretCloses(d, name)
             \/ SecretFails(d, name)
      PROVE UNCHANGED configuration
  BY <1>8 DEF SecretElsewhere, SecretRead, SecretGenerate, SecretCreate, SecretFill,
     SecretCloses, SecretFails
<1>9. CASE UNCHANGED vars
  BY <1>5, <1>9 DEF vars
<1>10. QED
  BY <1>1, <1>2, <1>3, <1>4, <1>5, <1>6, <1>7, <1>8, <1>9 DEF Next

LEMMA ConfigurationInvariant == Spec => []ConfigurationInv
  BY ConfigurationInit, ConfigurationStep, PTL DEF Spec

LEMMA ShownLayers == ConfigurationInv => LayersRespected
<1> SUFFICES ASSUME ConfigurationInv, shown # <<>>, shown.result.ok
             PROVE LayersRespected
  BY DEF LayersRespected
<1>1. PICK input \in Inputs:
          shown = [environment |-> input.environment, flags |-> input.flags,
                   result |-> Resolve(files, input.environment, input.flags)]
  BY DEF ConfigurationInv, ShownInv
<1> DEFINE e == input.environment
           f == input.flags
<1>2. WellGiven(input) /\ Resolve(files, e, f).ok
  BY <1>1, StartupAssumption
<1>3. PICK base, d: Resolved(files, e, f, base, d)
  BY <1>2, ResolvedFields DEF ConfigurationInv, FilesInv
<1>4. /\ shown.environment = e /\ shown.flags = f /\ shown.result.document = d
      /\ LoadDocument(files[ConfigurationPath(e, f)]).document = base
  <2>1. shown.environment = e /\ shown.flags = f /\ shown.result = Resolve(files, e, f)
    BY <1>1
  <2> HIDE DEF e, f
  <2>2. QED
    BY <2>1, <1>3, AcceptedDocument, Zenon DEF Resolved
<1> HIDE DEF e, f
<1>5. /\ d.bind = Layered(f.bind, e.bind, "", base.bind) /\ d.bind # ""
      /\ d.port = Layered(f.port, e.port, Unset, base.port)
  BY <1>3, LayersLaidOver, Zenon DEF Resolved, LaidOver, ValidDocument
<1> DEFINE data == Layered(f.data, e.data, <<>>, base.data)
<1>6. d.data = Given(data, <<>>, DefaultData)
  BY <1>3, LayersLaidOver, Zenon DEF Resolved, LaidOver
<1> DEFINE runtime == Layered(f.runtime, e.runtime, <<>>, base.runtime)
<1>7. d.runtime = Given(runtime, <<>>, RunOf(d.data))
  BY <1>3, LayersLaidOver, Zenon DEF Resolved, LaidOver
<1> HIDE DEF data, runtime
<1> DEFINE word == Layered(f.ensure, e.ensure, "", "")
<1>8. \A k \in {"ensure", "approve"}:
          f[k] # <<>> => \A other: LastGiven(f[k], other) = LastGiven(f[k], "")
                                   /\ LastGiven(f[k], "") \in {"true", "false"}
  <2>1. /\ f.ensure \in Seq(STRING) /\ FlagReadable(f.ensure)
        /\ f.approve \in Seq(STRING) /\ FlagReadable(f.approve)
    BY <1>2, <1>3 DEF Resolved, FlagsRefused, WellGiven, f
  <2>2. \A words \in Seq(STRING): words # <<>> => Len(words) \in DOMAIN words
    OBVIOUS
  <2>3. QED
    BY <2>1, <2>2 DEF LastGiven, FlagReadable
<1>9. d.ensure = IF word = "" THEN base.ensure ELSE word \in TrueWords
  <2>1. word = LastGiven(f.ensure, Given(Environment(e.ensure, ""), "", ""))
    BY LayersLaidOver, Zenon
  <2>2. Given(Environment(e.ensure, ""), "", "") = Environment(e.ensure, "")
    BY Zenon DEF Given
  <2> HIDE DEF word
  <2>3. CASE f.ensure = <<>>
    <3>1. word = Environment(e.ensure, "") /\ d.ensure = BooleanOr(e.ensure, base.ensure)
      BY <1>3, <2>1, <2>2, <2>3, Zenon DEF Resolved, LaidOver, LastGiven
    <3>2. QED
      BY <3>1, Zenon DEF BooleanOr
  <2>4. CASE f.ensure # <<>>
    <3>1. word \in {"true", "false"}
      BY <1>8, <2>1, <2>4
    <3>2. d.ensure = (word = "true")
      BY <1>3, <1>8, <2>1, <2>4 DEF Resolved, LaidOver
    <3>3. (word = "true") = (word \in TrueWords)
      BY <3>1 DEF TrueWords
    <3>4. d.ensure = (word \in TrueWords)
      BY <3>2, <3>3
    <3>5. word # ""
      BY <3>1
    <3>6. QED
      BY <3>4, <3>5, Zenon
  <2>5. QED
    BY <2>3, <2>4
<1> HIDE DEF word
<1> DEFINE option == Layered(f.approve, e.approve, "", base.approve)
<1>10. d.approve = "true" <=> option \in TrueWords
  <2>1. option = LastGiven(f.approve, Given(Environment(e.approve, ""), "", base.approve))
    BY LayersLaidOver, Zenon
  <2>2. d.approve = LastGiven(f.approve, Option(base, e))
    BY <1>3 DEF Resolved, LaidOver
  <2> HIDE DEF option
  <2>3. CASE f.approve = <<>>
    <3>1. base.approve \in {"", "true", "false"}
      BY <1>3 DEF Resolved, OptionReadable
    <3>2. Option(base, e) = "true" <=>
              Given(Environment(e.approve, ""), "", base.approve) \in TrueWords
      BY <3>1 DEF Option, BooleanOr, Given, TrueWords
    <3>3. /\ d.approve = Option(base, e)
          /\ option = Given(Environment(e.approve, ""), "", base.approve)
      BY <2>1, <2>2, <2>3, Zenon DEF LastGiven
    <3>4. QED
      BY <3>2, <3>3, Zenon
  <2>4. CASE f.approve # <<>>
    <3>1. d.approve = option
      BY <1>8, <2>1, <2>2, <2>4
    <3>2. option = "true" <=> option \in TrueWords
      BY <1>8, <2>1, <2>4 DEF TrueWords
    <3>3. QED
      BY <3>1, <3>2, Zenon
  <2>5. QED
    BY <2>3, <2>4
<1> HIDE DEF option
<1>11. QED
  BY <1>4, <1>5, <1>6, <1>7, <1>9, <1>10 DEF LayersRespected, data, runtime, word, option

LEMMA ShownRoundTrip == ConfigurationInv => SettingsRoundTrip
<1> SUFFICES ASSUME ConfigurationInv PROVE SettingsRoundTrip
  OBVIOUS
<1>1. ASSUME NEW p \in Paths, applied[p].ok PROVE LoadDocument(files[p]) = applied[p]
  BY <1>1, SavedComesBack DEF ConfigurationInv, AppliedInv
<1>2. ASSUME shown # <<>>, shown.result.ok
      PROVE LET raw == SaveDocument(shown.result.document)
            IN  /\ Candidate(raw) = shown.result
                /\ Resolve([p \in Paths |-> raw], NoEnvironment, Plain) = shown.result
  <2>1. PICK input \in Inputs:
            shown = [environment |-> input.environment, flags |-> input.flags,
                     result |-> Resolve(files, input.environment, input.flags)]
    BY <1>2 DEF ConfigurationInv, ShownInv
  <2>2. shown.result = Resolve(files, input.environment, input.flags) /\ WellGiven(input)
    BY <2>1, StartupAssumption
  <2>3. PICK base, d: Resolved(files, input.environment, input.flags, base, d)
    BY <1>2, <2>2, ResolvedFields DEF ConfigurationInv, FilesInv
  <2>4. /\ shown.result = Accepted(d) /\ IsDocument(d) /\ ValidDocument(d)
        /\ d.approve = LastGiven(input.flags.approve, Option(base, input.environment))
    BY <2>2, <2>3, Zenon DEF Resolved, LaidOver
  <2>5. d.approve \in {"true", "false"}
    <3>1. Option(base, input.environment) \in {"true", "false"}
      BY DEF Option
    <3>2. input.flags.approve \in Seq(STRING) /\ FlagReadable(input.flags.approve)
      BY <2>2, <2>3 DEF Resolved, FlagsRefused, WellGiven
    <3>3. QED
      BY <2>4, <3>1, <3>2 DEF LastGiven, FlagReadable
  <2> DEFINE raw == SaveDocument(d)
             texts == [p \in Paths |-> raw]
  <2>6. ConfigurationPath(NoEnvironment, Plain) = "config.json"
    <3>1. Plain.config = <<>> /\ NoEnvironment.config = ""
      BY DEF Plain, NoEnvironment
    <3>2. QED
      BY <3>1, Zenon DEF ConfigurationPath, LastGiven, Given
  <2>7. texts["config.json"] = raw
    BY StartupAssumption
  <2>8. LoadDocument(raw) = Accepted(d) /\ Candidate(raw) = Accepted(d)
    BY <2>4, SavedComesBack
  <2>9. ApplyEnvironment(d, NoEnvironment) = Accepted(d)
    <3>1. ApplyEnvironment(d, NoEnvironment).ok
      <4>1. Environment(NoEnvironment.port, Unset) # NotANumber
        BY DEF NoEnvironment, Unnamed, Environment, Given, Unset, NotANumber
      <4>2. BooleanReadable(NoEnvironment.ensure) /\ BooleanReadable(NoEnvironment.approve)
        BY DEF NoEnvironment, Unnamed, BooleanReadable, Environment, Given
      <4>3. OptionReadable(d, NoEnvironment)
        BY <2>5, <4>2 DEF OptionReadable
      <4>4. QED
        BY <4>1, <4>2, <4>3, AcceptedDocument, Zenon DEF ApplyEnvironment
    <3>2. Option(d, NoEnvironment) = d.approve
      BY <2>5 DEF Option, BooleanOr, Environment, NoEnvironment, Unnamed, Given
    <3>3. BooleanOr(NoEnvironment.ensure, d.ensure) = d.ensure
      BY DEF BooleanOr, Environment, NoEnvironment, Unnamed, Given
    <3>4. /\ Given(Environment(NoEnvironment.bind, ""), "", d.bind) = d.bind
          /\ Given(Environment(NoEnvironment.port, Unset), Unset, d.port) = d.port
          /\ Given(Environment(NoEnvironment.data, <<>>), <<>>, d.data) = d.data
          /\ Given(Environment(NoEnvironment.runtime, <<>>), <<>>, d.runtime) = d.runtime
      BY DEF NoEnvironment, Unnamed, Given, Environment, Unset
    <3>5. ApplyEnvironment(d, NoEnvironment) = Accepted(
              [version |-> d.version, bind |-> d.bind, port |-> d.port,
               agentPort |-> d.agentPort, ensure |-> d.ensure, data |-> d.data,
               runtime |-> d.runtime, approve |-> d.approve,
               secretOption |-> d.secretOption, tuning |-> d.tuning])
      <4> DEFINE ensure == BooleanOr(NoEnvironment.ensure, d.ensure)
                 approve == Option(d, NoEnvironment)
                 bind == Given(Environment(NoEnvironment.bind, ""), "", d.bind)
                 port == Given(Environment(NoEnvironment.port, Unset), Unset, d.port)
                 data == Given(Environment(NoEnvironment.data, <<>>), <<>>, d.data)
                 runtime == Given(Environment(NoEnvironment.runtime, <<>>), <<>>, d.runtime)
      <4>1. ApplyEnvironment(d, NoEnvironment) = Accepted(
                [version |-> d.version, bind |-> bind, port |-> port,
                 agentPort |-> d.agentPort, ensure |-> ensure, data |-> data,
                 runtime |-> runtime, approve |-> approve,
                 secretOption |-> d.secretOption, tuning |-> d.tuning])
        BY <2>4, <3>1, EnvironmentFields, Zenon
      <4>2. /\ ensure = d.ensure /\ approve = d.approve /\ bind = d.bind
            /\ port = d.port /\ data = d.data /\ runtime = d.runtime
        BY <3>2, <3>3, <3>4
      <4> HIDE DEF ensure, approve, bind, port, data, runtime
      <4>3. QED
        BY <4>1, <4>2, Zenon
    <3>6. QED
      BY <2>4, <3>5, Zenon DEF IsDocument
  <2>10. ApplyFlags(d, Plain) = Accepted(d)
    <3>1. ApplyFlags(d, Plain).ok
      <4>1. ~FlagsRefused(Plain)
        BY DEF FlagsRefused, FlagReadable, Plain
      <4>2. QED
        BY <4>1, AcceptedDocument, Zenon DEF ApplyFlags
    <3>2. /\ LastGiven(Plain.bind, d.bind) = d.bind /\ LastGiven(Plain.port, d.port) = d.port
          /\ LastGiven(Plain.data, d.data) = d.data
          /\ LastGiven(Plain.runtime, d.runtime) = d.runtime
          /\ LastGiven(Plain.approve, d.approve) = d.approve
          /\ Plain.ensure = <<>>
      BY DEF Plain, LastGiven
    <3>3. QED
      BY <2>4, <3>1, <3>2, FlagsFields DEF IsDocument
  <2>11. Checked(NormalizeDocument(d)) = Accepted(d)
    BY <2>4, NormalizeFixed DEF Checked
  <2> HIDE DEF texts, raw
  <2>12. Resolve(texts, NoEnvironment, Plain) = Accepted(d)
    <3>1. ~ \E k \in DOMAIN Plain.config: Plain.config[k] = ""
      BY DEF Plain
    <3>2. Then(LoadDocument(raw), LAMBDA x: ApplyEnvironment(x, NoEnvironment)) = Accepted(d)
      BY <2>8, <2>9, AcceptedDocument DEF Then
    <3>3. Then(Accepted(d), LAMBDA x: ApplyFlags(x, Plain)) = Accepted(d)
      BY <2>10, AcceptedDocument DEF Then
    <3>4. Then(Accepted(d), LAMBDA x: Checked(NormalizeDocument(x))) = Accepted(d)
      BY <2>11, AcceptedDocument DEF Then
    <3>5. QED
      BY <3>1, <3>2, <3>3, <3>4, <2>6, <2>7 DEF Resolve
  <2>13. QED
    BY <2>4, <2>8, <2>12, AcceptedDocument DEF texts, raw
<1>3. QED
  BY <1>1, <1>2, Zenon DEF SettingsRoundTrip

-----------------------------------------------------------------------------
(* Where a daemon can be, and which of these are past what.                 *)
Migrating == {"look", "write"} \X {"archive", "loops", "pairing"}
Starting == {"read", "create", "fill", "close"} \X Secrets
PastPairing == {Ready} \union ({"read", "create", "fill", "close"} \X {"agent"})
PastMigration == {Ready} \union Starting
PastLoops == PastMigration \union ({"look", "write"} \X {"pairing"})
PastArchive == PastLoops \union ({"look", "write"} \X {"loops"})

Keeps(d) == OnDisk(d, "pairing")
Carries(directory, name) == directory # LegacyData /\ legacy[name] # Absent
Whole(content) == content \notin {Absent, Torn}

Archives == {Absent, Torn, LegacyContent, Converted}

TypeOK ==
    /\ legacy \in LegacyDisks
    /\ disk \in [DataDirectories -> [Names -> Nat]]
    /\ \A directory \in DataDirectories: disk[directory]["archive"] \in Archives
    /\ \A d \in Daemons: step[d] = <<"write", "archive">> => copy[d] \in Archives
    /\ step \in [Daemons -> {Stopped, Ready} \union Migrating \union Starting]
    /\ DOMAIN settings = Daemons
    /\ \A d \in Daemons: step[d] # Stopped => Data(d) \in DataDirectories
    /\ copy \in [Daemons -> Nat]
    /\ secrets \in [Daemons -> [Secrets -> Nat]]
    /\ used \in [DataDirectories -> SUBSET Nat]
    /\ generated \in Nat /\ faults \in Nat

(* A daemon copies only files of the earlier program, into other            *)
(* directories than its own.                                                *)
Copying(d) ==
    \A name \in {"archive", "loops", "pairing"}:
        /\ step[d] \in {<<"look", name>>, <<"write", name>>} =>
               Data(d) # LegacyData /\ (name = "pairing" => Keeps(d))
        /\ step[d] = <<"write", name>> =>
               /\ name # "archive" => legacy[name] # Absent
               /\ copy[d] = IF name = "archive" THEN Converted ELSE legacy[name]

(* What it is past it has carried over.                                     *)
Carried(d) ==
    /\ step[d] \in PastArchive /\ Carries(Data(d), "archive") =>
           disk[Data(d)]["archive"] = Converted
    /\ step[d] \in PastLoops /\ Data(d) # LegacyData =>
           disk[Data(d)]["loops"] = legacy["loops"]
    /\ step[d] \in PastMigration /\ Keeps(d) /\ Carries(Data(d), "pairing") =>
           disk[Data(d)]["pairing"] = legacy["pairing"]

(* It makes a pairing secret where there is none to carry over, and goes on *)
(* with what the file holds.                                                *)
Making(d) ==
    /\ step[d] \in {"create", "fill", "close"} \X {"pairing"} =>
           Keeps(d) /\ ~Carries(Data(d), "pairing") /\ Whole(copy[d])
    /\ step[d] = <<"fill", "pairing">> => disk[Data(d)]["pairing"] = Torn
    /\ step[d] = <<"close", "pairing">> => disk[Data(d)]["pairing"] = copy[d]
    /\ step[d] \in PastPairing /\ Keeps(d) =>
           /\ secrets[d]["pairing"] = disk[Data(d)]["pairing"]
           /\ Whole(disk[Data(d)]["pairing"])

DaemonInv(d) == Copying(d) /\ Carried(d) /\ Making(d)

(* A data directory other than the earlier program's holds its files or     *)
(* none; and the one secret that was used is the one in the file.           *)
DirectoryInv(directory) ==
    /\ directory # LegacyData =>
           /\ disk[directory]["archive"] \in {Absent, Converted}
           /\ disk[directory]["loops"] \in {Absent, legacy["loops"]}
    /\ Carries(directory, "pairing") =>
           disk[directory]["pairing"] \in {Absent, legacy["pairing"]}
    /\ used[directory] # {} =>
           /\ used[directory] = {disk[directory]["pairing"]}
           /\ Whole(disk[directory]["pairing"])

(* One daemon fills the file of a pairing secret: the one that created it.  *)
OneMaker ==
    \A c, d \in Daemons:
        step[c] = <<"fill", "pairing">> /\ step[d] = <<"fill", "pairing">> /\ Data(c) = Data(d)
            => c = d

Faultless ==
    /\ \A d \in Daemons: DaemonInv(d)
    /\ \A directory \in DataDirectories: DirectoryInv(directory)
    /\ OneMaker

StartInv == TypeOK /\ (faults = 0 => Faultless)

LEMMA StartInit == Init => StartInv
<1> SUFFICES ASSUME Init PROVE StartInv
  OBVIOUS
<1>1. legacy \in LegacyDisks /\ legacy \in [Names -> Nat] /\ legacy["archive"] \in Archives
  BY StartupAssumption DEF Init, Archives
<1>2. /\ disk \in [DataDirectories -> [Names -> Nat]]
      /\ \A directory \in DataDirectories: disk[directory]["archive"] \in Archives
  BY <1>1 DEF Init, Names, Nothing, Absent, Archives
<1>3. \A d \in Daemons: step[d] = Stopped
  BY DEF Init
<1>4. TypeOK
  BY <1>1, <1>2, <1>3 DEF Init, TypeOK, NoSecrets, Absent, Stopped
<1>5. ASSUME NEW d \in Daemons PROVE DaemonInv(d)
  <2>1. /\ step[d] \notin PastArchive /\ step[d] \notin PastLoops
        /\ step[d] \notin PastMigration /\ step[d] \notin PastPairing
        /\ step[d] \notin {"create", "fill", "close"} \X {"pairing"}
    BY <1>3 DEF Stopped, Ready, PastArchive, PastLoops, PastMigration, PastPairing,
       Starting
  <2>2. QED
    BY <1>3, <2>1 DEF DaemonInv, Copying, Carried, Making, Stopped
<1>6. ASSUME NEW directory \in DataDirectories PROVE DirectoryInv(directory)
  BY DEF Init, DirectoryInv, Nothing, Names, Carries
<1>7. OneMaker
  BY <1>3 DEF OneMaker, Stopped
<1>8. QED
  BY <1>4, <1>5, <1>6, <1>7 DEF StartInv, Faultless

(* Where a daemon goes after a file.                                        *)
LEMMA CopyPlaces ==
    ASSUME NEW d, NEW name \in {"archive", "loops", "pairing"}
    PROVE /\ AfterCopy(d, name) \in Migrating \union Starting
          /\ AfterCopy(d, name) # <<"write", "archive">>
          /\ AfterCopy(d, name) # <<"fill", "pairing">>
<1>1. AfterCopy(d, name) \in {<<"look", "loops">>, <<"look", "pairing">>, <<"read", "pairing">>}
  BY DEF AfterCopy
<1>2. /\ <<"look", "loops">> \in Migrating /\ <<"look", "pairing">> \in Migrating
      /\ <<"read", "pairing">> \in Starting
  BY DEF Migrating, Starting, Secrets
<1>3. QED
  BY <1>1, <1>2

LEMMA TypeStep == ConfigurationInv /\ TypeOK /\ [Next]_vars => TypeOK'
<1> SUFFICES ASSUME ConfigurationInv, TypeOK, [Next]_vars PROVE TypeOK'
  OBVIOUS
<1> USE DEF TypeOK
<1>0. /\ <<"read", "pairing">> \in Starting /\ <<"read", "agent">> \in Starting
      /\ \A name \in {"archive", "loops", "pairing"}: <<"write", name>> \in Migrating
      /\ <<"look", "loops">> \in Migrating /\ <<"look", "pairing">> \in Migrating
      /\ <<"look", "archive">> \in Migrating
      /\ \A name \in Secrets: <<"create", name>> \in Starting /\ <<"fill", name>> \in Starting
                              /\ <<"close", name>> \in Starting
  BY DEF Migrating, Starting, Secrets
<1>1. CASE (\E p \in Paths, raw \in Raws: Edit(p, raw) \/ Apply(p, raw))
           \/ (\E input \in Inputs: Show(input)) \/ UNCHANGED vars
  BY <1>1 DEF Edit, Apply, Show, vars, storage, daemons, Data
<1>2. ASSUME NEW d \in Daemons, NEW input \in Starts, Start(d, input) PROVE TypeOK'
  <2>1. Resolve(files, input.environment, input.flags).document.data \in DataDirectories
    <3>1. /\ Resolve(files, input.environment, input.flags).ok /\ WellGiven(input)
          /\ \A p \in Paths: WellFormed(files[p])
      BY <1>2, StartupAssumption DEF Start, ConfigurationInv, FilesInv
    <3>2. PICK base, document: Resolved(files, input.environment, input.flags, base, document)
      BY <3>1, ResolvedFields
    <3>3. QED
      BY <3>2, AcceptedDocument DEF Resolved
  <2>2. QED
    BY <1>0, <1>2, <2>1 DEF Start, Goto, Data, storage
<1>3. ASSUME NEW d \in Daemons, Off(d),
             UNCHANGED <<legacy, used, generated>>, disk' \in [DataDirectories -> [Names -> Nat]],
             \A directory \in DataDirectories: disk'[directory]["archive"] \in Archives,
             faults' \in Nat
      PROVE TypeOK'
  BY <1>3 DEF Off, Goto, NoSecrets, Absent, Data, Stopped
<1>4. ASSUME NEW d \in Daemons, NEW name \in {"archive", "loops", "pairing"}, NEW source \in Nat,
             name = "archive" => source \in Archives,
             LookForCopy(d, name, source), faults' \in Nat
      PROVE TypeOK'
  <2> DEFINE present == disk[Data(d)][name]
             found == IF name = "archive" THEN ArchiveCopy(present, source)
                      ELSE IF present = Absent THEN source ELSE Absent
  <2>0. step[d] # Stopped
    BY <1>4 DEF LookForCopy, Stopped
  <2>1. CASE name = "archive" /\ found = Torn
    BY <1>3, <1>4, <2>1 DEF LookForCopy, storage
  <2>2. CASE ~(name = "archive" /\ found = Torn)
    <3>1. found \in Nat /\ (name = "archive" => found \in Archives)
      BY <1>4, <2>0 DEF ArchiveCopy, Archives, Absent, Torn, LegacyContent, Converted
    <3>2. /\ Goto(d, IF found = Absent THEN AfterCopy(d, name) ELSE <<"write", name>>)
          /\ copy' = [copy EXCEPT ![d] = found]
          /\ UNCHANGED <<settings, secrets, legacy, disk, used, generated>>
      BY <1>4, <2>2 DEF LookForCopy, storage
    <3> HIDE DEF found
    <3>3. /\ <<"write", name>> \in Migrating
          /\ name # "archive" => <<"write", name>> # <<"write", "archive">>
      BY <1>0
    <3>4. /\ AfterCopy(d, name) \in Migrating \union Starting
          /\ AfterCopy(d, name) # <<"write", "archive">>
      BY CopyPlaces
    <3>5. QED
      BY <1>4, <2>0, <3>1, <3>2, <3>3, <3>4 DEF Goto, Data
  <2>3. QED
    BY <2>1, <2>2
<1>5. ASSUME NEW d \in Daemons, Migrate(d) PROVE TypeOK'
  <2>1. PICK name \in {"archive", "loops", "pairing"}:
            \/ LookForCopy(d, name, legacy[name]) /\ UNCHANGED faults
            \/ LegacyFileUnreadable(d, name)
            \/ WriteCopy(d, name)
    BY <1>5 DEF Migrate
  <2>2. legacy[name] \in Nat /\ legacy["archive"] \in Archives
    BY StartupAssumption DEF Names, Archives
  <2>3. CASE LookForCopy(d, name, legacy[name]) /\ UNCHANGED faults
    BY <1>4, <2>2, <2>3
  <2>4. CASE LegacyFileUnreadable(d, name)
    BY <1>4, <2>4 DEF LegacyFileUnreadable, Absent
  <2>5. CASE WriteCopy(d, name)
    <3>1. /\ AfterCopy(d, name) \in Migrating \union Starting
          /\ AfterCopy(d, name) # <<"write", "archive">>
      BY CopyPlaces
    <3>2. step[d] # Stopped /\ Data(d) \in DataDirectories
      BY <2>5 DEF WriteCopy, Stopped
    <3>3. name = "archive" => copy[d] \in Archives
      BY <2>5 DEF WriteCopy
    <3>4. /\ disk' = [disk EXCEPT ![Data(d)][name] = copy[d]]
          /\ step' = [step EXCEPT ![d] = AfterCopy(d, name)]
          /\ copy' = [copy EXCEPT ![d] = Absent]
          /\ UNCHANGED <<legacy, settings, secrets, used, generated, faults>>
      BY <2>5 DEF WriteCopy, Goto
    <3>5. /\ disk' \in [DataDirectories -> [Names -> Nat]]
          /\ \A directory \in DataDirectories: disk'[directory]["archive"] \in Archives
      BY <3>2, <3>3, <3>4 DEF Names
    <3>6. QED
      BY <3>1, <3>2, <3>4, <3>5 DEF Data, Absent
  <2>6. QED
    BY <2>1, <2>3, <2>4, <2>5
<1>6. ASSUME NEW d \in Daemons, Ends(d) PROVE TypeOK'
  BY <1>3, <1>6 DEF Ends, storage
<1>7. ASSUME NEW d \in Daemons, NEW name \in Secrets,
             \/ SecretElsewhere(d, name) \/ SecretRead(d, name) \/ SecretGenerate(d, name)
             \/ SecretCreate(d, name) \/ SecretFill(d, name) \/ SecretCloses(d, name)
             \/ SecretFails(d, name)
      PROVE TypeOK'
  <2>1. step[d] # Stopped /\ Data(d) \in DataDirectories /\ name \in Names /\ name # "archive"
    BY <1>7 DEF SecretElsewhere, SecretRead, SecretGenerate, SecretCreate, SecretFill,
       SecretCloses, SecretFails, Stopped, Secrets, Names
  <2>2. ASSUME NEW content \in Nat, disk' = [disk EXCEPT ![Data(d)][name] = content]
        PROVE /\ disk' \in [DataDirectories -> [Names -> Nat]]
              /\ \A directory \in DataDirectories: disk'[directory]["archive"] \in Archives
    BY <2>1, <2>2 DEF Names
  <2>3. ASSUME NEW secret \in Nat, Found(d, name, secret),
               UNCHANGED <<storage, settings, generated, faults>>,
               copy' \in [Daemons -> Nat], \A c \in Daemons \ {d}: copy'[c] = copy[c]
        PROVE TypeOK'
    <3>1. secrets[d]["pairing"] \in Nat
      BY DEF Secrets
    <3>2. used' \in [DataDirectories -> SUBSET Nat]
      BY <2>1, <2>3, <3>1 DEF Found
    <3>3. /\ secrets' = [secrets EXCEPT ![d][name] = secret]
          /\ step' = [step EXCEPT ![d] = IF name = "pairing" THEN <<"read", "agent">> ELSE Ready]
      BY <2>3 DEF Found, Goto
    <3>4. QED
      BY <1>0, <2>1, <2>3, <3>2, <3>3 DEF storage, Data, Secrets, Ready
  <2>4. CASE SecretRead(d, name)
    <3>1. disk[Data(d)][name] \in Nat
      BY <2>1
    <3>2. CASE disk[Data(d)][name] = Torn
      BY <1>3, <2>4, <3>2 DEF SecretRead, storage
    <3>3. CASE disk[Data(d)][name] # Torn
      <4>1. /\ Found(d, name, disk[Data(d)][name])
            /\ UNCHANGED <<storage, settings, generated, faults, copy>>
        BY <2>4, <3>3 DEF SecretRead
      <4>2. QED
        BY <2>3, <3>1, <4>1
    <3>4. QED
      BY <3>2, <3>3
  <2>5. CASE SecretGenerate(d, name)
    <3>1. /\ copy' = [copy EXCEPT ![d] = Fresh(generated + 1)] /\ generated' = generated + 1
          /\ step' = [step EXCEPT ![d] = <<"create", name>>]
          /\ UNCHANGED <<legacy, disk, settings, secrets, used, faults>>
      BY <2>5 DEF SecretGenerate, Goto, storage
    <3>2. Fresh(generated + 1) \in Nat
      BY DEF Fresh
    <3>3. <<"create", name>> # <<"write", "archive">> /\ <<"create", name>> \in Starting
      BY <1>0
    <3>4. QED
      BY <2>1, <3>1, <3>2, <3>3 DEF Data
  <2>6. CASE SecretCreate(d, name)
    <3>1. CASE disk[Data(d)][name] = Absent
      <4>1. /\ disk' = [disk EXCEPT ![Data(d)][name] = Torn]
            /\ step' = [step EXCEPT ![d] = <<"fill", name>>]
            /\ UNCHANGED <<legacy, settings, copy, secrets, used, generated, faults>>
        BY <2>6, <3>1 DEF SecretCreate, Goto
      <4>2. Torn \in Nat
        BY DEF Torn
      <4>3. /\ disk' \in [DataDirectories -> [Names -> Nat]]
            /\ \A directory \in DataDirectories: disk'[directory]["archive"] \in Archives
        BY <2>2, <4>1, <4>2
      <4>4. <<"fill", name>> # <<"write", "archive">> /\ <<"fill", name>> \in Starting
        BY <1>0
      <4>5. QED
        BY <2>1, <4>1, <4>3, <4>4 DEF Data
    <3>2. CASE disk[Data(d)][name] # Absent
      <4>1. Off(d) /\ UNCHANGED <<legacy, disk, used, generated, faults>>
        BY <2>6, <3>2 DEF SecretCreate
      <4>2. QED
        BY <1>3, <4>1
    <3>3. QED
      BY <3>1, <3>2
  <2>7. CASE SecretFill(d, name)
    BY <1>0, <2>1, <2>2, <2>7 DEF SecretFill, Goto, Data
  <2>8. CASE SecretCloses(d, name)
    BY <2>3, <2>8 DEF SecretCloses, Absent
  <2>9. CASE SecretFails(d, name)
    <3>1. Off(d) /\ disk' = [disk EXCEPT ![Data(d)][name] = Absent] /\ faults' = faults + 1
          /\ UNCHANGED <<legacy, used, generated>>
      BY <2>9 DEF SecretFails
    <3>2. Absent \in Nat /\ faults' \in Nat
      BY <3>1 DEF Absent
    <3>3. /\ disk' \in [DataDirectories -> [Names -> Nat]]
          /\ \A directory \in DataDirectories: disk'[directory]["archive"] \in Archives
      BY <2>2, <3>1, <3>2
    <3>4. QED
      BY <1>3, <3>1, <3>2, <3>3
  <2>10. CASE SecretElsewhere(d, name)
    BY <2>3, <2>10 DEF SecretElsewhere, Absent
  <2>11. QED
    BY <1>7, <2>4, <2>5, <2>6, <2>7, <2>8, <2>9, <2>10
<1>8. QED
  BY <1>1, <1>2, <1>5, <1>6, <1>7 DEF Next

-----------------------------------------------------------------------------
(* What other daemons do. They write whole copies, and secrets where there  *)
(* are none.                                                                *)
Same(d) ==
    /\ step'[d] = step[d] /\ settings'[d] = settings[d]
    /\ copy'[d] = copy[d] /\ secrets'[d] = secrets[d]

FilesChange(directory) ==
    /\ \/ disk'[directory]["archive"] = disk[directory]["archive"]
       \/ disk'[directory]["archive"] = Converted
    /\ \/ disk'[directory]["loops"] = disk[directory]["loops"]
       \/ disk'[directory]["loops"] = legacy["loops"]
    /\ \/ disk'[directory]["pairing"] = disk[directory]["pairing"]
       \/ Carries(directory, "pairing") /\ disk'[directory]["pairing"] = legacy["pairing"]
       \/ ~Carries(directory, "pairing") /\ ~Whole(disk[directory]["pairing"])

LEMMA Bystander ==
    ASSUME NEW d \in Daemons, Same(d), legacy' = legacy, DaemonInv(d),
           step[d] # Stopped => FilesChange(Data(d)),
           step[d] = <<"fill", "pairing">> =>
               disk'[Data(d)]["pairing"] = disk[Data(d)]["pairing"]
    PROVE DaemonInv(d)'
<1>1. /\ Data(d)' = Data(d) /\ Keeps(d)' = Keeps(d)
      /\ \A name: Carries(Data(d), name)' <=> Carries(Data(d), name)
  BY DEF Same, Data, Keeps, OnDisk, Carries
<1>2. Copying(d)'
  BY <1>1 DEF Same, DaemonInv, Copying
<1>3. Carried(d)'
  <2>1. step[d] \in PastArchive \union PastLoops \union PastMigration => step[d] # Stopped
    BY DEF Stopped, Ready, PastArchive, PastLoops, PastMigration, Starting
  <2>2. QED
    BY <1>1, <2>1 DEF Same, DaemonInv, Carried, FilesChange
<1>4. Making(d)'
  <2>1. /\ step[d] \in PastPairing \union {"create", "fill", "close"} \X {"pairing"} =>
               step[d] # Stopped
        /\ step[d] \in PastPairing => step[d] \in PastMigration
        /\ <<"fill", "pairing">> \in {"create", "fill", "close"} \X {"pairing"}
        /\ <<"close", "pairing">> \in {"create", "fill", "close"} \X {"pairing"}
    BY DEF Stopped, Ready, PastMigration, PastPairing, Starting, Secrets
  <2>2. QED
    BY <1>1, <2>1 DEF Same, DaemonInv, Making, Carried, FilesChange
<1>5. QED
  BY <1>2, <1>3, <1>4 DEF DaemonInv

LEMMA DirectoryKept ==
    ASSUME NEW directory \in DataDirectories, legacy' = legacy, DirectoryInv(directory),
           FilesChange(directory),
           \/ used'[directory] = used[directory]
           \/ /\ used'[directory] = used[directory] \union {disk'[directory]["pairing"]}
              /\ Whole(disk'[directory]["pairing"])
    PROVE DirectoryInv(directory)'
<1>1. \A name: Carries(directory, name)' <=> Carries(directory, name)
  BY DEF Carries
<1>2. directory # LegacyData =>
          /\ disk'[directory]["archive"] \in {Absent, Converted}
          /\ disk'[directory]["loops"] \in {Absent, legacy'["loops"]}
  BY DEF DirectoryInv, FilesChange
<1>3. Carries(directory, "pairing") =>
          disk'[directory]["pairing"] \in {Absent, legacy'["pairing"]}
  BY DEF DirectoryInv, FilesChange
<1>4. used'[directory] # {} =>
          /\ used'[directory] = {disk'[directory]["pairing"]}
          /\ Whole(disk'[directory]["pairing"])
  <2>1. CASE used[directory] = {}
    BY <2>1
  <2>2. CASE used[directory] # {}
    <3>1. used[directory] = {disk[directory]["pairing"]} /\ Whole(disk[directory]["pairing"])
      BY <2>2 DEF DirectoryInv
    <3>2. disk'[directory]["pairing"] = disk[directory]["pairing"]
      BY <3>1 DEF DirectoryInv, FilesChange, Whole
    <3>3. QED
      BY <3>1, <3>2
  <2>3. QED
    BY <2>1, <2>2
<1>5. QED
  BY <1>1, <1>2, <1>3, <1>4 DEF DirectoryInv

(* A step of one daemon that leaves the disk alone.                         *)
LEMMA QuietStep ==
    ASSUME NEW d \in Daemons, TypeOK, Faultless, UNCHANGED storage,
           \A c \in Daemons \ {d}: Same(c), DaemonInv(d)',
           step'[d] # <<"fill", "pairing">>,
           \A directory \in DataDirectories:
               \/ used'[directory] = used[directory]
               \/ /\ used'[directory] = used[directory] \union {disk[directory]["pairing"]}
                  /\ Whole(disk[directory]["pairing"])
    PROVE Faultless'
<1>1. legacy' = legacy /\ disk' = disk /\ \A directory: FilesChange(directory)
  BY DEF storage, FilesChange
<1>2. \A c \in Daemons: DaemonInv(c)'
  BY <1>1, Bystander DEF Faultless
<1>3. \A directory \in DataDirectories: DirectoryInv(directory)'
  BY <1>1, DirectoryKept DEF Faultless
<1>4. OneMaker'
  BY DEF Faultless, OneMaker, Same, Data
<1>5. QED
  BY <1>2, <1>3, <1>4 DEF Faultless

(* The places from which a daemon reads or makes a secret.                  *)
LEMMA Stages ==
    /\ \A name \in Secrets: \A phase \in {"read", "create", "fill", "close"}:
           /\ <<phase, name>> \in PastMigration /\ <<phase, name>> \in PastLoops
           /\ <<phase, name>> \in PastArchive
           /\ <<phase, name>> \in PastPairing <=> name = "agent"
           /\ <<phase, name>> \in {"create", "fill", "close"} \X {"pairing"}
                  <=> name = "pairing" /\ phase # "read"
           /\ \A entry: <<phase, name>> # <<"look", entry>> /\ <<phase, name>> # <<"write", entry>>
    /\ Ready \in PastMigration /\ Ready \in PastLoops /\ Ready \in PastArchive
    /\ Ready \in PastPairing /\ Ready \notin {"create", "fill", "close"} \X {"pairing"}
    /\ \A entry: Ready # <<"look", entry>> /\ Ready # <<"write", entry>>
    /\ Ready # <<"fill", "pairing">> /\ Ready # <<"close", "pairing">>
<1>1. \A name \in Secrets: \A phase \in {"read", "create", "fill", "close"}:
          /\ <<phase, name>> \in PastMigration /\ <<phase, name>> \in PastLoops
          /\ <<phase, name>> \in PastArchive
  BY DEF PastArchive, PastLoops, PastMigration, Starting
<1>2. \A name \in Secrets: \A phase \in {"read", "create", "fill", "close"}:
          /\ <<phase, name>> \in PastPairing <=> name = "agent"
          /\ <<phase, name>> \in {"create", "fill", "close"} \X {"pairing"}
                  <=> name = "pairing" /\ phase # "read"
          /\ \A entry: <<phase, name>> # <<"look", entry>> /\ <<phase, name>> # <<"write", entry>>
  BY DEF PastPairing, Ready, Secrets
<1>3. /\ Ready \in PastMigration /\ Ready \in PastLoops /\ Ready \in PastArchive
      /\ Ready \in PastPairing /\ Ready \notin {"create", "fill", "close"} \X {"pairing"}
      /\ \A entry: Ready # <<"look", entry>> /\ Ready # <<"write", entry>>
      /\ Ready # <<"fill", "pairing">> /\ Ready # <<"close", "pairing">>
  BY DEF PastArchive, PastLoops, PastMigration, PastPairing, Ready
<1>4. QED
  BY <1>1, <1>2, <1>3

(* A step of one daemon that changes one file.                              *)
LEMMA WritingStep ==
    ASSUME NEW d \in Daemons, NEW name \in Names, NEW content \in Nat,
           TypeOK, Faultless, UNCHANGED <<legacy, used>>,
           \A c \in Daemons \ {d}: Same(c), DaemonInv(d)', Data(d) \in DataDirectories,
           settings'[d] = settings[d],
           disk' = [disk EXCEPT ![Data(d)][name] = content], FilesChange(Data(d)),
           name = "pairing" => \/ disk[Data(d)]["pairing"] # Torn
                               \/ Carries(Data(d), "pairing")
                               \/ step[d] = <<"fill", "pairing">>,
           step'[d] = <<"fill", "pairing">> => disk[Data(d)]["pairing"] # Torn
    PROVE Faultless'
<1>1. /\ \A directory \in DataDirectories \ {Data(d)}: disk'[directory] = disk[directory]
      /\ \A directory \in DataDirectories: FilesChange(directory)
      /\ name # "pairing" => \A directory \in DataDirectories:
             disk'[directory]["pairing"] = disk[directory]["pairing"]
  BY DEF TypeOK, FilesChange, Names
<1>2. ASSUME NEW c \in Daemons, c # d, step[c] = <<"fill", "pairing">>
      PROVE disk'[Data(c)]["pairing"] = disk[Data(c)]["pairing"] /\ Data(c) \in DataDirectories
  <2>1. Data(c) \in DataDirectories
    BY <1>2 DEF TypeOK, Stopped
  <2>2. disk[Data(c)]["pairing"] = Torn /\ ~Carries(Data(c), "pairing")
    BY <1>2, Stages DEF Faultless, DaemonInv, Making, Secrets
  <2>3. name = "pairing" => Data(c) # Data(d)
    BY <1>2, <2>2 DEF Faultless, OneMaker
  <2>4. QED
    BY <1>1, <2>1, <2>3
<1>3. \A c \in Daemons: DaemonInv(c)'
  <2>1. ASSUME NEW c \in Daemons, c # d PROVE DaemonInv(c)'
    <3>1. step[c] # Stopped => FilesChange(Data(c))
      BY <1>1 DEF TypeOK
    <3>2. Same(c) /\ legacy' = legacy /\ DaemonInv(c)
      BY <2>1 DEF Faultless
    <3>3. QED
      BY <1>2, <2>1, <3>1, <3>2, Bystander
  <2>2. QED
    BY <2>1
<1>4. \A directory \in DataDirectories: DirectoryInv(directory)'
  <2>1. \A directory \in DataDirectories: used'[directory] = used[directory]
    OBVIOUS
  <2>2. QED
    BY <1>1, <2>1, DirectoryKept DEF Faultless
<1>5. OneMaker'
  <2>1. ASSUME NEW c \in Daemons, c # d, step'[c] = <<"fill", "pairing">>,
               step'[d] = <<"fill", "pairing">>, Data(c)' = Data(d)'
        PROVE FALSE
    <3>1. step[c] = <<"fill", "pairing">> /\ Data(c) = Data(d)
      BY <2>1 DEF Same, Data
    <3>2. disk[Data(c)]["pairing"] = Torn
      BY <3>1 DEF Faultless, DaemonInv, Making
    <3>3. QED
      BY <2>1, <3>1, <3>2
  <2>2. ASSUME NEW b \in Daemons, NEW c \in Daemons, b # d, c # d, step'[b] = <<"fill", "pairing">>,
               step'[c] = <<"fill", "pairing">>, Data(b)' = Data(c)'
        PROVE b = c
    BY <2>2 DEF Faultless, OneMaker, Same, Data
  <2>3. QED
    BY <2>1, <2>2 DEF OneMaker
<1>6. QED
  BY <1>3, <1>4, <1>5 DEF Faultless

(* A file has been looked for, or written: the daemon goes to the next one. *)
LEMMA AfterCopying ==
    ASSUME NEW d \in Daemons, NEW name \in {"archive", "loops", "pairing"},
           TypeOK, Faultless, legacy' = legacy, settings'[d] = settings[d],
           step[d] \in {<<"look", name>>, <<"write", name>>},
           step'[d] = AfterCopy(d, name),
           \A other \in Names \ {name}: disk'[Data(d)][other] = disk[Data(d)][other],
           legacy[name] # Absent =>
               disk'[Data(d)][name] = IF name = "archive" THEN Converted ELSE legacy[name],
           name = "loops" => disk'[Data(d)]["loops"] = legacy["loops"]
    PROVE DaemonInv(d)'
<1>1. /\ Data(d)' = Data(d) /\ Keeps(d)' = Keeps(d)
      /\ \A entry: Carries(Data(d), entry)' <=> Carries(Data(d), entry)
  BY DEF Data, Keeps, OnDisk, Carries
<1>2. Data(d) # LegacyData /\ (name = "pairing" => Keeps(d)) /\ Carried(d)
  BY DEF Faultless, DaemonInv, Copying
<1>3. CASE name = "archive"
  <2>1. step'[d] = <<"look", "loops">>
    BY <1>3 DEF AfterCopy
  <2>2. /\ <<"look", "loops">> \notin PastLoops /\ <<"look", "loops">> \notin PastMigration
        /\ <<"look", "loops">> \notin PastPairing
        /\ <<"look", "loops">> \notin {"create", "fill", "close"} \X {"pairing"}
    BY DEF PastLoops, PastMigration, PastPairing, Ready, Starting
  <2>3. Carries(Data(d), "archive") => disk'[Data(d)]["archive"] = Converted
    BY <1>3 DEF Carries
  <2>4. QED
    BY <1>1, <1>2, <2>1, <2>2, <2>3 DEF DaemonInv, Copying, Carried, Making
<1>4. CASE name = "loops"
  <2>1. step[d] \in PastArchive
    BY <1>4 DEF PastArchive
  <2>2. Carries(Data(d), "archive") => disk'[Data(d)]["archive"] = Converted
    BY <1>2, <1>4, <2>1 DEF Carried, Names
  <2>3. disk'[Data(d)]["loops"] = legacy["loops"]
    BY <1>4
  <2>4. CASE Keeps(d)
    <3>1. step'[d] = <<"look", "pairing">>
      BY <1>4, <2>4 DEF AfterCopy, Keeps
    <3>2. /\ <<"look", "pairing">> \notin PastMigration /\ <<"look", "pairing">> \notin PastPairing
          /\ <<"look", "pairing">> \notin {"create", "fill", "close"} \X {"pairing"}
      BY DEF PastMigration, PastPairing, Ready, Starting
    <3>3. QED
      BY <1>1, <1>2, <2>2, <2>3, <2>4, <3>1, <3>2 DEF DaemonInv, Copying, Carried, Making
  <2>5. CASE ~Keeps(d)
    <3>1. step'[d] = <<"read", "pairing">>
      BY <1>4, <2>5 DEF AfterCopy, Keeps
    <3>2. /\ <<"read", "pairing">> \notin PastPairing
          /\ <<"read", "pairing">> \notin {"create", "fill", "close"} \X {"pairing"}
      BY DEF PastPairing, Ready
    <3>3. QED
      BY <1>1, <1>2, <2>2, <2>3, <2>5, <3>1, <3>2 DEF DaemonInv, Copying, Carried, Making
  <2>6. QED
    BY <2>4, <2>5
<1>5. CASE name = "pairing"
  <2>1. step[d] \in PastLoops /\ step[d] \in PastArchive
    BY <1>5 DEF PastArchive, PastLoops
  <2>2. /\ Carries(Data(d), "archive") => disk'[Data(d)]["archive"] = Converted
        /\ disk'[Data(d)]["loops"] = legacy["loops"]
    BY <1>2, <1>5, <2>1 DEF Carried, Names
  <2>3. Carries(Data(d), "pairing") => disk'[Data(d)]["pairing"] = legacy["pairing"]
    BY <1>5 DEF Carries
  <2>4. step'[d] = <<"read", "pairing">>
    BY <1>5 DEF AfterCopy
  <2>5. /\ <<"read", "pairing">> \notin PastPairing
        /\ <<"read", "pairing">> \notin {"create", "fill", "close"} \X {"pairing"}
    BY DEF PastPairing, Ready
  <2>6. QED
    BY <1>1, <1>2, <2>2, <2>3, <2>4, <2>5 DEF DaemonInv, Copying, Carried, Making
<1>6. QED
  BY <1>3, <1>4, <1>5

LEMMA Ended ==
    ASSUME NEW d \in Daemons, TypeOK, Off(d) PROVE DaemonInv(d)' /\ step'[d] = Stopped
<1>1. step'[d] = Stopped
  BY DEF TypeOK, Off, Goto
<1>2. /\ Stopped \notin PastArchive /\ Stopped \notin PastLoops /\ Stopped \notin PastMigration
      /\ Stopped \notin PastPairing /\ Stopped \notin {"create", "fill", "close"} \X {"pairing"}
      /\ \A name: Stopped # <<"look", name>> /\ Stopped # <<"write", name>>
      /\ Stopped # <<"fill", "pairing">> /\ Stopped # <<"close", "pairing">>
  BY DEF Stopped, Ready, PastArchive, PastLoops, PastMigration, PastPairing, Starting
<1>3. QED
  BY <1>1, <1>2 DEF DaemonInv, Copying, Carried, Making

LEMMA Others ==
    ASSUME NEW d \in Daemons, TypeOK,
           \/ \E place: step' = [step EXCEPT ![d] = place]
           \/ step' = step,
           \/ \E value: settings' = [settings EXCEPT ![d] = value]
           \/ settings' = settings,
           \/ \E value: copy' = [copy EXCEPT ![d] = value]
           \/ copy' = copy,
           \/ \E value: secrets' = [secrets EXCEPT ![d] = value]
           \/ secrets' = secrets
    PROVE \A c \in Daemons \ {d}: Same(c)
  BY DEF TypeOK, Same

LEMMA EndStep ==
    ASSUME NEW d \in Daemons, TypeOK, Faultless, UNCHANGED <<storage, used>>, Off(d)
    PROVE Faultless'
<1>1. DaemonInv(d)' /\ step'[d] # <<"fill", "pairing">>
  BY Ended DEF Stopped
<1>2. \A c \in Daemons \ {d}: Same(c)
  BY Others DEF Off, Goto
<1>3. QED
  BY <1>1, <1>2, QuietStep

LEMMA MigrationKeeps ==
    ASSUME NEW d \in Daemons, NEW name \in {"archive", "loops", "pairing"}, TypeOK, Faultless,
           LookForCopy(d, name, legacy[name]) \/ WriteCopy(d, name)
    PROVE Faultless'
<1>1. /\ Data(d) # LegacyData /\ (name = "pairing" => Keeps(d))
      /\ Data(d) \in DataDirectories /\ DirectoryInv(Data(d))
      /\ legacy \in [Names -> Nat] /\ legacy["archive"] \in Archives
  <2>1. step[d] \in {<<"look", name>>, <<"write", name>>} /\ step[d] # Stopped
    BY DEF LookForCopy, WriteCopy, Stopped
  <2>2. Copying(d)
    BY DEF Faultless, DaemonInv
  <2>3. Data(d) # LegacyData /\ (name = "pairing" => Keeps(d))
    BY <2>1, <2>2 DEF Copying
  <2>4. Data(d) \in DataDirectories /\ DirectoryInv(Data(d))
    BY <2>1 DEF TypeOK, Faultless
  <2>5. legacy \in [Names -> Nat] /\ legacy["archive"] \in Archives
    BY StartupAssumption DEF TypeOK, Archives
  <2>6. QED
    BY <2>3, <2>4, <2>5
<1>2. CASE LookForCopy(d, name, legacy[name])
  <2> DEFINE present == disk[Data(d)][name]
             found == IF name = "archive" THEN ArchiveCopy(present, legacy[name])
                      ELSE IF present = Absent THEN legacy[name] ELSE Absent
  <2>1. CASE name = "archive" /\ found = Torn
    BY <1>2, <2>1, EndStep DEF LookForCopy
  <2>2. CASE ~(name = "archive" /\ found = Torn)
    <3>1. /\ step[d] = <<"look", name>>
          /\ step' = [step EXCEPT ![d] =
                 IF found = Absent THEN AfterCopy(d, name) ELSE <<"write", name>>]
          /\ copy' = [copy EXCEPT ![d] = found]
          /\ UNCHANGED <<settings, secrets, storage, used>>
      BY <1>2, <2>2 DEF LookForCopy, Goto
    <3>2. \A c \in Daemons \ {d}: Same(c)
      BY <3>1, Others
    <3>3. CASE found = Absent
      <4>1. /\ legacy[name] # Absent =>
                   disk[Data(d)][name] = IF name = "archive" THEN Converted ELSE legacy[name]
            /\ name = "loops" => disk[Data(d)]["loops"] = legacy["loops"]
        <5>1. CASE name = "archive"
          BY <1>1, <2>2, <3>3, <5>1 DEF DirectoryInv, ArchiveCopy, Absent, Torn,
             LegacyContent, Converted, Archives
        <5>2. CASE name = "loops"
          BY <1>1, <3>3, <5>2 DEF DirectoryInv
        <5>3. CASE name = "pairing"
          BY <1>1, <3>3, <5>3 DEF DirectoryInv, Carries
        <5>4. QED
          BY <5>1, <5>2, <5>3
      <4>2. step'[d] = AfterCopy(d, name) /\ disk' = disk /\ legacy' = legacy
        BY <3>1, <3>3 DEF TypeOK, storage
      <4>3. DaemonInv(d)'
        BY <3>1, <4>1, <4>2, AfterCopying
      <4>4. step'[d] # <<"fill", "pairing">>
        BY <4>2, CopyPlaces
      <4>5. QED
        BY <3>1, <3>2, <4>3, <4>4, QuietStep
    <3>4. CASE found # Absent
      <4>1. step'[d] = <<"write", name>> /\ copy'[d] = found
            /\ settings'[d] = settings[d] /\ disk' = disk /\ legacy' = legacy
        BY <3>1, <3>4 DEF TypeOK, storage
      <4>2. /\ name = "archive" => found = Converted
            /\ name # "archive" => found = legacy[name] /\ legacy[name] # Absent
        <5>1. present \in Archives \/ name # "archive"
          BY <1>1 DEF TypeOK
        <5>2. CASE name = "archive"
          BY <1>1, <2>2, <3>4, <5>1, <5>2 DEF ArchiveCopy, Archives, Absent, Torn,
             LegacyContent, Converted
        <5>3. CASE name # "archive"
          BY <3>4, <5>3
        <5>4. QED
          BY <5>2, <5>3
      <4> HIDE DEF found
      <4>3. Copying(d)'
        <5>1. Data(d)' = Data(d) /\ Keeps(d)' = Keeps(d)
          BY <4>1 DEF Data, Keeps, OnDisk
        <5>2. \A other: /\ step'[d] # <<"look", other>>
                        /\ step'[d] = <<"write", other>> => other = name
          BY <4>1
        <5>3. QED
          BY <1>1, <4>1, <4>2, <5>1, <5>2 DEF Copying
      <4>4. /\ <<"write", name>> \in PastArchive => <<"look", name>> \in PastArchive
            /\ <<"write", name>> \in PastLoops => <<"look", name>> \in PastLoops
            /\ <<"write", name>> \notin PastMigration /\ <<"write", name>> \notin PastPairing
            /\ <<"write", name>> \notin {"create", "fill", "close"} \X {"pairing"}
        BY DEF PastArchive, PastLoops, PastMigration, PastPairing, Starting, Ready
      <4>5. Carried(d) /\ step[d] = <<"look", name>>
        BY <3>1 DEF Faultless, DaemonInv
      <4>6. Carried(d)' /\ Making(d)'
        BY <4>1, <4>4, <4>5 DEF Carried, Making, Data, Keeps, OnDisk, Carries
      <4>7. QED
        BY <3>1, <3>2, <4>1, <4>3, <4>6, QuietStep DEF DaemonInv
    <3>5. QED
      BY <3>3, <3>4
  <2>3. QED
    BY <2>1, <2>2
<1>3. CASE WriteCopy(d, name)
  <2>1. /\ step[d] = <<"write", name>>
        /\ disk' = [disk EXCEPT ![Data(d)][name] = copy[d]]
        /\ step' = [step EXCEPT ![d] = AfterCopy(d, name)]
        /\ copy' = [copy EXCEPT ![d] = Absent]
        /\ UNCHANGED <<legacy, settings, secrets, used>>
    BY <1>3 DEF WriteCopy, Goto
  <2>2. /\ name # "archive" => legacy[name] # Absent
        /\ copy[d] = IF name = "archive" THEN Converted ELSE legacy[name]
        /\ copy[d] \in Nat
    BY <2>1 DEF Faultless, DaemonInv, Copying, TypeOK
  <2>3. \A c \in Daemons \ {d}: Same(c)
    BY <2>1, Others
  <2>4. /\ step'[d] = AfterCopy(d, name)
        /\ disk'[Data(d)][name] = copy[d] /\ name \in Names
        /\ \A other \in Names \ {name}: disk'[Data(d)][other] = disk[Data(d)][other]
    BY <1>1, <2>1 DEF TypeOK, Names
  <2>5. DaemonInv(d)'
    BY <2>1, <2>2, <2>4, AfterCopying
  <2>6. FilesChange(Data(d))
    <3>1. CASE name = "archive"
      BY <2>2, <2>4, <3>1 DEF FilesChange, Names
    <3>2. CASE name = "loops"
      BY <2>2, <2>4, <3>2 DEF FilesChange, Names
    <3>3. CASE name = "pairing"
      BY <1>1, <2>2, <2>4, <3>3 DEF FilesChange, Names, Carries
    <3>4. QED
      BY <3>1, <3>2, <3>3
  <2>7. name = "pairing" => Carries(Data(d), "pairing")
    BY <1>1, <2>2 DEF Carries
  <2>8. QED
    BY <1>1, <2>1, <2>2, <2>3, <2>4, <2>5, <2>6, <2>7, CopyPlaces, WritingStep
<1>4. QED
  BY <1>2, <1>3

LEMMA SecretKeeps ==
    ASSUME NEW d \in Daemons, NEW name \in Secrets, TypeOK, Faultless,
           \/ SecretElsewhere(d, name) \/ SecretRead(d, name) \/ SecretGenerate(d, name)
           \/ SecretCreate(d, name) \/ SecretFill(d, name) \/ SecretCloses(d, name)
    PROVE Faultless'
<1>1. /\ Data(d) \in DataDirectories /\ DirectoryInv(Data(d)) /\ name \in Names
      /\ DaemonInv(d)
  BY DEF TypeOK, Faultless, SecretElsewhere, SecretRead, SecretGenerate, SecretCreate,
     SecretFill, SecretCloses, Stopped, Names, Secrets
<1>2. ASSUME NEW secret \in Nat, Found(d, name, secret), UNCHANGED <<storage, settings>>,
             \A c \in Daemons \ {d}: Same(c),
             step[d] \in {<<"read", name>>, <<"close", name>>},
             name = "pairing" /\ Keeps(d) =>
                 secret = disk[Data(d)]["pairing"] /\ Whole(secret)
      PROVE Faultless'
  <2>1. /\ Data(d)' = Data(d) /\ Keeps(d)' = Keeps(d)
        /\ \A entry: Carries(Data(d), entry)' <=> Carries(Data(d), entry)
        /\ \A entry: disk'[Data(d)][entry] = disk[Data(d)][entry]
        /\ legacy' = legacy
    BY <1>2 DEF Data, Keeps, OnDisk, Carries, storage
  <2>2. /\ step'[d] = IF name = "pairing" THEN <<"read", "agent">> ELSE Ready
        /\ secrets'[d]["pairing"] = IF name = "pairing" THEN secret ELSE secrets[d]["pairing"]
    BY <1>2 DEF Found, Goto, TypeOK, Secrets
  <2>3. /\ step[d] \in PastArchive /\ step[d] \in PastLoops /\ step[d] \in PastMigration
        /\ name = "agent" => step[d] \in PastPairing
    <3>1. CASE step[d] = <<"read", name>>
      BY <3>1 DEF PastArchive, PastLoops, PastMigration, PastPairing, Starting
    <3>2. CASE step[d] = <<"close", name>>
      BY <3>2 DEF PastArchive, PastLoops, PastMigration, PastPairing, Starting
    <3>3. QED
      BY <1>2, <3>1, <3>2
  <2>4. /\ step'[d] \in PastPairing
        /\ step'[d] \notin {"create", "fill", "close"} \X {"pairing"}
        /\ step'[d] # <<"fill", "pairing">> /\ step'[d] # <<"close", "pairing">>
        /\ \A entry: step'[d] # <<"look", entry>> /\ step'[d] # <<"write", entry>>
    BY <2>2, Stages DEF Secrets
  <2>5. Copying(d)'
    BY <2>4 DEF Copying
  <2>6. Carried(d)'
    BY <1>1, <2>1, <2>3 DEF DaemonInv, Carried
  <2>7. Keeps(d) => /\ secrets'[d]["pairing"] = disk[Data(d)]["pairing"]
                    /\ Whole(disk[Data(d)]["pairing"])
    BY <1>1, <1>2, <2>2, <2>3 DEF DaemonInv, Making, Secrets
  <2>8. Making(d)'
    BY <2>1, <2>4, <2>7 DEF Making, Whole
  <2>9. \A directory \in DataDirectories:
            \/ used'[directory] = used[directory]
            \/ /\ used'[directory] = used[directory] \union {disk[directory]["pairing"]}
               /\ Whole(disk[directory]["pairing"])
    <3>1. CASE name = "agent" /\ OnDisk(d, "pairing")
      <4>1. used' = [used EXCEPT ![Data(d)] = used[Data(d)] \union {secrets[d]["pairing"]}]
        BY <1>2, <3>1 DEF Found
      <4>2. /\ secrets[d]["pairing"] = disk[Data(d)]["pairing"]
            /\ Whole(disk[Data(d)]["pairing"])
        BY <1>1, <2>3, <3>1 DEF DaemonInv, Making, Keeps
      <4>3. QED
        BY <1>1, <4>1, <4>2 DEF TypeOK
    <3>2. CASE ~(name = "agent" /\ OnDisk(d, "pairing"))
      BY <1>2, <3>2 DEF Found
    <3>3. QED
      BY <3>1, <3>2
  <2>10. QED
    BY <1>2, <2>4, <2>5, <2>6, <2>8, <2>9, QuietStep DEF DaemonInv
<1>3. CASE SecretRead(d, name)
  <2>1. CASE disk[Data(d)][name] = Torn
    BY <1>3, <2>1, EndStep DEF SecretRead
  <2>2. CASE disk[Data(d)][name] # Torn
    <3>1. /\ Found(d, name, disk[Data(d)][name]) /\ UNCHANGED <<storage, settings, copy>>
          /\ step[d] = <<"read", name>> /\ disk[Data(d)][name] # Absent
      BY <1>3, <2>2 DEF SecretRead
    <3>2. \A c \in Daemons \ {d}: Same(c)
      <4>1. step' = [step EXCEPT ![d] = IF name = "pairing" THEN <<"read", "agent">> ELSE Ready]
        BY <3>1 DEF Found, Goto
      <4>2. secrets' = [secrets EXCEPT ![d] =
                            [secrets[d] EXCEPT ![name] = disk[Data(d)][name]]]
        BY <3>1 DEF Found, TypeOK
      <4>3. QED
        BY <3>1, <4>1, <4>2, Others
    <3>3. disk[Data(d)][name] \in Nat
      BY <1>1 DEF TypeOK
    <3>4. QED
      BY <1>2, <2>2, <3>1, <3>2, <3>3 DEF Whole
  <2>3. QED
    BY <2>1, <2>2
<1>4. CASE SecretGenerate(d, name)
  <2>1. /\ step[d] = <<"read", name>> /\ disk[Data(d)][name] = Absent /\ OnDisk(d, name)
        /\ copy' = [copy EXCEPT ![d] = Fresh(generated + 1)]
        /\ step' = [step EXCEPT ![d] = <<"create", name>>]
        /\ UNCHANGED <<storage, settings, secrets, used>>
    BY <1>4 DEF SecretGenerate, Goto
  <2>2. \A c \in Daemons \ {d}: Same(c)
    BY <2>1, Others
  <2>3. /\ Data(d)' = Data(d) /\ Keeps(d)' = Keeps(d)
        /\ \A entry: Carries(Data(d), entry)' <=> Carries(Data(d), entry)
        /\ \A entry: disk'[Data(d)][entry] = disk[Data(d)][entry]
        /\ legacy' = legacy /\ secrets'[d]["pairing"] = secrets[d]["pairing"]
    BY <2>1 DEF Data, Keeps, OnDisk, Carries, storage
  <2>4. step'[d] = <<"create", name>> /\ Whole(copy'[d])
    BY <2>1 DEF TypeOK, Whole, Fresh, Absent, Torn
  <2>5. /\ step[d] \in PastArchive /\ step[d] \in PastLoops /\ step[d] \in PastMigration
        /\ \A entry: step'[d] # <<"look", entry>> /\ step'[d] # <<"write", entry>>
    <3>1. step[d] \in PastArchive /\ step[d] \in PastLoops /\ step[d] \in PastMigration
      BY <2>1, Stages
    <3>2. QED
      BY <2>4, <3>1
  <2>6. Copying(d)' /\ Carried(d)'
    <3>1. Copying(d)'
      BY <2>5 DEF Copying
    <3>2. Carried(d)'
      BY <1>1, <2>3, <2>5 DEF DaemonInv, Carried
    <3>3. QED
      BY <3>1, <3>2
  <2>7. name = "pairing" => Keeps(d) /\ ~Carries(Data(d), "pairing")
    <3>1. ASSUME name = "pairing" PROVE Keeps(d) /\ disk[Data(d)]["pairing"] = Absent
      BY <2>1, <3>1 DEF Keeps
    <3>2. QED
      BY <1>1, <2>5, <3>1 DEF DaemonInv, Carried, Carries
  <2>8. Making(d)'
    <3>1. /\ step'[d] # <<"fill", "pairing">> /\ step'[d] # <<"close", "pairing">>
          /\ step'[d] \in {"create", "fill", "close"} \X {"pairing"} => name = "pairing"
      BY <2>4
    <3>2. step'[d] \in PastPairing => step[d] \in PastPairing
      <4>1. CASE name = "pairing"
        BY <2>4, <4>1 DEF PastPairing, Ready
      <4>2. CASE name = "agent"
        BY <2>1, <4>2 DEF PastPairing
      <4>3. QED
        BY <4>1, <4>2 DEF Secrets
    <3>3. QED
      BY <1>1, <2>3, <2>4, <2>7, <3>1, <3>2 DEF DaemonInv, Making, Whole
  <2>9. step'[d] # <<"fill", "pairing">>
    BY <2>4
  <2>10. QED
    BY <2>1, <2>2, <2>6, <2>8, <2>9, QuietStep DEF DaemonInv
<1>5. ASSUME NEW content \in Nat, NEW place, place \in {<<"fill", name>>, <<"close", name>>},
             step[d] \in {<<"create", name>>, <<"fill", name>>},
             disk' = [disk EXCEPT ![Data(d)][name] = content],
             step' = [step EXCEPT ![d] = place],
             UNCHANGED <<legacy, settings, copy, secrets, used>>,
             name = "pairing" => /\ ~Whole(disk[Data(d)]["pairing"])
                                 /\ disk[Data(d)]["pairing"] # Torn \/ step[d] = <<"fill", name>>
                                 /\ place = <<"fill", name>> =>
                                        content = Torn /\ disk[Data(d)]["pairing"] # Torn
                                 /\ place = <<"close", name>> => content = copy[d]
      PROVE Faultless'
  <2>1. /\ Data(d)' = Data(d) /\ Keeps(d)' = Keeps(d)
        /\ \A entry: Carries(Data(d), entry)' <=> Carries(Data(d), entry)
    BY <1>5 DEF Data, Keeps, OnDisk, Carries
  <2>2. /\ step'[d] = place /\ disk'[Data(d)][name] = content
        /\ \A other \in Names \ {name}: disk'[Data(d)][other] = disk[Data(d)][other]
    BY <1>1, <1>5 DEF TypeOK
  <2>3. \A c \in Daemons \ {d}: Same(c)
    BY <1>5, Others
  <2>4. /\ step[d] \in PastArchive /\ step[d] \in PastLoops /\ step[d] \in PastMigration
        /\ name = "agent" => step[d] \in PastPairing
        /\ name = "pairing" => step[d] \in {"create", "fill", "close"} \X {"pairing"}
        /\ name = "agent" <=> place \in PastPairing
        /\ name = "pairing" <=> place \in {"create", "fill", "close"} \X {"pairing"}
        /\ \A entry: place # <<"look", entry>> /\ place # <<"write", entry>>
    BY <1>5, Stages DEF Secrets
  <2>5. name = "pairing" =>
            Keeps(d) /\ ~Carries(Data(d), "pairing") /\ Whole(copy[d])
    BY <1>1, <2>4 DEF DaemonInv, Making
  <2>6. Copying(d)'
    BY <2>2, <2>4 DEF Copying
  <2>7. Carried(d)'
    <3>1. /\ disk'[Data(d)]["archive"] = disk[Data(d)]["archive"]
          /\ disk'[Data(d)]["loops"] = disk[Data(d)]["loops"]
          /\ name = "agent" => disk'[Data(d)]["pairing"] = disk[Data(d)]["pairing"]
      BY <2>2 DEF Names, Secrets
    <3>2. QED
      BY <1>1, <1>5, <2>1, <2>4, <2>5, <3>1 DEF DaemonInv, Carried, Secrets
  <2>8. Making(d)'
    <3>1. CASE name = "pairing"
      <4>1. /\ place \notin PastPairing
            /\ place = <<"fill", "pairing">> => disk'[Data(d)]["pairing"] = Torn
            /\ place = <<"close", "pairing">> => disk'[Data(d)]["pairing"] = copy[d]
            /\ copy'[d] = copy[d]
        BY <1>5, <2>2, <2>4, <3>1
      <4>2. QED
        BY <2>1, <2>2, <2>5, <3>1, <4>1 DEF Making, Whole
    <3>2. CASE name = "agent"
      <4>1. /\ disk'[Data(d)]["pairing"] = disk[Data(d)]["pairing"]
            /\ secrets'[d] = secrets[d] /\ step[d] \in PastPairing
        BY <1>5, <2>2, <2>4, <3>2 DEF Names
      <4>2. /\ place \notin {"create", "fill", "close"} \X {"pairing"}
            /\ place # <<"fill", "pairing">> /\ place # <<"close", "pairing">>
        BY <1>5, <2>4, <3>2
      <4>3. QED
        BY <1>1, <2>1, <2>2, <4>1, <4>2 DEF DaemonInv, Making, Whole
    <3>3. QED
      BY <3>1, <3>2 DEF Secrets
  <2>9. FilesChange(Data(d))
    BY <1>5, <2>2, <2>5 DEF FilesChange, Names, Secrets
  <2>10. /\ name = "pairing" => disk[Data(d)]["pairing"] # Torn \/ step[d] = <<"fill", "pairing">>
         /\ step'[d] = <<"fill", "pairing">> => disk[Data(d)]["pairing"] # Torn
    BY <1>5, <2>2
  <2>11. QED
    BY <1>1, <1>5, <2>3, <2>6, <2>7, <2>8, <2>9, <2>10, WritingStep DEF DaemonInv
<1>6. CASE SecretCreate(d, name)
  <2>1. CASE disk[Data(d)][name] = Absent
    <3>1. /\ disk' = [disk EXCEPT ![Data(d)][name] = Torn]
          /\ step' = [step EXCEPT ![d] = <<"fill", name>>]
          /\ step[d] = <<"create", name>>
          /\ UNCHANGED <<legacy, settings, copy, secrets, used>>
      BY <1>6, <2>1 DEF SecretCreate, Goto
    <3>2. /\ name = "pairing" => ~Whole(disk[Data(d)]["pairing"]) /\ disk[Data(d)]["pairing"] # Torn
          /\ Torn \in Nat
      BY <2>1 DEF Whole, Absent, Torn
    <3>3. QED
      BY <1>5, <3>1, <3>2
  <2>2. CASE disk[Data(d)][name] # Absent
    BY <1>6, <2>2, EndStep DEF SecretCreate, storage
  <2>3. QED
    BY <2>1, <2>2
<1>7. CASE SecretFill(d, name)
  <2>1. /\ disk' = [disk EXCEPT ![Data(d)][name] = copy[d]]
        /\ step' = [step EXCEPT ![d] = <<"close", name>>]
        /\ step[d] = <<"fill", name>>
        /\ UNCHANGED <<legacy, settings, copy, secrets, used>>
    BY <1>7 DEF SecretFill, Goto
  <2>2. /\ name = "pairing" => ~Whole(disk[Data(d)]["pairing"])
        /\ copy[d] \in Nat
    BY <1>1, <2>1 DEF DaemonInv, Making, Whole, TypeOK
  <2>3. QED
    BY <1>5, <2>1, <2>2
<1>8. CASE SecretCloses(d, name)
  <2>1. /\ Found(d, name, copy[d]) /\ UNCHANGED <<storage, settings>>
        /\ copy' = [copy EXCEPT ![d] = Absent] /\ step[d] = <<"close", name>>
    BY <1>8 DEF SecretCloses
  <2>2. \A c \in Daemons \ {d}: Same(c)
    <3>1. step' = [step EXCEPT ![d] = IF name = "pairing" THEN <<"read", "agent">> ELSE Ready]
      BY <2>1 DEF Found, Goto
    <3>2. secrets' = [secrets EXCEPT ![d] = [secrets[d] EXCEPT ![name] = copy[d]]]
      BY <2>1 DEF Found, TypeOK
    <3>3. QED
      BY <2>1, <3>1, <3>2, Others
  <2>3. name = "pairing" => copy[d] = disk[Data(d)]["pairing"] /\ Whole(copy[d])
    BY <1>1, <2>1, Stages DEF DaemonInv, Making, Secrets
  <2>4. copy[d] \in Nat
    BY DEF TypeOK
  <2>5. QED
    BY <1>2, <2>1, <2>2, <2>3, <2>4
<1>9. CASE SecretElsewhere(d, name)
  <2>1. /\ Found(d, name, Absent) /\ UNCHANGED <<storage, settings, copy>>
        /\ step[d] = <<"read", name>> /\ ~OnDisk(d, name) /\ Absent \in Nat
    BY <1>9 DEF SecretElsewhere, Absent
  <2>2. \A c \in Daemons \ {d}: Same(c)
    <3>1. step' = [step EXCEPT ![d] = IF name = "pairing" THEN <<"read", "agent">> ELSE Ready]
      BY <2>1 DEF Found, Goto
    <3>2. secrets' = [secrets EXCEPT ![d] = [secrets[d] EXCEPT ![name] = Absent]]
      BY <2>1 DEF Found, TypeOK
    <3>3. QED
      BY <2>1, <3>1, <3>2, Others
  <2>3. ~(name = "pairing" /\ Keeps(d))
    BY <2>1 DEF Keeps
  <2>4. QED
    BY <1>2, <2>1, <2>2, <2>3
<1>10. QED
  BY <1>3, <1>4, <1>6, <1>7, <1>8, <1>9

LEMMA StartKeeps ==
    ASSUME NEW d \in Daemons, TypeOK, Faultless,
           Ends(d) \/ \E input \in Starts: Start(d, input)
    PROVE Faultless'
<1>1. CASE Ends(d)
  BY <1>1, EndStep DEF Ends
<1>2. ASSUME NEW input \in Starts, Start(d, input) PROVE Faultless'
  <2> DEFINE data == Resolve(files, input.environment, input.flags).document.data
  <2>1. /\ settings' = [settings EXCEPT ![d] = [data |-> data, elsewhere |-> input.elsewhere]]
        /\ step' = [step EXCEPT ![d] = IF data = LegacyData THEN <<"read", "pairing">>
                                       ELSE <<"look", "archive">>]
        /\ UNCHANGED <<storage, copy, secrets, used>>
    BY <1>2 DEF Start, Goto
  <2> HIDE DEF data
  <2>2. \A c \in Daemons \ {d}: Same(c)
    BY <2>1, Others
  <2>3. /\ step'[d] = IF data = LegacyData THEN <<"read", "pairing">> ELSE <<"look", "archive">>
        /\ Data(d)' = data
    BY <2>1 DEF TypeOK, Data
  <2>4. CASE data = LegacyData
    <3>1. /\ <<"read", "pairing">> \notin PastPairing
          /\ <<"read", "pairing">> \notin {"create", "fill", "close"} \X {"pairing"}
          /\ \A entry: ~Carries(Data(d), entry)'
      BY <2>3, <2>4, Stages DEF Secrets, Carries
    <3>2. QED
      BY <2>1, <2>2, <2>3, <2>4, <3>1, QuietStep DEF DaemonInv, Copying, Carried, Making
  <2>5. CASE data # LegacyData
    <3>1. /\ <<"look", "archive">> \notin PastArchive /\ <<"look", "archive">> \notin PastLoops
          /\ <<"look", "archive">> \notin PastMigration /\ <<"look", "archive">> \notin PastPairing
          /\ <<"look", "archive">> \notin {"create", "fill", "close"} \X {"pairing"}
      BY DEF PastArchive, PastLoops, PastMigration, PastPairing, Starting, Ready
    <3>2. DaemonInv(d)'
      BY <2>3, <2>5, <3>1 DEF DaemonInv, Copying, Carried, Making
    <3>3. QED
      BY <2>1, <2>2, <2>3, <2>5, <3>2, QuietStep
  <2>6. QED
    BY <2>4, <2>5
<1>3. QED
  BY <1>1, <1>2

LEMMA FaultlessStep ==
    TypeOK /\ (faults = 0 => Faultless) /\ [Next]_vars => (faults' = 0 => Faultless')
<1> SUFFICES ASSUME TypeOK, faults = 0 => Faultless, [Next]_vars, faults' = 0 PROVE Faultless'
  OBVIOUS
<1>1. faults = 0 /\ Faultless
  <2>1. CASE UNCHANGED faults
    BY <2>1
  <2>2. ASSUME faults' = faults + 1 PROVE FALSE
    BY <2>2 DEF TypeOK
  <2>3. ASSUME NEW d \in Daemons, Migrate(d) PROVE faults' \in {faults, faults + 1}
    BY <2>3 DEF Migrate, LegacyFileUnreadable, WriteCopy
  <2>4. ASSUME NEW d \in Daemons, NEW name \in Secrets,
               \/ SecretElsewhere(d, name) \/ SecretRead(d, name) \/ SecretGenerate(d, name)
               \/ SecretCreate(d, name) \/ SecretFill(d, name) \/ SecretCloses(d, name)
               \/ SecretFails(d, name)
        PROVE faults' \in {faults, faults + 1}
    BY <2>4 DEF SecretElsewhere, SecretRead, SecretGenerate, SecretCreate, SecretFill,
       SecretCloses, SecretFails
  <2>5. ASSUME NEW d \in Daemons,
               Ends(d) \/ \E input \in Starts: Start(d, input)
        PROVE faults' = faults
    BY <2>5 DEF Ends, Start
  <2>6. CASE (\E p \in Paths, raw \in Raws: Edit(p, raw) \/ Apply(p, raw))
             \/ (\E input \in Inputs: Show(input)) \/ UNCHANGED vars
    BY <2>6 DEF Edit, Apply, Show, vars, daemons
  <2>7. faults' \in {faults, faults + 1}
    BY <2>3, <2>4, <2>5, <2>6 DEF Next
  <2>8. QED
    BY <2>1, <2>2, <2>7
<1>2. CASE (\E p \in Paths, raw \in Raws: Edit(p, raw) \/ Apply(p, raw))
           \/ (\E input \in Inputs: Show(input)) \/ UNCHANGED vars
  <2>1. UNCHANGED <<storage, daemons>>
    BY <1>2 DEF Edit, Apply, Show, vars
  <2>2. UNCHANGED <<legacy, disk, step, settings, copy, secrets, used>>
    BY <2>1 DEF storage, daemons
  <2>3. \A d \in Daemons: DaemonInv(d)'
    BY <1>1, <2>2 DEF Faultless, DaemonInv, Copying, Carried, Making, Data, Keeps,
       OnDisk, Carries
  <2>4. \A directory \in DataDirectories: DirectoryInv(directory)'
    BY <1>1, <2>2 DEF Faultless, DirectoryInv, Carries
  <2>5. OneMaker'
    BY <1>1, <2>2 DEF Faultless, OneMaker, Data
  <2>6. QED
    BY <2>3, <2>4, <2>5 DEF Faultless
<1>3. ASSUME NEW d \in Daemons, Migrate(d) PROVE Faultless'
  <2>1. PICK name \in {"archive", "loops", "pairing"}:
            \/ LookForCopy(d, name, legacy[name]) /\ UNCHANGED faults
            \/ LegacyFileUnreadable(d, name)
            \/ WriteCopy(d, name)
    BY <1>3 DEF Migrate
  <2>2. ~LegacyFileUnreadable(d, name)
    BY <1>1 DEF LegacyFileUnreadable
  <2>3. QED
    BY <1>1, <2>1, <2>2, MigrationKeeps
<1>4. ASSUME NEW d \in Daemons, NEW name \in Secrets,
             \/ SecretElsewhere(d, name) \/ SecretRead(d, name) \/ SecretGenerate(d, name)
             \/ SecretCreate(d, name) \/ SecretFill(d, name) \/ SecretCloses(d, name)
             \/ SecretFails(d, name)
      PROVE Faultless'
  <2>1. ~SecretFails(d, name)
    BY <1>1 DEF SecretFails
  <2>2. QED
    BY <1>1, <1>4, <2>1, SecretKeeps
<1>5. ASSUME NEW d \in Daemons,
             Ends(d) \/ \E input \in Starts: Start(d, input)
      PROVE Faultless'
  BY <1>1, <1>5, StartKeeps
<1>6. QED
  BY <1>2, <1>3, <1>4, <1>5 DEF Next

-----------------------------------------------------------------------------
StartupInv == ConfigurationInv /\ StartInv

LEMMA StartupInvariant == Spec => []StartupInv
<1>1. Init => StartupInv
  BY ConfigurationInit, StartInit DEF StartupInv
<1>2. StartupInv /\ [Next]_vars => StartupInv'
  BY ConfigurationStep, TypeStep, FaultlessStep DEF StartupInv, StartInv
<1>3. QED
  BY <1>1, <1>2, PTL DEF Spec

(* The variables of a start keep their types, whatever is on disk, however  *)
(* many daemons start there and whatever fails.                             *)
THEOREM StartupTypeCorrect == Spec => []TypeOK
<1>1. StartupInv => TypeOK
  BY DEF StartupInv, StartInv
<1>2. QED
  BY <1>1, StartupInvariant, PTL

(* Settings come back as they were given: through `config apply` and the    *)
(* next load, and through `config show` and `config apply`, for every       *)
(* document, environment and flags.                                         *)
THEOREM StartupSettingsRoundTrip == Spec => []SettingsRoundTrip
<1>1. StartupInv => SettingsRoundTrip
  BY ShownRoundTrip DEF StartupInv
<1>2. QED
  BY <1>1, StartupInvariant, PTL

(* Each setting comes from the highest layer that gives it, for every       *)
(* document, environment and flags.                                         *)
THEOREM StartupLayersRespected == Spec => []LayersRespected
<1>1. StartupInv => LayersRespected
  BY ShownLayers DEF StartupInv
<1>2. QED
  BY <1>1, StartupInvariant, PTL

(* All daemons that went on in one data directory used one pairing secret,  *)
(* for any number of daemons, starts and deaths, as long as no read, write  *)
(* or close failed.                                                         *)
THEOREM StartupSecretLasts == Spec => []SecretLasts
<1>1. StartupInv => SecretLasts
  <2> SUFFICES ASSUME StartupInv, faults = 0, NEW directory \in DataDirectories
               PROVE Cardinality(used[directory]) <= 1
    BY DEF SecretLasts
  <2>1. DirectoryInv(directory)
    BY DEF StartupInv, StartInv, Faultless
  <2>2. CASE used[directory] = {}
    <3>1. Cardinality({}) = 0
      BY FS_EmptySet, Zenon
    <3>2. QED
      BY <2>2, <3>1
  <2>3. CASE used[directory] = {disk[directory]["pairing"]}
    <3>1. Cardinality({disk[directory]["pairing"]}) = 1
      BY FS_Singleton, Zenon
    <3>2. QED
      BY <2>3, <3>1
  <2>4. QED
    BY <2>1, <2>2, <2>3 DEF DirectoryInv
<1>2. QED
  BY <1>1, StartupInvariant, PTL

(* A daemon that goes on has the loops, the archived sessions and the       *)
(* pairing secret of the earlier program, for any number of overlapping     *)
(* starts and deaths, as long as no read, write or close failed.            *)
THEOREM StartupLegacyCarriedOver == Spec => []LegacyCarriedOver
<1>1. StartupInv => LegacyCarriedOver
  <2> SUFFICES ASSUME StartupInv, faults = 0, NEW d \in Daemons, step[d] = Ready,
                      Data(d) # LegacyData
               PROVE /\ disk[Data(d)].loops = legacy.loops
                     /\ legacy.archive # Absent => disk[Data(d)].archive = Converted
                     /\ legacy.pairing # Absent /\ OnDisk(d, "pairing") =>
                            secrets[d].pairing = legacy.pairing
    BY DEF LegacyCarriedOver
  <2>1. Carried(d) /\ Making(d)
    BY DEF StartupInv, StartInv, Faultless, DaemonInv
  <2>2. /\ Ready \in PastArchive /\ Ready \in PastLoops
        /\ Ready \in PastMigration /\ Ready \in PastPairing
    BY Stages
  <2>3. /\ disk[Data(d)]["loops"] = legacy["loops"]
        /\ legacy["archive"] # Absent => disk[Data(d)]["archive"] = Converted
    BY <2>1, <2>2 DEF Carried, Carries
  <2>4. legacy["pairing"] # Absent /\ OnDisk(d, "pairing") =>
            secrets[d]["pairing"] = legacy["pairing"]
    BY <2>1, <2>2 DEF Carried, Making, Carries, Keeps
  <2>5. QED
    BY <2>3, <2>4
<1>2. QED
  BY <1>1, StartupInvariant, PTL

-----------------------------------------------------------------------------
(* Induction over the natural numbers, for a set of them.                   *)
LEMMA Induct ==
    ASSUME NEW G \in SUBSET Nat, 0 \in G, \A n \in G: n + 1 \in G
    PROVE G = Nat
<1> DEFINE R == OpToRel(<, Nat)
           T == Nat \ G
<1>1. IsWellFoundedOn(R, Nat)
  BY NatLessThanWellFounded, Zenon
<1>2. SUFFICES ASSUME T # {} PROVE FALSE
  OBVIOUS
<1>3. \E x \in T: \A y \in T: <<y, x>> \notin R
  <2> HIDE DEF R
  <2>1. QED
    BY <1>1, <1>2, WFMin
<1>4. PICK x \in T: \A y \in T: <<y, x>> \notin R
  BY <1>3
<1>5. x - 1 \in Nat /\ x - 1 < x /\ x = x - 1 + 1
  OBVIOUS
<1>6. <<x - 1, x>> \in R
  BY <1>5 DEF OpToRel
<1>7. QED
  BY <1>4, <1>5, <1>6

(* The table that Selected builds while it goes through s.                  *)
Table(f, s, wanted, n) ==
    f = [k \in 0..n |->
            IF k = 0 THEN <<>>
            ELSE IF s[k] \in wanted THEN Append(f[k - 1], s[k]) ELSE f[k - 1]]

LEMMA TableExists ==
    ASSUME NEW S, NEW s \in Seq(S), NEW wanted
    PROVE \E f: Table(f, s, wanted, Len(s))
<1> DEFINE G == {n \in Nat: \E f: Table(f, s, wanted, n)}
<1>1. 0 \in G
  <2>1. Table([k \in 0..0 |-> <<>>], s, wanted, 0)
    BY DEF Table
  <2>2. QED
    BY <2>1
<1>2. ASSUME NEW n \in G PROVE n + 1 \in G
  <2>1. PICK f: Table(f, s, wanted, n)
    OBVIOUS
  <2> DEFINE e == IF s[n + 1] \in wanted THEN Append(f[n], s[n + 1]) ELSE f[n]
             g == [k \in 0..(n + 1) |-> IF k = n + 1 THEN e ELSE f[k]]
  <2>2. ASSUME NEW k \in 0..(n + 1)
        PROVE g[k] = IF k = 0 THEN <<>>
                     ELSE IF s[k] \in wanted THEN Append(g[k - 1], s[k]) ELSE g[k - 1]
    <3>1. CASE k = n + 1
      BY <3>1
    <3>2. CASE k # n + 1
      <4>1. k \in 0..n /\ g[k] = f[k] /\ (k # 0 => g[k - 1] = f[k - 1])
        BY <3>2
      <4>2. f[k] = IF k = 0 THEN <<>>
                   ELSE IF s[k] \in wanted THEN Append(f[k - 1], s[k]) ELSE f[k - 1]
        BY <2>1, <4>1 DEF Table
      <4>3. QED
        BY <4>1, <4>2
    <3>3. QED
      BY <3>1, <3>2
  <2>3. Table(g, s, wanted, n + 1)
    <3>1. g = [k \in 0..(n + 1) |-> g[k]]
      OBVIOUS
    <3> HIDE DEF g
    <3>2. QED
      BY <2>2, <3>1 DEF Table
  <2>4. QED
    BY <2>3
<1>3. G = Nat
  <2> HIDE DEF G
  <2>1. G \in SUBSET Nat
    BY DEF G
  <2>2. QED
    BY <1>1, <1>2, <2>1, Induct
<1>4. Len(s) \in G
  <2> HIDE DEF G
  <2>1. QED
    BY <1>3
<1>5. QED
  BY <1>4

(* h leads from each element of r to the place of s it was taken from.      *)
Picks(h, r, s, wanted, n) ==
    /\ h \in [1..Len(r) -> 1..n]
    /\ \A i, j \in 1..Len(r): i < j => h[i] < h[j]
    /\ \A i \in 1..Len(r): r[i] = s[h[i]] /\ s[h[i]] \in wanted
    /\ \A j \in 1..n: s[j] \in wanted => \E i \in 1..Len(r): h[i] = j

LEMMA PicksNone ==
    ASSUME NEW s, NEW wanted
    PROVE Picks([i \in 1..0 |-> 1], <<>>, s, wanted, 0)
BY DEF Picks

LEMMA PicksOneMore ==
    ASSUME NEW S, NEW s \in Seq(S), NEW wanted, NEW r \in Seq(S), NEW n \in Nat, n < Len(s),
           NEW h, Picks(h, r, s, wanted, n)
    PROVE LET e == IF s[n + 1] \in wanted THEN Append(r, s[n + 1]) ELSE r
          IN  e \in Seq(S) /\ \E g: Picks(g, e, s, wanted, n + 1)
<1>1. s[n + 1] \in S
  OBVIOUS
<1>2. CASE s[n + 1] \notin wanted
  <2>1. Picks(h, r, s, wanted, n + 1)
    <3>1. h \in [1..Len(r) -> 1..(n + 1)]
      BY DEF Picks
    <3>2. ASSUME NEW j \in 1..(n + 1), s[j] \in wanted PROVE j \in 1..n
      BY <1>2, <3>2
    <3>3. QED
      BY <3>1, <3>2 DEF Picks
  <2>2. QED
    BY <1>2, <2>1
<1>3. CASE s[n + 1] \in wanted
  <2> DEFINE e == Append(r, s[n + 1])
             g == [i \in 1..Len(e) |-> IF i = Len(e) THEN n + 1 ELSE h[i]]
  <2>1. /\ e \in Seq(S) /\ Len(e) = Len(r) + 1 /\ e[Len(e)] = s[n + 1]
        /\ \A i \in 1..Len(r): e[i] = r[i]
    BY <1>1
  <2> HIDE DEF e
  <2>2. \A i \in 1..Len(r): i \in 1..Len(e) /\ i # Len(e) /\ g[i] = h[i] /\ h[i] \in 1..n
    <3>1. \A i \in 1..Len(r): i \in 1..Len(e) /\ i # Len(e)
      BY <2>1
    <3>2. \A i \in 1..Len(r): h[i] \in 1..n
      BY DEF Picks
    <3>3. QED
      BY <3>1, <3>2
  <2>3. Len(e) \in 1..Len(e) /\ g[Len(e)] = n + 1
    BY <2>1
  <2>4. \A i \in 1..Len(e): i = Len(e) \/ i \in 1..Len(r)
    BY <2>1
  <2>5. g \in [1..Len(e) -> 1..(n + 1)]
    <3>1. ASSUME NEW i \in 1..Len(e)
          PROVE (IF i = Len(e) THEN n + 1 ELSE h[i]) \in 1..(n + 1)
      <4>1. CASE i = Len(e)
        BY <4>1
      <4>2. CASE i # Len(e)
        <5>1. h[i] \in 1..n
          BY <2>2, <2>4, <4>2
        <5>2. QED
          BY <4>2, <5>1
      <4>3. QED
        BY <4>1, <4>2
    <3>2. QED
      BY <3>1
  <2> HIDE DEF g
  <2>6. \A i, j \in 1..Len(e): i < j => g[i] < g[j]
    BY <2>1, <2>2, <2>3, <2>4 DEF Picks
  <2>7. \A i \in 1..Len(e): e[i] = s[g[i]] /\ s[g[i]] \in wanted
    BY <1>3, <2>1, <2>2, <2>3, <2>4 DEF Picks
  <2>8. ASSUME NEW j \in 1..(n + 1), s[j] \in wanted
        PROVE \E i \in 1..Len(e): g[i] = j
    <3>1. CASE j = n + 1
      BY <2>3, <3>1
    <3>2. CASE j # n + 1
      <4>1. PICK i \in 1..Len(r): h[i] = j
        BY <2>8, <3>2 DEF Picks
      <4>2. QED
        BY <2>2, <4>1
    <3>3. QED
      BY <3>1, <3>2
  <2>9. Picks(g, e, s, wanted, n + 1)
    BY <2>5, <2>6, <2>7, <2>8 DEF Picks
  <2>10. QED
    BY <1>3, <2>1, <2>9 DEF e
<1>4. QED
  BY <1>2, <1>3

(* Selected takes what is wanted, all of it, and in its order.              *)
LEMMA SelectedPicks ==
    ASSUME NEW S, NEW s \in Seq(S), NEW wanted
    PROVE /\ Selected(s, wanted) \in Seq(S)
          /\ \E h: Picks(h, Selected(s, wanted), s, wanted, Len(s))
<1> DEFINE f == CHOOSE f: Table(f, s, wanted, Len(s))
<1>1. Table(f, s, wanted, Len(s))
  <2>1. \E ff: Table(ff, s, wanted, Len(s))
    BY TableExists
  <2>2. QED
    BY <2>1, Zenon
<1>2. Selected(s, wanted) = f[Len(s)]
  BY DEF Selected, Table
<1> HIDE DEF f
<1> DEFINE G == {n \in Nat: n <= Len(s) =>
                     f[n] \in Seq(S) /\ \E h: Picks(h, f[n], s, wanted, n)}
<1>3. 0 \in G
  <2>1. f[0] = <<>>
    BY <1>1 DEF Table
  <2>2. \E h: Picks(h, f[0], s, wanted, 0)
    BY <2>1, PicksNone
  <2>3. f[0] \in Seq(S)
    BY <2>1
  <2>4. QED
    BY <2>2, <2>3
<1>4. ASSUME NEW n \in G PROVE n + 1 \in G
  <2>1. SUFFICES ASSUME n + 1 <= Len(s)
                 PROVE /\ f[n + 1] \in Seq(S)
                       /\ \E h: Picks(h, f[n + 1], s, wanted, n + 1)
    OBVIOUS
  <2>2. f[n] \in Seq(S) /\ n \in Nat /\ n < Len(s)
    BY <2>1
  <2>3. PICK h: Picks(h, f[n], s, wanted, n)
    BY <2>1
  <2>4. f[n + 1] = IF s[n + 1] \in wanted THEN Append(f[n], s[n + 1]) ELSE f[n]
    <3>1. n + 1 \in 0..Len(s) /\ n + 1 # 0 /\ n + 1 - 1 = n
      BY <2>1, <2>2
    <3>2. \A k \in 0..Len(s): f[k] =
              IF k = 0 THEN <<>>
              ELSE IF s[k] \in wanted THEN Append(f[k - 1], s[k]) ELSE f[k - 1]
      BY <1>1 DEF Table
    <3>3. f[n + 1] = IF s[n + 1] \in wanted
                     THEN Append(f[n + 1 - 1], s[n + 1]) ELSE f[n + 1 - 1]
      BY <3>1, <3>2
    <3>4. QED
      BY <3>1, <3>3
  <2>5. QED
    BY <2>2, <2>3, <2>4, PicksOneMore
<1>5. G = Nat
  <2> HIDE DEF G
  <2>1. G \in SUBSET Nat
    BY DEF G
  <2>2. QED
    BY <1>3, <1>4, <2>1, Induct
<1>6. Len(s) \in Nat
  OBVIOUS
<1>7. QED
  BY <1>2, <1>5, <1>6

-----------------------------------------------------------------------------
(* The room. Lines that parse have a message; those that ascend were said   *)
(* one after another and identified in that order.                          *)
RoomLines == [id: Nat, say: Nat, ended: BOOLEAN]
Present(rows, k) == k \in DOMAIN rows /\ rows[k].say # 0
Ascending(rows) ==
    \A j, k \in DOMAIN rows: j < k /\ Present(rows, j) /\ Present(rows, k) =>
        rows[j].id < rows[k].id /\ rows[j].say < rows[k].say

RoomTypes ==
    /\ file \in Seq(RoomLines) /\ messages \in Seq(RoomLines)
    /\ saying \in {"idle", "compact", "append", "close"}
    /\ said \in Nat /\ acked \subseteq 1..said /\ saidBefore \in 0..said
    /\ saying # "idle" => said # 0
    /\ tears \in Nat /\ clears \in Nat
    /\ cursor \in [Followers -> Nat] /\ got \in [Followers -> Seq(Nat)]
    /\ joined \in [Followers -> Nat] /\ \A f \in Followers: joined[f] <= clears

(* The readable lines ascend. While a Say is before its write, its number   *)
(* is not in the file.                                                      *)
FileInv ==
    /\ Ascending(file)
    /\ \A k \in DOMAIN file: Present(file, k) =>
           /\ file[k].id >= 1 /\ file[k].say <= said
           /\ saying \in {"compact", "append"} => file[k].say < said

SameMessage(line, other) == line.id = other.id /\ line.say = other.say

(* What a Say has read is ascending and older than what it says; it is the  *)
(* readable part of the file until the compaction, and covers it after.     *)
HeldInv ==
    saying \in {"compact", "append"} =>
        /\ Ascending(messages)
        /\ \A k \in DOMAIN messages:
               messages[k].say # 0 /\ messages[k].say < said /\ messages[k].id >= 1
        /\ \A j \in DOMAIN file: Present(file, j) =>
               \E k \in DOMAIN messages: SameMessage(messages[k], file[j])
        /\ saying = "compact" =>
               \A k \in DOMAIN messages: \E j \in DOMAIN file:
                   Present(file, j) /\ SameMessage(messages[k], file[j])

(* A follower has what it got in order, and what lies above its cursor is   *)
(* newer than all of it.                                                    *)
FollowInv ==
    \A f \in Followers:
        /\ \A j, k \in DOMAIN got[f]: j < k => got[f][j] < got[f][k]
        /\ \A j \in DOMAIN got[f]: got[f][j] <= said /\ (saying # "idle" => got[f][j] < said)
        /\ \A k \in DOMAIN file: Present(file, k) /\ file[k].id > cursor[f] =>
               \A j \in DOMAIN got[f]: got[f][j] < file[k].say

RoomInv == RoomTypes /\ FileInv /\ HeldInv /\ FollowInv

LEMMA ReadableLines ==
    ASSUME file \in Seq(RoomLines)
    PROVE /\ Readable \in Seq(RoomLines)
          /\ \E h \in [DOMAIN Readable -> DOMAIN file]:
                 /\ \A i, j \in DOMAIN Readable: i < j => h[i] < h[j]
                 /\ \A i \in DOMAIN Readable: Readable[i] = file[h[i]] /\ Present(file, h[i])
                 /\ \A j \in DOMAIN file: Present(file, j) => \E i \in DOMAIN Readable: h[i] = j
<1> DEFINE W == {line \in ToSet(file): line.say # 0}
<1>1. Readable = Selected(file, W)
  BY DEF Readable
<1>2. \A j \in DOMAIN file: file[j] \in W <=> file[j].say # 0
  BY DEF ToSet
<1> HIDE DEF W
<1>3. Readable \in Seq(RoomLines)
  BY <1>1, SelectedPicks
<1>4. PICK h: Picks(h, Readable, file, W, Len(file))
  BY <1>1, SelectedPicks
<1>5. DOMAIN Readable = 1..Len(Readable) /\ DOMAIN file = 1..Len(file)
  BY <1>3
<1>6. h \in [DOMAIN Readable -> DOMAIN file]
  BY <1>4, <1>5 DEF Picks
<1>7. \A i, j \in DOMAIN Readable: i < j => h[i] < h[j]
  BY <1>4, <1>5 DEF Picks
<1>8. \A i \in DOMAIN Readable: Readable[i] = file[h[i]] /\ Present(file, h[i])
  BY <1>2, <1>4, <1>5 DEF Picks, Present
<1>9. \A j \in DOMAIN file: Present(file, j) => \E i \in DOMAIN Readable: h[i] = j
  BY <1>2, <1>4, <1>5 DEF Picks, Present
<1>10. QED
  BY <1>3, <1>6, <1>7, <1>8, <1>9

LEMMA ReadableAscends ==
    ASSUME file \in Seq(RoomLines), Ascending(file)
    PROVE /\ Readable \in Seq(RoomLines) /\ Ascending(Readable)
          /\ \A k \in DOMAIN Readable: Readable[k].say # 0
          /\ \A j \in DOMAIN file: Present(file, j) =>
                 \E k \in DOMAIN Readable: Readable[k] = file[j]
          /\ \A k \in DOMAIN Readable: \E j \in DOMAIN file:
                 Present(file, j) /\ Readable[k] = file[j]
          /\ \A j, k \in DOMAIN Readable: j < k =>
                 Readable[j].id < Readable[k].id /\ Readable[j].say < Readable[k].say
<1>1. PICK h \in [DOMAIN Readable -> DOMAIN file]:
          /\ \A i, j \in DOMAIN Readable: i < j => h[i] < h[j]
          /\ \A i \in DOMAIN Readable: Readable[i] = file[h[i]] /\ Present(file, h[i])
          /\ \A j \in DOMAIN file: Present(file, j) => \E i \in DOMAIN Readable: h[i] = j
  BY ReadableLines
<1>2. Readable \in Seq(RoomLines)
  BY ReadableLines
<1>3. \A j, k \in DOMAIN Readable: j < k =>
          Readable[j].id < Readable[k].id /\ Readable[j].say < Readable[k].say
  BY <1>1 DEF Ascending
<1>4. Ascending(Readable)
  BY <1>3 DEF Ascending
<1>5. \A k \in DOMAIN Readable: Readable[k].say # 0
  BY <1>1 DEF Present
<1>6. QED
  BY <1>1, <1>2, <1>3, <1>4, <1>5

(* The feed of `since`: readable lines above it, in their order, and each   *)
(* such line unless the feed is full of later ones.                         *)
LEMMA FeedLines ==
    ASSUME file \in Seq(RoomLines), NEW since \in Nat
    PROVE /\ Feed(since) \in Seq(RoomLines)
          /\ Len(Feed(since)) <= FeedLimit
          /\ \E h \in [DOMAIN Feed(since) -> DOMAIN file]:
                 /\ \A i, j \in DOMAIN Feed(since): i < j => h[i] < h[j]
                 /\ \A i \in DOMAIN Feed(since):
                        /\ Feed(since)[i] = file[h[i]]
                        /\ Present(file, h[i]) /\ file[h[i]].id > since
                 /\ \A j \in DOMAIN file: Present(file, j) /\ file[j].id > since =>
                        \/ \E i \in DOMAIN Feed(since): h[i] = j
                        \/ /\ Len(Feed(since)) = FeedLimit
                           /\ \A i \in DOMAIN Feed(since): j < h[i]
<1> DEFINE W == {line \in ToSet(file): line.id > since}
           above == Selected(Readable, W)
           n == Len(above)
<1>1. PICK h \in [DOMAIN Readable -> DOMAIN file]:
          /\ \A i, j \in DOMAIN Readable: i < j => h[i] < h[j]
          /\ \A i \in DOMAIN Readable: Readable[i] = file[h[i]] /\ Present(file, h[i])
          /\ \A j \in DOMAIN file: Present(file, j) => \E i \in DOMAIN Readable: h[i] = j
  BY ReadableLines
<1>2. Readable \in Seq(RoomLines)
  BY ReadableLines
<1>3. Feed(since) = IF n > FeedLimit THEN SubSeq(above, n - FeedLimit + 1, n) ELSE above
  BY DEF Feed
<1>4. \A j \in DOMAIN file: file[j] \in W <=> file[j].id > since
  BY DEF ToSet
<1> HIDE DEF W
<1>5. above \in Seq(RoomLines)
  BY <1>2, SelectedPicks
<1>6. PICK g: Picks(g, above, Readable, W, Len(Readable))
  BY <1>2, SelectedPicks
<1> HIDE DEF above
<1>7. n \in Nat /\ FeedLimit \in Nat \ {0}
  BY <1>5, RoomAssumption
<1>8. DOMAIN above = 1..n /\ DOMAIN Readable = 1..Len(Readable)
  BY <1>2, <1>5
<1>9. /\ \A i \in 1..n: g[i] \in DOMAIN Readable
      /\ \A i, j \in 1..n: i < j => g[i] < g[j]
      /\ \A i \in 1..n: above[i] = Readable[g[i]] /\ Readable[g[i]] \in W
      /\ \A j \in DOMAIN Readable: Readable[j] \in W => \E i \in 1..n: g[i] = j
  BY <1>6, <1>8 DEF Picks
<1> DEFINE p == [i \in 1..n |-> h[g[i]]]
<1>10. /\ \A i \in 1..n: p[i] \in DOMAIN file
       /\ \A i, j \in 1..n: i < j => p[i] < p[j]
       /\ \A i \in 1..n: above[i] = file[p[i]] /\ Present(file, p[i]) /\ file[p[i]].id > since
  BY <1>1, <1>4, <1>9
<1>11. \A j \in DOMAIN file: Present(file, j) /\ file[j].id > since => \E i \in 1..n: p[i] = j
  <2>1. SUFFICES ASSUME NEW j \in DOMAIN file, Present(file, j), file[j].id > since
                 PROVE \E i \in 1..n: p[i] = j
    OBVIOUS
  <2>2. PICK i \in DOMAIN Readable: h[i] = j
    BY <1>1, <2>1
  <2>3. Readable[i] \in W
    BY <1>1, <1>4, <2>1, <2>2
  <2>4. PICK k \in 1..n: g[k] = i
    BY <1>9, <2>3
  <2>5. p[k] = j
    BY <2>2, <2>4
  <2>6. QED
    BY <2>5
<1> HIDE DEF p
<1>12. CASE n <= FeedLimit
  <2>1. Feed(since) = above
    BY <1>3, <1>7, <1>12
  <2>2. p \in [DOMAIN above -> DOMAIN file]
    BY <1>8, <1>10 DEF p
  <2>3. \A i, j \in DOMAIN above: i < j => p[i] < p[j]
    BY <1>8, <1>10
  <2>4. \A i \in DOMAIN above:
            above[i] = file[p[i]] /\ Present(file, p[i]) /\ file[p[i]].id > since
    BY <1>8, <1>10
  <2>5. \A j \in DOMAIN file: Present(file, j) /\ file[j].id > since =>
            \E i \in DOMAIN above: p[i] = j
    BY <1>8, <1>11
  <2>6. QED
    BY <1>5, <1>12, <2>1, <2>2, <2>3, <2>4, <2>5
<1>13. CASE n > FeedLimit
  <2> DEFINE b == n - FeedLimit
             feed == SubSeq(above, b + 1, n)
             q == [i \in 1..FeedLimit |-> p[b + i]]
  <2>1. b \in Nat /\ b + FeedLimit = n
    BY <1>7, <1>13
  <2>2. Feed(since) = feed
    BY <1>3, <1>7, <1>13
  <2> HIDE DEF b
  <2>3. /\ feed \in Seq(RoomLines) /\ Len(feed) = FeedLimit
        /\ \A i \in 1..FeedLimit: feed[i] = above[b + i]
    BY <1>5, <1>7, <2>1
  <2> HIDE DEF feed
  <2>4. DOMAIN feed = 1..FeedLimit
    BY <2>3
  <2>5. \A i \in 1..FeedLimit: b + i \in 1..n /\ q[i] = p[b + i]
    BY <1>7, <2>1
  <2>6. q \in [1..FeedLimit -> DOMAIN file]
    BY <1>10, <2>5
  <2>7. \A i, j \in 1..FeedLimit: i < j => q[i] < q[j]
    <3>1. SUFFICES ASSUME NEW i \in 1..FeedLimit, NEW j \in 1..FeedLimit, i < j
                   PROVE p[b + i] < p[b + j]
      BY <2>5
    <3>2. b + i < b + j
      BY <1>7, <2>1, <3>1
    <3>3. QED
      BY <1>10, <2>5, <3>2
  <2>8. \A i \in 1..FeedLimit:
            feed[i] = file[q[i]] /\ Present(file, q[i]) /\ file[q[i]].id > since
    BY <1>10, <2>3, <2>5
  <2>9. ASSUME NEW j \in DOMAIN file, Present(file, j), file[j].id > since
        PROVE (\E i \in 1..FeedLimit: q[i] = j) \/ (\A i \in 1..FeedLimit: j < q[i])
    <3>1. PICK k \in 1..n: p[k] = j
      BY <1>11, <2>9
    <3>2. CASE k <= b
      <4>1. \A i \in 1..FeedLimit: k < b + i
        BY <1>7, <2>1, <3>2
      <4>2. QED
        BY <1>10, <2>5, <3>1, <4>1
    <3>3. CASE k > b
      <4>1. k - b \in 1..FeedLimit /\ b + (k - b) = k
        BY <1>7, <2>1, <3>3
      <4>2. q[k - b] = j
        BY <2>5, <3>1, <4>1
      <4>3. QED
        BY <4>1, <4>2
    <3>4. QED
      BY <2>1, <3>2, <3>3
  <2> HIDE DEF q
  <2>10. FeedLimit <= FeedLimit
    BY <1>7
  <2>11. QED
    BY <2>2, <2>3, <2>4, <2>6, <2>7, <2>8, <2>9, <2>10
<1>14. n <= FeedLimit \/ n > FeedLimit
  BY <1>7
<1>15. QED
  BY <1>12, <1>13, <1>14, Zenon

LEMMA NextAbove ==
    ASSUME NEW held \in Seq(RoomLines), Ascending(held), \A k \in DOMAIN held: held[k].say # 0
    PROVE /\ NextID(held) \in Nat \ {0}
          /\ \A k \in DOMAIN held: held[k].id < NextID(held)
<1>1. CASE held = <<>>
  BY <1>1 DEF NextID
<1>2. CASE held # <<>>
  <2> DEFINE n == Len(held)
             ids == {held[k].id: k \in DOMAIN held}
  <2>1. n \in DOMAIN held /\ n \in Nat /\ DOMAIN held = 1..n
    BY <1>2
  <2>2. ASSUME NEW k \in DOMAIN held PROVE held[k].id \in Nat
    <3>1. held[k] \in RoomLines
      OBVIOUS
    <3>2. QED
      BY <3>1 DEF RoomLines
  <2>3. \A k \in DOMAIN held: held[k].id <= held[n].id
    BY <2>1, <2>2 DEF Ascending, Present
  <2>4. held[n].id \in ids /\ \A y \in ids: held[n].id >= y /\ y \in Nat
    BY <2>1, <2>2, <2>3
  <2> HIDE DEF ids
  <2>5. Max(ids) \in ids /\ \A y \in ids: Max(ids) >= y
    BY <2>4 DEF Max
  <2>6. Max(ids) = held[n].id
    BY <2>4, <2>5
  <2>7. NextID(held) = 1 + held[n].id
    BY <1>2, <2>6 DEF NextID, ids
  <2>8. QED
    BY <2>1, <2>2, <2>3, <2>7
<1>3. QED
  BY <1>1, <1>2

(* The file's last line has no newline.                                     *)
Unended == file # <<>> /\ ~Last(file).ended

LEMMA AppendedLines ==
    ASSUME file \in Seq(RoomLines), NEW line \in RoomLines
    PROVE /\ Appended(line) \in Seq(RoomLines) /\ Appended(line) # <<>>
          /\ Unended =>
                 /\ Len(Appended(line)) = Len(file) /\ file # <<>>
                 /\ Appended(line)[Len(file)].say = 0
                 /\ Appended(line)[Len(file)].ended = line.ended
                 /\ \A k \in 1..(Len(file) - 1): Appended(line)[k] = file[k]
          /\ ~Unended =>
                 /\ Len(Appended(line)) = Len(file) + 1
                 /\ Appended(line)[Len(file) + 1] = line
                 /\ \A k \in 1..Len(file): Appended(line)[k] = file[k]
<1>1. CASE Unended
  <2> DEFINE n == Len(file)
             glue == [id |-> 0, say |-> 0, ended |-> line.ended]
             front == SubSeq(file, 1, n - 1)
  <2>1. n \in Nat \ {0} /\ file # <<>>
    BY <1>1 DEF Unended
  <2>9. glue.say = 0 /\ glue.ended = line.ended
    OBVIOUS
  <2>2. Appended(line) = front \o <<glue>>
    BY <1>1 DEF Appended, Unended, Front
  <2>3. glue \in RoomLines
    <3>1. line.ended \in BOOLEAN
      BY DEF RoomLines
    <3>2. QED
      BY <3>1 DEF RoomLines
  <2> HIDE DEF glue
  <2>4. front \in Seq(RoomLines) /\ Len(front) = n - 1 /\ \A k \in 1..(n - 1): front[k] = file[k]
    BY <2>1
  <2> HIDE DEF front
  <2>5. <<glue>> \in Seq(RoomLines) /\ Len(<<glue>>) = 1 /\ <<glue>>[1] = glue
    BY <2>3
  <2> DEFINE tail == <<glue>>
  <2> HIDE DEF tail
  <2>6. /\ front \o tail \in Seq(RoomLines) /\ Len(front \o tail) = n
        /\ (front \o tail)[n] = tail[1]
        /\ \A k \in 1..(n - 1): (front \o tail)[k] = front[k]
    BY <2>1, <2>4, <2>5 DEF tail
  <2>7. QED
    BY <1>1, <2>1, <2>2, <2>4, <2>5, <2>6, <2>9 DEF tail
<1>2. CASE ~Unended
  BY <1>2 DEF Appended, Unended
<1>3. QED
  BY <1>1, <1>2

LEMMA AppendedPresent ==
    ASSUME file \in Seq(RoomLines), NEW line \in RoomLines, NEW k \in DOMAIN Appended(line),
           Present(Appended(line), k)
    PROVE \/ /\ k \in DOMAIN file /\ k < Len(Appended(line))
             /\ Present(file, k) /\ Appended(line)[k] = file[k]
          \/ /\ k = Len(Appended(line)) /\ ~Unended
             /\ Appended(line)[k] = line /\ line.say # 0
<1> DEFINE all == Appended(line)
           n == Len(file)
<1>1. /\ all \in Seq(RoomLines)
      /\ Unended => /\ Len(all) = n /\ all[n].say = 0
                    /\ \A i \in 1..(n - 1): all[i] = file[i]
      /\ ~Unended => /\ Len(all) = n + 1 /\ all[n + 1] = line
                     /\ \A i \in 1..n: all[i] = file[i]
  BY AppendedLines, Zenon
<1>2. k \in DOMAIN all /\ all[k].say # 0
  BY DEF Present
<1> HIDE DEF all
<1>3. n \in Nat /\ DOMAIN file = 1..n /\ k \in 1..Len(all)
  BY <1>1, <1>2
<1>4. CASE Unended
  <2>1. k \in 1..(n - 1) /\ all[k] = file[k] /\ k < Len(all)
    BY <1>1, <1>2, <1>3, <1>4
  <2>2. QED
    BY <1>2, <1>3, <2>1 DEF all, Present
<1>5. CASE ~Unended
  <2>1. CASE k = n + 1
    BY <1>1, <1>2, <1>5, <2>1 DEF all
  <2>2. CASE k # n + 1
    <3>1. Len(all) = n + 1
      BY <1>1, <1>5
    <3>2. k \in 1..n /\ k < Len(all)
      BY <1>3, <2>2, <3>1
    <3>3. all[k] = file[k]
      BY <1>1, <1>5, <3>2
    <3>4. QED
      BY <1>2, <1>3, <3>2, <3>3 DEF all, Present
  <2>3. QED
    BY <2>1, <2>2
<1>6. QED
  BY <1>4, <1>5

(* A line above all that is there keeps the file in order.                  *)
LEMMA AppendedAscends ==
    ASSUME file \in Seq(RoomLines), Ascending(file), NEW line \in RoomLines,
           line.say # 0 => \A j \in DOMAIN file: Present(file, j) =>
                               file[j].id < line.id /\ file[j].say < line.say
    PROVE Ascending(Appended(line))
<1> DEFINE all == Appended(line)
<1>1. SUFFICES ASSUME NEW j \in DOMAIN all, NEW k \in DOMAIN all, j < k,
                      Present(all, j), Present(all, k)
               PROVE all[j].id < all[k].id /\ all[j].say < all[k].say
  BY DEF Ascending
<1>2. all \in Seq(RoomLines)
  BY AppendedLines, Zenon
<1>3. /\ \/ j \in DOMAIN file /\ Present(file, j) /\ all[j] = file[j]
         \/ j = Len(all)
      /\ \/ k \in DOMAIN file /\ Present(file, k) /\ all[k] = file[k]
         \/ all[k] = line /\ line.say # 0
  BY <1>1, AppendedPresent
<1> HIDE DEF all
<1>4. j # Len(all)
  BY <1>1, <1>2
<1>5. QED
  BY <1>1, <1>3, <1>4 DEF Ascending

(* A compaction keeps the last lines that were read, and ends each.         *)
LEMMA CompactedLines ==
    ASSUME messages \in Seq(RoomLines), file \in Seq(RoomLines)
    PROVE /\ Compacted \in Seq(RoomLines)
          /\ Len(messages) < Threshold => Compacted = file
          /\ Len(messages) >= Threshold =>
                 /\ Len(messages) - Retain \in Nat /\ Len(Compacted) = Retain
                 /\ \A k \in 1..Retain:
                        /\ Len(messages) - Retain + k \in DOMAIN messages
                        /\ SameMessage(Compacted[k], messages[Len(messages) - Retain + k])
                        /\ Compacted[k].ended
<1>1. /\ Len(messages) \in Nat /\ DOMAIN messages = 1..Len(messages)
      /\ Retain \in Nat \ {0} /\ Threshold \in Nat /\ Retain <= Threshold
  BY RoomAssumption
<1>2. CASE Len(messages) < Threshold
  BY <1>1, <1>2 DEF Compacted
<1>3. CASE Len(messages) >= Threshold
  <2> DEFINE b == Len(messages) - Retain
             Closes(k) == [messages[b + k] EXCEPT !.ended = TRUE]
  <2>1. /\ b \in Nat /\ Len(messages) = b + Retain
        /\ \A k \in 1..Retain: b + k \in 1..(b + Retain)
    BY <1>1, <1>3
  <2>2. Compacted = [k \in 1..Retain |-> Closes(k)]
    BY <1>1, <1>3 DEF Compacted
  <2> HIDE DEF b
  <2>3. ASSUME NEW k \in 1..Retain
        PROVE /\ Closes(k) \in RoomLines /\ SameMessage(Closes(k), messages[b + k])
              /\ Closes(k).ended
    <3>1. messages[b + k] \in RoomLines
      BY <1>1, <2>1
    <3>2. QED
      BY <3>1 DEF RoomLines, SameMessage
  <2> HIDE DEF Closes
  <2>4. Compacted \in [1..Retain -> RoomLines]
    BY <2>2, <2>3
  <2>5. Compacted \in Seq(RoomLines) /\ Len(Compacted) = Retain
    BY <1>1, <2>4
  <2>6. \A k \in 1..Retain: SameMessage(Compacted[k], messages[b + k]) /\ Compacted[k].ended
    BY <2>2, <2>3
  <2>7. QED
    BY <1>1, <1>3, <2>1, <2>5, <2>6 DEF b
<1>4. QED
  BY <1>1, <1>2, <1>3

LEMMA InitRoom == RoomInit => RoomInv
<1> SUFFICES ASSUME RoomInit PROVE RoomInv
  OBVIOUS
<1>1. RoomTypes
  BY DEF RoomInit, RoomTypes
<1>2. DOMAIN file = {} /\ \A f \in Followers: DOMAIN got[f] = {}
  BY DEF RoomInit
<1>3. FileInv /\ HeldInv /\ FollowInv
  BY <1>2 DEF RoomInit, FileInv, HeldInv, FollowInv, Ascending
<1>4. QED
  BY <1>1, <1>3 DEF RoomInv

LEMMA ReadsKeeps == RoomInv /\ SayReads => RoomInv'
<1> SUFFICES ASSUME RoomInv, SayReads PROVE RoomInv'
  OBVIOUS
<1> USE DEF RoomInv
<1>1. /\ messages' = Readable /\ said' = said + 1 /\ saying' = "compact" /\ saying = "idle"
      /\ UNCHANGED <<file, acked, tears, clears, saidBefore, cursor, got, joined>>
  BY DEF SayReads, follow
<1>2. file \in Seq(RoomLines) /\ Ascending(file) /\ said \in Nat
  BY DEF RoomTypes, FileInv
<1>3. /\ Readable \in Seq(RoomLines) /\ Ascending(Readable)
      /\ \A k \in DOMAIN Readable: Readable[k].say # 0
      /\ \A j \in DOMAIN file: Present(file, j) =>
             \E k \in DOMAIN Readable: Readable[k] = file[j]
      /\ \A k \in DOMAIN Readable: \E j \in DOMAIN file:
             Present(file, j) /\ Readable[k] = file[j]
  BY <1>2, ReadableAscends, Zenon
<1>4. RoomTypes'
  BY <1>1, <1>3 DEF RoomTypes
<1>5. ASSUME NEW k \in DOMAIN file, Present(file, k)
      PROVE file[k].id >= 1 /\ file[k].say <= said /\ file[k].say < said + 1
  <2>1. file[k] \in RoomLines
    BY <1>2
  <2>2. file[k].id >= 1 /\ file[k].say <= said /\ file[k].say \in Nat
    BY <1>5, <2>1 DEF FileInv, RoomLines
  <2>3. QED
    BY <1>2, <2>2
<1>6. FileInv'
  <2>1. Ascending(file)'
    BY <1>1, <1>2 DEF Ascending, Present
  <2>2. ASSUME NEW k \in DOMAIN file', Present(file, k)'
        PROVE (file[k].id >= 1 /\ file[k].say <= said /\ file[k].say < said)'
    <3>1. k \in DOMAIN file /\ Present(file, k) /\ file[k].say \in Nat
      <4>1. k \in DOMAIN file /\ Present(file, k)
        BY <1>1, <2>2 DEF Present
      <4>2. file[k] \in RoomLines
        BY <1>2, <4>1
      <4>3. QED
        BY <4>1, <4>2 DEF RoomLines
    <3>2. QED
      BY <1>1, <1>2, <1>5, <3>1
  <2>3. QED
    BY <2>1, <2>2 DEF FileInv
<1>7. HeldInv'
  <2> DEFINE held == Readable
  <2>1. messages' = held /\ file' = file /\ said' = said + 1
    BY <1>1
  <2>2. /\ held \in Seq(RoomLines) /\ Ascending(held)
        /\ \A k \in DOMAIN held: held[k].say # 0
        /\ \A j \in DOMAIN file: Present(file, j) =>
               \E k \in DOMAIN held: SameMessage(held[k], file[j])
        /\ \A k \in DOMAIN held: \E j \in DOMAIN file:
               Present(file, j) /\ SameMessage(held[k], file[j])
    BY <1>3 DEF SameMessage
  <2>3. ASSUME NEW k \in DOMAIN held
        PROVE held[k].say < said + 1 /\ held[k].id >= 1
    BY <1>3, <1>5
  <2> HIDE DEF held
  <2>4. Ascending(messages)'
    BY <2>1, <2>2 DEF Ascending, Present
  <2>5. (\A j \in DOMAIN file: Present(file, j) =>
             \E k \in DOMAIN messages: SameMessage(messages[k], file[j]))'
    BY <2>1, <2>2 DEF Present
  <2>6. (\A k \in DOMAIN messages: \E j \in DOMAIN file:
             Present(file, j) /\ SameMessage(messages[k], file[j]))'
    BY <2>1, <2>2 DEF Present
  <2>7. (\A k \in DOMAIN messages:
             messages[k].say # 0 /\ messages[k].say < said /\ messages[k].id >= 1)'
    BY <2>1, <2>2, <2>3
  <2>8. QED
    BY <2>4, <2>5, <2>6, <2>7 DEF HeldInv
<1>8. FollowInv'
  <2>1. SUFFICES ASSUME NEW f \in Followers
        PROVE /\ \A j, k \in DOMAIN got[f]: j < k => got[f][j] < got[f][k]
              /\ \A j \in DOMAIN got[f]: got[f][j] <= said + 1 /\ got[f][j] < said + 1
              /\ \A k \in DOMAIN file: Present(file, k) /\ file[k].id > cursor[f] =>
                     \A j \in DOMAIN got[f]: got[f][j] < file[k].say
    BY <1>1 DEF FollowInv, Present
  <2>2. ASSUME NEW j \in DOMAIN got[f] PROVE got[f][j] <= said + 1 /\ got[f][j] < said + 1
    <3>1. got[f][j] \in Nat
      BY DEF RoomTypes
    <3>2. got[f][j] <= said
      BY DEF FollowInv
    <3>3. QED
      BY <1>2, <3>1, <3>2
  <2>3. QED
    BY <2>2 DEF FollowInv
<1>9. QED
  BY <1>4, <1>6, <1>7, <1>8

LEMMA CompactsKeeps == RoomInv /\ SayCompacts => RoomInv'
<1> SUFFICES ASSUME RoomInv, SayCompacts PROVE RoomInv'
  OBVIOUS
<1> USE DEF RoomInv
<1>1. /\ file' = Compacted /\ saying' = "append" /\ saying = "compact"
      /\ UNCHANGED <<messages, said, acked, tears, clears, saidBefore, cursor, got, joined>>
  BY DEF SayCompacts, follow
<1>2. /\ file \in Seq(RoomLines) /\ Ascending(file)
      /\ messages \in Seq(RoomLines) /\ Ascending(messages)
  BY <1>1 DEF RoomTypes, FileInv, HeldInv
<1>3. Compacted \in Seq(RoomLines)
  BY <1>2, CompactedLines
<1>4. RoomTypes'
  BY <1>1, <1>3 DEF RoomTypes
<1>5. CASE Len(messages) < Threshold
  <2>1. file' = file
    BY <1>1, <1>2, <1>5, CompactedLines
  <2>2. FileInv' /\ FollowInv'
    BY <1>1, <2>1 DEF FileInv, FollowInv, Ascending, Present
  <2>3. HeldInv'
    BY <1>1, <2>1 DEF HeldInv, Ascending, Present
  <2>4. QED
    BY <1>4, <2>2, <2>3
<1>6. CASE ~(Len(messages) < Threshold)
  <2> DEFINE kept == Compacted
             b == Len(messages) - Retain
  <2>1. /\ kept \in Seq(RoomLines) /\ b \in Nat /\ Len(kept) = Retain
        /\ \A k \in 1..Retain:
               b + k \in DOMAIN messages /\ SameMessage(kept[k], messages[b + k])
    <3>1. Len(messages) >= Threshold
      BY <1>2, <1>6, RoomAssumption
    <3>2. QED
      BY <1>2, <3>1, CompactedLines
  <2>2. file' = kept
    BY <1>1
  <2> HIDE DEF kept, b
  <2>3. DOMAIN kept = 1..Retain /\ Retain \in Nat
    BY <2>1, RoomAssumption
  <2>4. \A k \in DOMAIN messages:
            messages[k].say # 0 /\ messages[k].say < said /\ messages[k].id >= 1
    BY <1>1 DEF HeldInv
  <2>5. \A k \in DOMAIN kept: /\ b + k \in DOMAIN messages
                              /\ kept[k].id = messages[b + k].id
                              /\ kept[k].say = messages[b + k].say
    BY <2>1, <2>3 DEF SameMessage
  <2>6. Ascending(kept)
    <3>1. SUFFICES ASSUME NEW j \in DOMAIN kept, NEW k \in DOMAIN kept, j < k
                   PROVE kept[j].id < kept[k].id /\ kept[j].say < kept[k].say
      BY DEF Ascending
    <3>2. b + j < b + k
      BY <2>1, <2>3, <3>1
    <3>3. /\ messages[b + j].id < messages[b + k].id
          /\ messages[b + j].say < messages[b + k].say
      BY <1>2, <2>4, <2>5, <3>2 DEF Ascending, Present
    <3>4. QED
      BY <2>5, <3>3
  <2>7. \A k \in DOMAIN kept: kept[k].id >= 1 /\ kept[k].say < said
    BY <2>4, <2>5
  <2>8. FileInv'
    <3>1. Ascending(file)'
      BY <2>2, <2>6 DEF Ascending, Present
    <3>2. ASSUME NEW k \in DOMAIN kept
          PROVE kept[k].id >= 1 /\ kept[k].say <= said /\ kept[k].say < said
      <4>1. kept[k].say \in Nat /\ said \in Nat
        <5>1. kept[k] \in RoomLines
          BY <2>1
        <5>2. QED
          BY <5>1 DEF RoomLines, RoomTypes
      <4>2. QED
        BY <2>7, <4>1
    <3>3. QED
      BY <1>1, <2>2, <3>1, <3>2 DEF FileInv
  <2>9. HeldInv'
    <3>1. (\A j \in DOMAIN file: Present(file, j) =>
               \E k \in DOMAIN messages: SameMessage(messages[k], file[j]))'
      BY <1>1, <2>2, <2>5 DEF SameMessage
    <3>2. Ascending(messages)'
      BY <1>1, <1>2 DEF Ascending, Present
    <3>3. QED
      BY <1>1, <2>4, <3>1, <3>2 DEF HeldInv
  <2>10. FollowInv'
    <3>1. ASSUME NEW f \in Followers, NEW k \in DOMAIN kept, kept[k].id > cursor[f],
                 NEW j \in DOMAIN got[f]
          PROVE got[f][j] < kept[k].say
      <4>1. PICK i \in DOMAIN file: Present(file, i) /\ SameMessage(messages[b + k], file[i])
        BY <1>1, <2>5 DEF HeldInv
      <4>2. file[i].id = kept[k].id /\ file[i].say = kept[k].say
        BY <2>5, <4>1 DEF SameMessage
      <4>3. QED
        BY <3>1, <4>1, <4>2 DEF FollowInv
    <3>2. QED
      BY <1>1, <2>2, <3>1 DEF FollowInv, Present
  <2>11. QED
    BY <1>4, <2>8, <2>9, <2>10
<1>7. QED
  BY <1>5, <1>6

(* What the write of a Say leaves, whole or torn.                           *)
LEMMA WriteKeeps ==
    ASSUME RoomInv, saying = "append", NEW line \in RoomLines,
           line.say # 0 => line.id = NextID(messages) /\ line.say = said,
           file' = Appended(line), saying' \in {"idle", "close"},
           messages' \in Seq(RoomLines), tears' \in Nat,
           UNCHANGED <<said, acked, clears, saidBefore, cursor, got, joined>>
    PROVE RoomInv'
<1> USE DEF RoomInv
<1> DEFINE all == Appended(line)
<1>1. file \in Seq(RoomLines) /\ Ascending(file) /\ said \in Nat
  BY DEF RoomTypes, FileInv
<1>2. NextID(messages) \in Nat \ {0} /\ \A k \in DOMAIN messages: messages[k].id < NextID(messages)
  <2>1. /\ messages \in Seq(RoomLines) /\ Ascending(messages)
        /\ \A k \in DOMAIN messages: messages[k].say # 0
    BY DEF RoomTypes, HeldInv
  <2>2. QED
    BY <2>1, NextAbove
<1>3. ASSUME NEW j \in DOMAIN file, Present(file, j)
      PROVE file[j].id < NextID(messages) /\ file[j].say < said
  <2>1. PICK k \in DOMAIN messages: SameMessage(messages[k], file[j])
    BY <1>3 DEF HeldInv
  <2>2. QED
    BY <1>2, <1>3, <2>1 DEF SameMessage, FileInv
<1>4. all \in Seq(RoomLines) /\ Ascending(all)
  <2>1. all \in Seq(RoomLines)
    BY <1>1, AppendedLines, Zenon
  <2>2. line.say # 0 => \A j \in DOMAIN file: Present(file, j) =>
                            file[j].id < line.id /\ file[j].say < line.say
    BY <1>3
  <2>3. QED
    BY <1>1, <2>1, <2>2, AppendedAscends
<1>5. ASSUME NEW k \in DOMAIN all, Present(all, k)
      PROVE \/ k \in DOMAIN file /\ Present(file, k) /\ all[k] = file[k]
            \/ all[k] = line /\ line.say # 0
  BY <1>1, <1>5, AppendedPresent
<1> HIDE DEF all
<1>6. file' = all
  BY DEF all
<1>7. RoomTypes'
  BY <1>4, <1>6 DEF RoomTypes
<1>8. FileInv'
  <2>1. Ascending(file)'
    BY <1>4, <1>6 DEF Ascending, Present
  <2>2. ASSUME NEW k \in DOMAIN all, Present(all, k) PROVE all[k].id >= 1 /\ all[k].say <= said
    <3>1. CASE k \in DOMAIN file /\ Present(file, k) /\ all[k] = file[k]
      BY <3>1 DEF FileInv
    <3>2. CASE all[k] = line /\ line.say # 0
      BY <1>1, <1>2, <3>2
    <3>3. QED
      BY <1>5, <2>2, <3>1, <3>2
  <2>3. saying' \notin {"compact", "append"}
    OBVIOUS
  <2>4. QED
    BY <1>6, <2>1, <2>2, <2>3 DEF FileInv, Present
<1>9. HeldInv'
  BY DEF HeldInv
<1>10. FollowInv'
  <2>1. ASSUME NEW f \in Followers, NEW j \in DOMAIN got[f]
        PROVE got[f][j] < said /\ got[f][j] <= said
    BY DEF FollowInv
  <2>2. ASSUME NEW f \in Followers, NEW j \in DOMAIN got[f],
               NEW k \in DOMAIN all, Present(all, k), all[k].id > cursor[f]
        PROVE got[f][j] < all[k].say
    <3>1. CASE k \in DOMAIN file /\ Present(file, k) /\ all[k] = file[k]
      BY <2>2, <3>1 DEF FollowInv
    <3>2. CASE all[k] = line /\ line.say # 0
      BY <2>1, <3>2
    <3>3. QED
      BY <1>5, <2>2, <3>1, <3>2
  <2>3. \A f \in Followers: \A j, k \in DOMAIN got[f]: j < k => got[f][j] < got[f][k]
    BY DEF FollowInv
  <2>4. QED
    BY <1>6, <2>1, <2>2, <2>3 DEF FollowInv, Present
<1>11. QED
  BY <1>7, <1>8, <1>9, <1>10

LEMMA AppendsKeeps == RoomInv /\ (SayAppends \/ Tears) => RoomInv'
<1> SUFFICES ASSUME RoomInv, SayAppends \/ Tears PROVE RoomInv'
  OBVIOUS
<1>1. /\ saying = "append"
      /\ UNCHANGED <<said, acked, clears, saidBefore, cursor, got, joined>>
      /\ said \in Nat /\ messages \in Seq(RoomLines) /\ tears \in Nat
  BY DEF SayAppends, Tears, follow, RoomInv, RoomTypes
<1>2. NextID(messages) \in Nat
  <2>1. Ascending(messages) /\ \A k \in DOMAIN messages: messages[k].say # 0
    BY <1>1 DEF RoomInv, HeldInv
  <2>2. QED
    BY <1>1, <2>1, NextAbove
<1>3. CASE SayAppends
  <2> DEFINE line == [id |-> NextID(messages), say |-> said, ended |-> TRUE]
  <2>1. line \in RoomLines /\ line.id = NextID(messages) /\ line.say = said
    BY <1>1, <1>2 DEF RoomLines
  <2>2. file' = Appended(line) /\ saying' = "close" /\ messages' = messages /\ tears' = tears
    BY <1>3 DEF SayAppends
  <2> HIDE DEF line
  <2>3. QED
    BY <1>1, <2>1, <2>2, WriteKeeps
<1>4. CASE Tears
  <2>1. PICK whole \in BOOLEAN:
            file' = Appended(IF whole
                             THEN [id |-> NextID(messages), say |-> said, ended |-> FALSE]
                             ELSE [id |-> 0, say |-> 0, ended |-> FALSE])
    BY <1>4 DEF Tears
  <2> DEFINE line == IF whole THEN [id |-> NextID(messages), say |-> said,
     ended |-> FALSE]
                              ELSE [id |-> 0, say |-> 0, ended |-> FALSE]
  <2>2. line \in RoomLines /\ (line.say # 0 => line.id = NextID(messages) /\ line.say = said)
    BY <1>1, <1>2 DEF RoomLines
  <2>3. /\ file' = Appended(line) /\ saying' = "idle" /\ messages' = <<>>
        /\ tears' \in Nat
    BY <1>1, <1>4, <2>1 DEF Tears
  <2>4. <<>> \in Seq(RoomLines)
    OBVIOUS
  <2> HIDE DEF line
  <2>5. QED
    BY <1>1, <2>2, <2>3, <2>4, WriteKeeps
<1>5. QED
  BY <1>3, <1>4

(* The end of a Say, and Clear.                                             *)
LEMMA EndsKeep == RoomInv /\ (SayReturns \/ SayFails \/ Clear) => RoomInv'
<1> SUFFICES ASSUME RoomInv, SayReturns \/ SayFails \/ Clear PROVE RoomInv'
  OBVIOUS
<1> USE DEF RoomInv
<1>1. /\ saying' = "idle" /\ UNCHANGED <<said, tears, cursor, got, joined>>
      /\ file' = file \/ file' = <<>>
      /\ messages' = <<>> \/ messages' = messages
      /\ clears' \in Nat /\ clears' >= clears /\ saidBefore' \in 0..said
      /\ acked' \subseteq 1..said
  <2>1. said \in Nat /\ clears \in Nat /\ saidBefore \in 0..said /\ acked \subseteq 1..said
        /\ (saying # "idle" => said # 0)
    BY DEF RoomTypes
  <2>2. CASE SayReturns
    <3>1. said \in 1..said
      BY <2>1, <2>2 DEF SayReturns
    <3>2. QED
      BY <2>1, <2>2, <3>1 DEF SayReturns, follow
  <2>3. CASE SayFails
    BY <2>1, <2>3 DEF SayFails, follow
  <2>4. CASE Clear
    BY <2>1, <2>4 DEF Clear, follow
  <2>5. QED
    BY <2>2, <2>3, <2>4
<1>2. RoomTypes'
  <2>1. \A f \in Followers: joined[f] \in Nat /\ joined[f] <= clears'
    BY <1>1 DEF RoomTypes
  <2>2. file' \in Seq(RoomLines) /\ messages' \in Seq(RoomLines)
    <3>1. <<>> \in Seq(RoomLines)
      OBVIOUS
    <3>2. file \in Seq(RoomLines) /\ messages \in Seq(RoomLines)
      BY DEF RoomTypes
    <3>3. QED
      BY <1>1, <3>1, <3>2, Zenon
  <2>3. QED
    BY <1>1, <2>1, <2>2 DEF RoomTypes
<1>3. FileInv'
  <2>1. CASE file' = file
    BY <1>1, <2>1 DEF FileInv, Ascending, Present
  <2>2. CASE file' = <<>>
    <3>1. DOMAIN file' = {}
      BY <2>2
    <3>2. QED
      BY <3>1 DEF FileInv, Ascending
  <2>3. QED
    BY <1>1, <2>1, <2>2
<1>4. HeldInv'
  BY <1>1 DEF HeldInv
<1>5. FollowInv'
  <2>1. CASE file' = file
    BY <1>1, <2>1 DEF FollowInv, Present
  <2>2. CASE file' = <<>>
    <3>1. DOMAIN file' = {}
      BY <2>2
    <3>2. QED
      BY <1>1, <3>1 DEF FollowInv
  <2>3. QED
    BY <1>1, <2>1, <2>2
<1>6. QED
  BY <1>2, <1>3, <1>4, <1>5

LEMMA JoinKeeps ==
    ASSUME NEW f \in Followers, RoomInv, Join(f)
    PROVE RoomInv'
<1> USE DEF RoomInv
<1>1. /\ cursor' = [cursor EXCEPT ![f] = 0] /\ got' = [got EXCEPT ![f] = <<>>]
      /\ joined' = [joined EXCEPT ![f] = clears]
      /\ UNCHANGED <<file, saying, messages, said, acked, tears, clears, saidBefore>>
  BY DEF Join, store
<1>2. RoomTypes'
  BY <1>1 DEF RoomTypes
<1>3. FileInv' /\ HeldInv'
  BY <1>1 DEF FileInv, HeldInv, Ascending, Present
<1>4. FollowInv'
  <2>1. SUFFICES ASSUME NEW g \in Followers
        PROVE /\ \A j, k \in DOMAIN got'[g]: j < k => got'[g][j] < got'[g][k]
              /\ \A j \in DOMAIN got'[g]:
                     got'[g][j] <= said /\ (saying # "idle" => got'[g][j] < said)
              /\ \A k \in DOMAIN file: Present(file, k) /\ file[k].id > cursor'[g] =>
                     \A j \in DOMAIN got'[g]: got'[g][j] < file[k].say
    BY <1>1 DEF FollowInv, Present
  <2>2. CASE g = f
    <3>1. got'[g] = <<>>
      BY <1>1, <2>2 DEF RoomTypes
    <3>2. DOMAIN got'[g] = {}
      BY <3>1
    <3>3. QED
      BY <3>2
  <2>3. CASE g # f
    <3>1. got'[g] = got[g] /\ cursor'[g] = cursor[g]
      BY <1>1, <2>3 DEF RoomTypes
    <3>2. QED
      BY <3>1 DEF FollowInv
  <2>4. QED
    BY <2>2, <2>3
<1>5. QED
  BY <1>2, <1>3, <1>4

(* What a poll does to its follower.                                        *)
LEMMA Polled ==
    ASSUME NEW f \in Followers, RoomInv, Poll(f)
    PROVE LET feed == Feed(cursor[f])
          IN  /\ cursor'[f] = IF feed = <<>> THEN cursor[f] ELSE feed[Len(feed)].id
              /\ got' \in [Followers -> Seq(Nat)] /\ Len(got'[f]) = Len(got[f]) + Len(feed)
              /\ \A j \in 1..Len(got[f]): got'[f][j] = got[f][j]
              /\ \A j \in 1..Len(feed): got'[f][Len(got[f]) + j] = feed[j].say
              /\ \A g \in Followers \ {f}: cursor'[g] = cursor[g] /\ got'[g] = got[g]
<1> DEFINE feed == Feed(cursor[f])
           says == [k \in DOMAIN feed |-> feed[k].say]
<1>1. /\ cursor' = [cursor EXCEPT ![f] = LastOf(feed, cursor[f])]
      /\ got' = [got EXCEPT ![f] = got[f] \o says]
  BY DEF Poll
<1>2. /\ cursor \in [Followers -> Nat] /\ got \in [Followers -> Seq(Nat)]
      /\ file \in Seq(RoomLines) /\ cursor[f] \in Nat /\ got[f] \in Seq(Nat)
  BY DEF RoomInv, RoomTypes
<1>3. feed \in Seq(RoomLines)
  BY <1>2, FeedLines, Zenon
<1>4. LastOf(feed, cursor[f]) = IF feed = <<>> THEN cursor[f] ELSE feed[Len(feed)].id
  BY DEF LastOf, Last
<1> HIDE DEF feed
<1>5. says \in Seq(Nat) /\ Len(says) = Len(feed) /\ \A k \in 1..Len(feed): says[k] = feed[k].say
  <2>1. DOMAIN feed = 1..Len(feed) /\ Len(feed) \in Nat
    BY <1>3
  <2>2. ASSUME NEW k \in DOMAIN feed PROVE feed[k].say \in Nat
    <3>1. feed[k] \in RoomLines
      BY <1>3
    <3>2. QED
      BY <3>1 DEF RoomLines
  <2>3. says \in [1..Len(feed) -> Nat]
    BY <2>1, <2>2
  <2>4. QED
    BY <2>1, <2>3
<1> HIDE DEF says
<1>6. /\ got[f] \o says \in Seq(Nat) /\ Len(got[f] \o says) = Len(got[f]) + Len(feed)
      /\ \A j \in 1..Len(got[f]): (got[f] \o says)[j] = got[f][j]
      /\ \A j \in 1..Len(feed): (got[f] \o says)[Len(got[f]) + j] = says[j]
  <2> DEFINE own == got[f]
  <2>1. own \in Seq(Nat) /\ says \in Seq(Nat)
    BY <1>2, <1>5
  <2> HIDE DEF own
  <2>2. /\ own \o says \in Seq(Nat) /\ Len(own \o says) = Len(own) + Len(says)
        /\ \A j \in 1..Len(own): (own \o says)[j] = own[j]
        /\ \A j \in 1..Len(says): (own \o says)[Len(own) + j] = says[j]
    BY <2>1
  <2>3. QED
    BY <1>5, <2>2 DEF own
<1>7. cursor'[f] = (IF feed = <<>> THEN cursor[f] ELSE feed[Len(feed)].id)
      /\ got'[f] = got[f] \o says /\ got' \in [Followers -> Seq(Nat)]
      /\ \A g \in Followers \ {f}: cursor'[g] = cursor[g] /\ got'[g] = got[g]
  BY <1>1, <1>2, <1>4, <1>6
<1>8. QED
  BY <1>5, <1>6, <1>7 DEF feed

LEMMA PollKeeps ==
    ASSUME NEW f \in Followers, RoomInv, Poll(f)
    PROVE RoomInv'
<1> USE DEF RoomInv
<1> DEFINE feed == Feed(cursor[f])
           n == Len(feed)
           old == Len(got[f])
<1>1. saying = "idle" /\ UNCHANGED <<file, saying, messages, said, acked, tears, clears,
                                     saidBefore, joined>>
  BY DEF Poll, store
<1>2. /\ cursor'[f] = IF feed = <<>> THEN cursor[f] ELSE feed[n].id
      /\ got' \in [Followers -> Seq(Nat)] /\ Len(got'[f]) = old + n
      /\ \A j \in 1..old: got'[f][j] = got[f][j]
      /\ \A j \in 1..n: got'[f][old + j] = feed[j].say
      /\ \A g \in Followers \ {f}: cursor'[g] = cursor[g] /\ got'[g] = got[g]
  BY Polled, Zenon
<1>3. /\ cursor \in [Followers -> Nat] /\ got[f] \in Seq(Nat) /\ file \in Seq(RoomLines)
      /\ Ascending(file) /\ cursor[f] \in Nat /\ said \in Nat
  BY DEF RoomTypes, FileInv
<1>4. feed \in Seq(RoomLines)
  BY <1>3, FeedLines, Zenon
<1>5. PICK h \in [DOMAIN feed -> DOMAIN file]:
          /\ \A i, j \in DOMAIN feed: i < j => h[i] < h[j]
          /\ \A i \in DOMAIN feed:
                 feed[i] = file[h[i]] /\ Present(file, h[i]) /\ file[h[i]].id > cursor[f]
  BY <1>3, FeedLines, Zenon
<1> HIDE DEF feed
<1>6. n \in Nat /\ old \in Nat /\ DOMAIN feed = 1..n /\ DOMAIN got[f] = 1..old
      /\ DOMAIN got'[f] = 1..(old + n)
  BY <1>2, <1>3, <1>4
<1> HIDE DEF n, old
<1>7. cursor' \in [Followers -> Nat]
  <2>1. feed = <<>> \/ feed[n].id \in Nat
    <3>1. feed # <<>> => feed[n] \in RoomLines
      BY <1>4, <1>6 DEF n
    <3>2. QED
      BY <3>1 DEF RoomLines
  <2>2. cursor'[f] \in Nat
    BY <1>2, <1>3, <2>1
  <2>3. \E e: cursor' = [cursor EXCEPT ![f] = e]
    BY DEF Poll
  <2>4. QED
    BY <1>3, <2>2, <2>3
<1>8. RoomTypes'
  BY <1>1, <1>2, <1>7 DEF RoomTypes
<1>9. FileInv' /\ HeldInv'
  BY <1>1 DEF FileInv, HeldInv, Ascending, Present
<1>10. ASSUME NEW j \in 1..n
       PROVE /\ \A i \in 1..n: i < j => feed[i].say < feed[j].say /\ feed[i].id < feed[j].id
             /\ \A i \in 1..old: got[f][i] < feed[j].say
             /\ feed[j].say <= said
  <2>1. \A i \in 1..n: i < j => feed[i].say < feed[j].say /\ feed[i].id < feed[j].id
    <3>1. SUFFICES ASSUME NEW i \in 1..n, i < j
                   PROVE feed[i].say < feed[j].say /\ feed[i].id < feed[j].id
      OBVIOUS
    <3>2. h[i] < h[j] /\ h[i] \in DOMAIN file /\ h[j] \in DOMAIN file
      BY <1>5, <1>6, <3>1
    <3>3. feed[i] = file[h[i]] /\ Present(file, h[i]) /\ feed[j] = file[h[j]] /\ Present(file, h[j])
      BY <1>5, <1>6, <3>1
    <3>4. QED
      BY <1>3, <3>2, <3>3 DEF Ascending
  <2>2. \A i \in 1..old: got[f][i] < feed[j].say
    BY <1>5, <1>6 DEF FollowInv
  <2>3. feed[j].say <= said
    BY <1>5, <1>6 DEF FileInv
  <2>4. QED
    BY <2>1, <2>2, <2>3
<1>11. ASSUME NEW j \in 1..(old + n)
       PROVE \/ j \in 1..old /\ got'[f][j] = got[f][j]
             \/ /\ j > old /\ j - old \in 1..n
                /\ got'[f][j] = feed[j - old].say
  <2>1. CASE j <= old
    BY <1>2, <1>6, <2>1
  <2>2. CASE j > old
    <3>1. j - old \in 1..n /\ old + (j - old) = j
      BY <1>6, <2>2
    <3>2. QED
      BY <1>2, <2>2, <3>1
  <2>3. QED
    BY <1>6, <2>1, <2>2
<1>12. ASSUME NEW j \in 1..(old + n), NEW k \in 1..(old + n), j < k
       PROVE got'[f][j] < got'[f][k]
  <2>1. CASE k \in 1..old
    <3>1. j \in 1..old
      BY <1>6, <1>12, <2>1
    <3>2. QED
      BY <1>2, <1>6, <1>12, <2>1, <3>1 DEF FollowInv
  <2>2. CASE k \notin 1..old
    <3>1. k - old \in 1..n /\ got'[f][k] = feed[k - old].say
      BY <1>11, <2>2
    <3>2. CASE j \in 1..old
      BY <1>2, <1>10, <3>1, <3>2
    <3>3. CASE j \notin 1..old
      <4>1. j - old \in 1..n /\ got'[f][j] = feed[j - old].say
        BY <1>11, <3>3
      <4>2. j - old < k - old
        BY <1>6, <1>12
      <4>3. QED
        BY <1>10, <3>1, <4>1, <4>2
    <3>4. QED
      BY <3>2, <3>3
  <2>3. QED
    BY <2>1, <2>2
<1>13. ASSUME NEW j \in 1..(old + n) PROVE got'[f][j] <= said
  <2>1. \A i \in 1..old: got[f][i] <= said
    BY <1>6 DEF FollowInv
  <2>2. QED
    BY <1>10, <1>11, <2>1
<1>14. ASSUME NEW k \in DOMAIN file, Present(file, k), file[k].id > cursor'[f],
              NEW j \in 1..(old + n)
       PROVE got'[f][j] < file[k].say
  <2>1. CASE feed = <<>>
    <3>1. n = 0 /\ cursor'[f] = cursor[f]
      BY <1>2, <2>1 DEF n
    <3>2. j \in 1..old /\ got'[f][j] = got[f][j]
      BY <1>2, <1>6, <3>1
    <3>3. QED
      BY <1>6, <1>14, <3>1, <3>2 DEF FollowInv
  <2>2. CASE feed # <<>>
    <3>1. n \in 1..n /\ cursor'[f] = feed[n].id
      <4>1. n # 0
        BY <1>4, <2>2 DEF n
      <4>2. QED
        BY <1>2, <1>6, <2>2, <4>1
    <3>2. \A i \in 1..n: feed[i].id \in Nat /\ feed[i].say \in Nat
      <4>1. \A i \in 1..n: feed[i] \in RoomLines
        BY <1>4, <1>6
      <4>2. QED
        BY <4>1 DEF RoomLines
    <3>3. file[k].id \in Nat /\ file[k].say \in Nat
      <4>1. file[k] \in RoomLines
        BY <1>3
      <4>2. QED
        BY <4>1 DEF RoomLines
    <3>4. h[n] \in DOMAIN file /\ Present(file, h[n]) /\ feed[n] = file[h[n]]
      BY <1>5, <1>6, <3>1
    <3>5. ~(k < h[n]) /\ k # h[n]
      BY <1>3, <1>14, <3>1, <3>2, <3>3, <3>4 DEF Ascending
    <3>6. k \in Nat /\ h[n] \in Nat
      BY <1>3, <3>4
    <3>7. feed[n].say < file[k].say
      BY <1>3, <1>14, <3>4, <3>5, <3>6 DEF Ascending
    <3>8. \A i \in 1..n: feed[i].say < file[k].say
      <4>1. ASSUME NEW i \in 1..n PROVE feed[i].say < file[k].say
        <5>1. i = n \/ feed[i].say < feed[n].say
          BY <1>6, <1>10, <3>1
        <5>2. QED
          BY <3>1, <3>2, <3>3, <3>7, <5>1
      <4>2. QED
        BY <4>1
    <3>9. \A i \in 1..old: got[f][i] < file[k].say
      <4>1. ASSUME NEW i \in 1..old PROVE got[f][i] < file[k].say
        <5>1. got[f][i] < feed[n].say /\ got[f][i] \in Nat
          BY <1>3, <1>6, <1>10, <3>1
        <5>2. QED
          BY <3>1, <3>2, <3>3, <3>7, <5>1
      <4>2. QED
        BY <4>1
    <3>10. QED
      BY <1>11, <3>8, <3>9
  <2>3. QED
    BY <2>1, <2>2
<1>15. FollowInv'
  <2>1. SUFFICES ASSUME NEW g \in Followers
        PROVE /\ \A j, k \in DOMAIN got'[g]: j < k => got'[g][j] < got'[g][k]
              /\ \A j \in DOMAIN got'[g]: got'[g][j] <= said
              /\ \A k \in DOMAIN file: Present(file, k) /\ file[k].id > cursor'[g] =>
                     \A j \in DOMAIN got'[g]: got'[g][j] < file[k].say
    BY <1>1 DEF FollowInv, Present
  <2>2. CASE g = f
    BY <1>6, <1>12, <1>13, <1>14, <2>2
  <2>3. CASE g # f
    <3>1. got'[g] = got[g] /\ cursor'[g] = cursor[g]
      BY <1>2, <2>3
    <3>2. QED
      BY <3>1 DEF FollowInv
  <2>4. QED
    BY <2>2, <2>3
<1>16. QED
  BY <1>8, <1>9, <1>15

LEMMA RoomStep == RoomInv /\ [RoomNext]_roomVars => RoomInv'
<1> SUFFICES ASSUME RoomInv, [RoomNext]_roomVars PROVE RoomInv'
  OBVIOUS
<1>1. CASE SayReads
  BY <1>1, ReadsKeeps
<1>2. CASE SayCompacts
  BY <1>2, CompactsKeeps
<1>3. CASE SayAppends \/ Tears
  BY <1>3, AppendsKeeps
<1>4. CASE SayReturns \/ SayFails \/ Clear
  BY <1>4, EndsKeep
<1>5. ASSUME NEW f \in Followers, Poll(f) PROVE RoomInv'
  BY <1>5, PollKeeps
<1>6. ASSUME NEW f \in Followers, Join(f) PROVE RoomInv'
  BY <1>6, JoinKeeps
<1>7. CASE UNCHANGED roomVars
  BY <1>7 DEF roomVars, RoomInv, RoomTypes, FileInv, HeldInv, FollowInv, Ascending, Present
<1>8. QED
  BY <1>1, <1>2, <1>3, <1>4, <1>5, <1>6, <1>7 DEF RoomNext

LEMMA RoomInvariant == RoomSpec => []RoomInv
BY InitRoom, RoomStep, PTL DEF RoomSpec

LEMMA ShownInOrder == RoomInv => FollowersInOrder
<1> SUFFICES ASSUME RoomInv PROVE FollowersInOrder
  OBVIOUS
<1>1. file \in Seq(RoomLines) /\ Ascending(file)
  BY DEF RoomInv, RoomTypes, FileInv
<1>2. \A j, k \in DOMAIN Readable: j < k =>
          Readable[j].id < Readable[k].id /\ Readable[j].say < Readable[k].say
  BY <1>1, ReadableAscends, Zenon
<1>3. \A f \in Followers: \A j, k \in DOMAIN got[f]: j < k => got[f][j] < got[f][k]
  BY DEF RoomInv, FollowInv
<1>4. QED
  BY <1>2, <1>3 DEF FollowersInOrder

(* Whatever is compacted, cleared or torn while it polls, a follower gets   *)
(* the messages in the order in which they were said and none twice.        *)
THEOREM RoomFollowersInOrder == RoomSpec => []FollowersInOrder
BY RoomInvariant, ShownInOrder, PTL

-----------------------------------------------------------------------------
(* Messages that are kept.                                                  *)
Says == {file[k].say: k \in {j \in DOMAIN file: Present(file, j)}}
Debt == IF Unended THEN 1 ELSE 0
Glued == IF saying = "close" /\ said \notin Says THEN 1 ELSE 0
Lost == Newest \ Says

(* Each write that was cut short has cost a message, or is about to: its    *)
(* line has no newline yet, or the next one was glued to it.                *)
KeptInv ==
    /\ Cardinality(Lost) + Debt + Glued <= tears
    /\ Unended => Last(file).say \notin acked
    /\ saying # "idle" => said \notin acked
    /\ saying = "close" => ~Unended

(* In ascending lines each is older than a later one by at least as many    *)
(* messages as lie between them.                                            *)
LEMMA Spread ==
    ASSUME NEW rows \in Seq(RoomLines), Ascending(rows), NEW top \in Nat,
           \A k \in DOMAIN rows: rows[k].say # 0 /\ rows[k].say < top
    PROVE \A k \in DOMAIN rows: rows[k].say + (Len(rows) - k) < top
<1> DEFINE n == Len(rows)
           G == {d \in Nat: d < n => rows[n - d].say + d < top}
<1>1. n \in Nat /\ DOMAIN rows = 1..n
  OBVIOUS
<1>2. ASSUME NEW k \in 1..n PROVE rows[k].say \in Nat
  <2>1. rows[k] \in RoomLines
    BY <1>1
  <2>2. QED
    BY <2>1 DEF RoomLines
<1> HIDE DEF n
<1>3. 0 \in G
  <2>1. 0 < n => n \in 1..n /\ n - 0 = n
    BY <1>1
  <2>2. QED
    BY <1>1, <1>2, <2>1
<1>4. ASSUME NEW d \in G PROVE d + 1 \in G
  <2>1. SUFFICES ASSUME d + 1 < n PROVE rows[n - (d + 1)].say + (d + 1) < top
    OBVIOUS
  <2>2. /\ n - d \in 1..n /\ n - (d + 1) \in 1..n /\ n - (d + 1) < n - d /\ d < n /\ d \in Nat
    BY <1>1, <2>1
  <2>3. rows[n - d].say + d < top
    BY <2>2
  <2>4. rows[n - (d + 1)].say < rows[n - d].say
    BY <1>1, <2>2 DEF Ascending, Present
  <2>5. rows[n - d].say \in Nat /\ rows[n - (d + 1)].say \in Nat
    BY <1>2, <2>2
  <2>6. QED
    BY <2>2, <2>3, <2>4, <2>5
<1>5. G = Nat
  <2> HIDE DEF G
  <2>1. G \in SUBSET Nat
    BY DEF G
  <2>2. QED
    BY <1>3, <1>4, <2>1, Induct
<1>6. ASSUME NEW k \in 1..n PROVE rows[k].say + (n - k) < top
  <2>1. n - k \in Nat /\ n - k < n /\ n - (n - k) = k
    BY <1>1
  <2>2. n - k \in G
    BY <1>5, <2>1
  <2>3. QED
    BY <2>1, <2>2
<1>7. QED
  BY <1>1, <1>6 DEF n

(* The newest acknowledged messages are the last Retain that were said.     *)
NewestByNumber ==
    /\ Newest = {m \in acked: m > saidBefore /\ said - m < Retain}
    /\ IsFiniteSet(Newest)

LEMMA NewestAre == RoomTypes => NewestByNumber
<1> SUFFICES ASSUME RoomTypes PROVE NewestByNumber
  OBVIOUS
<1>1. said \in Nat /\ acked \subseteq 1..said
  BY DEF RoomTypes
<1>2. ASSUME NEW m \in acked PROVE Cardinality({n \in m..said: n > m}) = said - m
  <2>1. m \in Nat /\ m <= said
    BY <1>1
  <2>2. {n \in m..said: n > m} = (m + 1)..said
    BY <1>1, <2>1
  <2>3. Cardinality((m + 1)..said) = said - m
    <3>1. m + 1 \in Int /\ said \in Int
      BY <1>1, <2>1
    <3>2. Cardinality((m + 1)..said) = IF m + 1 > said THEN 0 ELSE said - (m + 1) + 1
      BY <3>1, FS_Interval
    <3>3. QED
      BY <1>1, <2>1, <3>2
  <2>4. QED
    BY <2>2, <2>3
<1>3. Newest = {m \in acked: m > saidBefore /\ said - m < Retain}
  BY <1>2 DEF Newest
<1>4. IsFiniteSet(1..said)
  BY <1>1, FS_Interval
<1>5. Newest \in SUBSET (1..said)
  BY <1>1 DEF Newest
<1>6. QED
  BY <1>3, <1>4, <1>5, FS_Subset DEF NewestByNumber

LEMMA FewerLost ==
    ASSUME NEW S, NEW T, IsFiniteSet(T), S \subseteq T
    PROVE IsFiniteSet(S) /\ Cardinality(S) \in Nat /\ Cardinality(T) \in Nat
          /\ Cardinality(S) <= Cardinality(T)
BY FS_Subset, FS_CardinalityType

LEMMA OneMoreLost ==
    ASSUME NEW S, NEW T, NEW x, IsFiniteSet(T), S \subseteq T \union {x}
    PROVE IsFiniteSet(S) /\ Cardinality(S) \in Nat /\ Cardinality(T) \in Nat
          /\ Cardinality(S) <= Cardinality(T) + 1
<1> DEFINE U == T \union {x}
<1>1. IsFiniteSet(U) /\ (Cardinality(U) = Cardinality(T) \/ Cardinality(U) = Cardinality(T) + 1)
  BY FS_AddElement
<1>2. Cardinality(T) \in Nat
  BY FS_CardinalityType
<1> HIDE DEF U
<1>3. S \subseteq U
  BY DEF U
<1>4. IsFiniteSet(S) /\ Cardinality(S) \in Nat /\ Cardinality(S) <= Cardinality(U)
  BY <1>1, <1>3, FewerLost
<1>5. QED
  BY <1>1, <1>2, <1>4

LEMMA LostIsFinite ==
    ASSUME RoomTypes
    PROVE /\ IsFiniteSet(Lost) /\ Cardinality(Lost) \in Nat
          /\ Debt \in {0, 1} /\ Glued \in {0, 1} /\ tears \in Nat
<1>1. IsFiniteSet(Newest)
  BY NewestAre DEF NewestByNumber
<1>2. Lost \subseteq Newest
  BY DEF Lost
<1>3. IsFiniteSet(Lost) /\ Cardinality(Lost) \in Nat
  BY <1>1, <1>2, FewerLost
<1>4. QED
  BY <1>3 DEF Debt, Glued, RoomTypes

LEMMA Sums ==
    \A a, c, d, g, t, d1, g1, t1 \in Nat:
        a <= c /\ c + d + g <= t /\ d1 + g1 <= d + g + (t1 - t) => a + d1 + g1 <= t1
OBVIOUS

(* A step that loses no other message and leaves no new debt.               *)
LEMMA NothingMoreLost ==
    ASSUME RoomTypes, KeptInv, Lost' \subseteq Lost,
           Debt' + Glued' <= Debt + Glued + (tears' - tears),
           Debt' \in Nat, Glued' \in Nat, tears' \in Nat
    PROVE Cardinality(Lost') + Debt' + Glued' <= tears'
<1>1. /\ IsFiniteSet(Lost) /\ Cardinality(Lost) \in Nat
      /\ Debt \in Nat /\ Glued \in Nat /\ tears \in Nat
  BY LostIsFinite
<1>2. Cardinality(Lost') \in Nat /\ Cardinality(Lost') <= Cardinality(Lost)
  BY <1>1, FewerLost
<1>3. Cardinality(Lost) + Debt + Glued <= tears
  BY DEF KeptInv
<1> DEFINE a == Cardinality(Lost')
           c == Cardinality(Lost)
<1>4. /\ a \in Nat /\ c \in Nat /\ a <= c /\ c + Debt + Glued <= tears
      /\ Debt \in Nat /\ Glued \in Nat /\ tears \in Nat
  BY <1>1, <1>2, <1>3
<1> HIDE DEF a, c
<1>5. a + Debt' + Glued' <= tears'
  BY <1>4, Sums
<1>6. QED
  BY <1>5 DEF a

LEMMA InitKept == RoomInit => KeptInv
<1> SUFFICES ASSUME RoomInit PROVE KeptInv
  OBVIOUS
<1>1. Lost = {} /\ ~Unended /\ saying = "idle" /\ tears = 0
  BY DEF RoomInit, Lost, Newest, Unended
<1>2. Cardinality(Lost) = 0
  BY <1>1, FS_EmptySet, Zenon
<1>3. QED
  BY <1>1, <1>2 DEF KeptInv, Debt, Glued

LEMMA ReadsKeepsKept == RoomInv /\ KeptInv /\ SayReads => KeptInv'
<1> SUFFICES ASSUME RoomInv, KeptInv, SayReads PROVE KeptInv'
  OBVIOUS
<1>1. /\ said' = said + 1 /\ saying' = "compact" /\ saying = "idle"
      /\ UNCHANGED <<file, acked, tears, saidBefore>>
  BY DEF SayReads
<1>2. RoomTypes /\ RoomTypes'
  BY ReadsKeeps DEF RoomInv
<1>3. NewestByNumber /\ NewestByNumber'
  BY <1>2, NewestAre, PTL
<1>4. said \in Nat /\ acked \subseteq 1..said /\ Retain \in Nat
  BY <1>2, RoomAssumption DEF RoomTypes
<1>5. Newest' \subseteq Newest
  <2>1. SUFFICES ASSUME NEW m \in Newest' PROVE m \in Newest
    OBVIOUS
  <2>2. m \in acked' /\ m > saidBefore' /\ said' - m < Retain
    BY <1>3 DEF NewestByNumber
  <2>3. said - m < Retain
    <3>1. m \in acked /\ said + 1 - m < Retain
      BY <1>1, <1>4, <2>2
    <3>2. QED
      BY <1>4, <3>1
  <2>4. QED
    BY <1>1, <1>3, <2>2, <2>3 DEF NewestByNumber
<1>6. Says' = Says /\ Debt' = Debt /\ Glued' = 0
  BY <1>1 DEF Says, Present, Debt, Unended, Glued
<1>7. Lost' \subseteq Lost
  BY <1>5, <1>6 DEF Lost
<1>8. Cardinality(Lost') + Debt' + Glued' <= tears'
  <2>1. Debt \in {0, 1} /\ Glued \in {0, 1} /\ tears \in Nat
    BY <1>2, LostIsFinite
  <2>2. QED
    BY <1>1, <1>2, <1>6, <1>7, <2>1, NothingMoreLost
<1>9. said' \notin acked'
  BY <1>1, <1>4
<1>10. QED
  BY <1>1, <1>8, <1>9 DEF KeptInv, Unended, Last

LEMMA CompactsKeepsKept == RoomInv /\ KeptInv /\ SayCompacts => KeptInv'
<1> SUFFICES ASSUME RoomInv, KeptInv, SayCompacts PROVE KeptInv'
  OBVIOUS
<1>1. /\ file' = Compacted /\ saying' = "append" /\ saying = "compact"
      /\ UNCHANGED <<messages, said, acked, tears, clears, saidBefore>>
  BY DEF SayCompacts
<1>2. RoomTypes /\ RoomTypes' /\ file \in Seq(RoomLines) /\ messages \in Seq(RoomLines)
  BY CompactsKeeps DEF RoomInv, RoomTypes
<1>3. said \in Nat /\ acked \subseteq 1..said /\ Retain \in Nat \ {0} /\ Threshold \in Nat
  BY <1>2, RoomAssumption DEF RoomTypes
<1>4. Newest' = Newest
  BY <1>1 DEF Newest
<1>5. Debt \in {0, 1} /\ Glued \in {0, 1} /\ tears \in Nat
  BY <1>2, LostIsFinite
<1>6. CASE Len(messages) < Threshold
  <2>1. file' = file
    BY <1>1, <1>2, <1>6, CompactedLines
  <2>2. Says' = Says /\ Debt' = Debt /\ Glued' = 0 /\ Unended' = Unended
    BY <1>1, <2>1 DEF Says, Present, Debt, Unended, Glued
  <2>3. Lost' \subseteq Lost
    BY <1>4, <2>2 DEF Lost
  <2>4. Cardinality(Lost') + Debt' + Glued' <= tears'
    BY <1>1, <1>2, <1>5, <2>2, <2>3, NothingMoreLost
  <2>5. QED
    BY <1>1, <2>1, <2>2, <2>4 DEF KeptInv, Last
<1>7. CASE ~(Len(messages) < Threshold)
  <2> DEFINE kept == Compacted
             b == Len(messages) - Retain
  <2>1. /\ kept \in Seq(RoomLines) /\ b \in Nat /\ Len(kept) = Retain
        /\ \A k \in 1..Retain: /\ b + k \in DOMAIN messages
                               /\ SameMessage(kept[k], messages[b + k]) /\ kept[k].ended
    <3>1. Len(messages) >= Threshold
      BY <1>2, <1>3, <1>7
    <3>2. QED
      BY <1>2, <3>1, CompactedLines
  <2>2. file' = kept /\ Len(messages) = b + Retain
    BY <1>1, <1>2, <1>3
  <2> HIDE DEF kept, b
  <2>3. DOMAIN kept = 1..Retain /\ Retain \in DOMAIN kept /\ DOMAIN messages = 1..(b + Retain)
    BY <1>2, <1>3, <2>1, <2>2
  <2>4. ~Unended'
    BY <2>1, <2>2, <2>3 DEF Unended, Last
  <2>5. /\ Ascending(messages)
        /\ \A k \in DOMAIN messages: messages[k].say # 0 /\ messages[k].say < said
    BY <1>1 DEF RoomInv, HeldInv
  <2>6. \A k \in DOMAIN messages: messages[k].say + (b + Retain - k) < said
    <3>1. \A k \in DOMAIN messages: messages[k].say + (Len(messages) - k) < said
      BY <1>2, <1>3, <2>5, Spread
    <3>2. QED
      BY <1>3, <2>1, <2>2, <2>3, <3>1
  <2>7. ASSUME NEW m \in Newest, m \in Says PROVE m \in Says'
    <3>1. PICK j \in DOMAIN file: Present(file, j) /\ file[j].say = m
      BY <2>7 DEF Says
    <3>2. PICK k \in DOMAIN messages: SameMessage(messages[k], file[j])
      BY <1>1, <3>1 DEF RoomInv, HeldInv
    <3>3. messages[k].say = m /\ m # 0
      BY <3>1, <3>2 DEF SameMessage, Present
    <3>4. m \in Nat /\ said - m < Retain
      <4>1. Newest = {i \in acked: i > saidBefore /\ said - i < Retain}
        BY <1>2, NewestAre DEF NewestByNumber
      <4>2. QED
        BY <1>3, <4>1
    <3>5. m + (b + Retain - k) < said
      BY <2>6, <3>3
    <3>6. k - b \in 1..Retain /\ b + (k - b) = k
      BY <1>3, <2>1, <2>3, <3>4, <3>5
    <3>7. kept[k - b].say = m
      BY <2>1, <3>3, <3>6 DEF SameMessage
    <3>8. QED
      BY <2>2, <2>3, <3>3, <3>6, <3>7 DEF Says, Present
  <2>8. Lost' \subseteq Lost
    BY <1>4, <2>7 DEF Lost
  <2>9. Debt' = 0 /\ Glued' = 0
    BY <1>1, <2>4 DEF Debt, Glued
  <2>10. Cardinality(Lost') + Debt' + Glued' <= tears'
    BY <1>1, <1>2, <1>5, <2>8, <2>9, NothingMoreLost
  <2>11. QED
    BY <1>1, <2>4, <2>10 DEF KeptInv
<1>8. QED
  BY <1>6, <1>7

(* A write loses at most the line it is glued to, which was never           *)
(* acknowledged.                                                            *)
LEMMA WriteLoses ==
    ASSUME RoomInv, KeptInv, saying = "append", NEW line \in RoomLines,
           file' = Appended(line), UNCHANGED <<said, acked, saidBefore>>
    PROVE /\ Lost' \subseteq Lost
          /\ Unended' <=> ~line.ended
          /\ Last(file)'.say \in {0, line.say}
          /\ ~Unended /\ line.say = said /\ said # 0 => said \in Says'
<1> DEFINE all == Appended(line)
           n == Len(file)
<1>1. file \in Seq(RoomLines)
  BY DEF RoomInv, RoomTypes
<1>2. /\ all \in Seq(RoomLines) /\ all # <<>>
      /\ Unended => /\ Len(all) = n /\ file # <<>> /\ all[n].say = 0
                    /\ all[n].ended = line.ended
                    /\ \A i \in 1..(n - 1): all[i] = file[i]
      /\ ~Unended => /\ Len(all) = n + 1 /\ all[n + 1] = line
                     /\ \A i \in 1..n: all[i] = file[i]
  BY <1>1, AppendedLines, Zenon
<1> HIDE DEF all
<1>3. file' = all
  BY DEF all
<1>4. n \in Nat /\ DOMAIN file = 1..n /\ DOMAIN all = 1..Len(all) /\ Len(all) \in Nat
  BY <1>1, <1>2
<1>5. Newest' = Newest
  BY DEF Newest
<1>6. ASSUME NEW m \in acked, m \in Says PROVE m \in Says'
  <2>1. PICK k \in DOMAIN file: Present(file, k) /\ file[k].say = m
    BY <1>6 DEF Says
  <2>2. m # 0
    BY <2>1 DEF Present
  <2>3. CASE Unended
    <3>1. k # n
      BY <1>6, <2>1, <2>3 DEF KeptInv, Last
    <3>2. k \in 1..(n - 1) /\ k \in 1..Len(all)
      BY <1>2, <1>4, <2>3, <3>1
    <3>3. all[k] = file[k]
      BY <1>2, <2>3, <3>2
    <3>4. QED
      BY <1>3, <1>4, <2>1, <2>2, <3>2, <3>3 DEF Says, Present
  <2>4. CASE ~Unended
    <3>1. Len(all) = n + 1 /\ \A i \in 1..n: all[i] = file[i]
      BY <1>2, <2>4
    <3>2. k \in 1..Len(all) /\ all[k] = file[k]
      BY <1>4, <3>1
    <3>3. QED
      BY <1>3, <1>4, <2>1, <2>2, <3>2 DEF Says, Present
  <2>5. QED
    BY <2>3, <2>4
<1>7. Lost' \subseteq Lost
  BY <1>5, <1>6 DEF Lost, Newest
<1>8. Last(file)' = all[Len(all)] /\ file' # <<>>
  BY <1>2, <1>3 DEF Last
<1>9. Last(file)'.say \in {0, line.say} /\ Last(file)'.ended = line.ended
  BY <1>2, <1>8
<1>10. Unended' <=> ~line.ended
  BY <1>8, <1>9 DEF Unended
<1>11. ASSUME ~Unended, line.say = said, said # 0 PROVE said \in Says'
  <2>1. n + 1 \in 1..Len(all) /\ all[n + 1] = line
    <3>1. Len(all) = n + 1 /\ all[n + 1] = line
      BY <1>2, <1>11
    <3>2. QED
      BY <1>4, <3>1
  <2>2. QED
    BY <1>3, <1>4, <1>11, <2>1 DEF Says, Present
<1>12. QED
  BY <1>7, <1>9, <1>10, <1>11

LEMMA AppendsKeepsKept == RoomInv /\ KeptInv /\ SayAppends => KeptInv'
<1> SUFFICES ASSUME RoomInv, KeptInv, SayAppends PROVE KeptInv'
  OBVIOUS
<1> DEFINE line == [id |-> NextID(messages), say |-> said, ended |-> TRUE]
<1>1. /\ saying = "append" /\ saying' = "close" /\ file' = Appended(line)
      /\ UNCHANGED <<messages, said, acked, tears, saidBefore>>
  BY DEF SayAppends
<1>2. said \in Nat /\ said # 0 /\ acked \subseteq 1..said /\ RoomTypes /\ tears \in Nat
  BY <1>1 DEF RoomInv, RoomTypes
<1>3. NextID(messages) \in Nat
  <2>1. /\ messages \in Seq(RoomLines) /\ Ascending(messages)
        /\ \A k \in DOMAIN messages: messages[k].say # 0
    BY <1>1 DEF RoomInv, RoomTypes, HeldInv
  <2>2. QED
    BY <2>1, NextAbove
<1>4. line \in RoomLines /\ line.say = said /\ line.ended
  BY <1>2, <1>3 DEF RoomLines
<1> HIDE DEF line
<1>5. /\ Lost' \subseteq Lost /\ ~Unended'
      /\ ~Unended => said \in Says'
  BY <1>1, <1>2, <1>4, WriteLoses
<1>6. Debt' = 0 /\ Glued' \in {0, 1} /\ Glued' <= Debt
  BY <1>1, <1>5 DEF Debt, Glued
<1>7. Cardinality(Lost') + Debt' + Glued' <= tears'
  <2>1. Debt \in {0, 1} /\ Glued \in {0, 1}
    BY <1>2, LostIsFinite
  <2>2. Debt' + Glued' <= Debt + Glued + (tears' - tears)
    <3>1. tears' - tears = 0
      BY <1>1, <1>2
    <3>2. QED
      BY <1>6, <2>1, <3>1
  <2>3. QED
    BY <1>1, <1>2, <1>5, <1>6, <2>2, NothingMoreLost
<1>8. said' \notin acked'
  BY <1>1 DEF KeptInv
<1>9. QED
  BY <1>1, <1>5, <1>7, <1>8 DEF KeptInv

LEMMA TearsKeepsKept == RoomInv /\ KeptInv /\ Tears => KeptInv'
<1> SUFFICES ASSUME RoomInv, KeptInv, Tears PROVE KeptInv'
  OBVIOUS
<1>1. /\ saying = "append" /\ saying' = "idle" /\ tears' = tears + 1
      /\ UNCHANGED <<said, acked, saidBefore>>
  BY DEF Tears
<1>2. said \in Nat /\ said # 0 /\ acked \subseteq 1..said /\ RoomTypes /\ tears \in Nat
  BY <1>1 DEF RoomInv, RoomTypes
<1>3. NextID(messages) \in Nat
  <2>1. /\ messages \in Seq(RoomLines) /\ Ascending(messages)
        /\ \A k \in DOMAIN messages: messages[k].say # 0
    BY <1>1 DEF RoomInv, RoomTypes, HeldInv
  <2>2. QED
    BY <2>1, NextAbove
<1>4. PICK line \in RoomLines: file' = Appended(line) /\ line.say \in {0, said} /\ ~line.ended
  <2>1. PICK whole \in BOOLEAN:
            file' = Appended(IF whole
                             THEN [id |-> NextID(messages), say |-> said, ended |-> FALSE]
                             ELSE [id |-> 0, say |-> 0, ended |-> FALSE])
    BY DEF Tears
  <2> DEFINE remnant == IF whole THEN [id |-> NextID(messages), say |-> said,
     ended |-> FALSE]
                              ELSE [id |-> 0, say |-> 0, ended |-> FALSE]
  <2>2. remnant \in RoomLines /\ remnant.say \in {0, said} /\ ~remnant.ended
    BY <1>2, <1>3 DEF RoomLines
  <2> HIDE DEF remnant
  <2>3. QED
    BY <2>1, <2>2 DEF remnant
<1>5. Lost' \subseteq Lost /\ Unended' /\ Last(file)'.say \in {0, said}
  BY <1>1, <1>4, WriteLoses
<1>6. Debt' = 1 /\ Glued' = 0
  BY <1>1, <1>5 DEF Debt, Glued
<1>7. Cardinality(Lost') + Debt' + Glued' <= tears'
  <2>1. Debt \in {0, 1} /\ Glued \in {0, 1}
    BY <1>2, LostIsFinite
  <2>2. Debt' + Glued' <= Debt + Glued + (tears' - tears) /\ tears' \in Nat
    BY <1>1, <1>2, <1>6, <2>1
  <2>3. QED
    BY <1>2, <1>5, <1>6, <2>2, NothingMoreLost
<1>8. Last(file)'.say \notin acked'
  BY <1>1, <1>2, <1>5 DEF KeptInv
<1>9. QED
  BY <1>1, <1>7, <1>8 DEF KeptInv

LEMMA ReturnsKeepsKept == RoomInv /\ KeptInv /\ SayReturns => KeptInv'
<1> SUFFICES ASSUME RoomInv, KeptInv, SayReturns PROVE KeptInv'
  OBVIOUS
<1>1. /\ saying = "close" /\ saying' = "idle" /\ acked' = acked \union {said}
      /\ UNCHANGED <<file, said, tears, saidBefore>>
  BY DEF SayReturns
<1>2. RoomTypes /\ tears \in Nat
  BY DEF RoomInv, RoomTypes
<1>3. ~Unended /\ ~Unended'
  BY <1>1 DEF KeptInv, Unended, Last
<1>4. Says' = Says /\ Debt' = 0 /\ Debt = 0 /\ Glued' = 0
  BY <1>1, <1>3 DEF Says, Present, Debt, Glued
<1>5. Newest' \subseteq Newest \union {said}
  BY <1>1 DEF Newest
<1>6. IsFiniteSet(Lost) /\ Cardinality(Lost) \in Nat /\ Glued \in {0, 1}
  BY <1>2, LostIsFinite
<1>7. Cardinality(Lost) + Glued <= tears
  BY <1>4, <1>6 DEF KeptInv
<1>8. Cardinality(Lost') <= tears
  <2>1. CASE said \in Says
    <3>1. Lost' \subseteq Lost
      BY <1>4, <1>5, <2>1 DEF Lost
    <3>2. Cardinality(Lost') \in Nat /\ Cardinality(Lost') <= Cardinality(Lost)
      BY <1>6, <3>1, FewerLost
    <3>3. QED
      BY <1>2, <1>6, <1>7, <3>2
  <2>2. CASE said \notin Says
    <3>1. Lost' \subseteq Lost \union {said}
      BY <1>4, <1>5 DEF Lost
    <3>2. Cardinality(Lost') \in Nat /\ Cardinality(Lost') <= Cardinality(Lost) + 1
      BY <1>6, <3>1, OneMoreLost
    <3>3. Glued = 1
      BY <1>1, <2>2 DEF Glued
    <3>4. QED
      BY <1>2, <1>6, <1>7, <3>2, <3>3
  <2>3. QED
    BY <2>1, <2>2
<1>9. IsFiniteSet(Lost') /\ Cardinality(Lost') \in Nat
  <2>1. Lost' \subseteq Lost \union {said}
    BY <1>4, <1>5 DEF Lost
  <2>2. QED
    BY <1>6, <2>1, OneMoreLost
<1>10. Cardinality(Lost') + Debt' + Glued' <= tears'
  BY <1>1, <1>4, <1>8, <1>9
<1>11. QED
  BY <1>1, <1>3, <1>10 DEF KeptInv

LEMMA KeptStep == RoomInv /\ KeptInv /\ [RoomNext]_roomVars => KeptInv'
<1> SUFFICES ASSUME RoomInv, KeptInv, [RoomNext]_roomVars PROVE KeptInv'
  OBVIOUS
<1>1. RoomTypes /\ tears \in Nat /\ Debt \in {0, 1} /\ Glued \in {0, 1}
  BY LostIsFinite DEF RoomInv, RoomTypes
<1>2. CASE SayReads
  BY <1>2, ReadsKeepsKept
<1>3. CASE SayCompacts
  BY <1>3, CompactsKeepsKept
<1>4. CASE SayAppends
  BY <1>4, AppendsKeepsKept
<1>5. CASE Tears
  BY <1>5, TearsKeepsKept
<1>6. CASE SayReturns
  BY <1>6, ReturnsKeepsKept
<1>7. CASE SayFails
  <2>1. saying' = "idle" /\ UNCHANGED <<file, said, acked, tears, saidBefore>>
    BY <1>7 DEF SayFails
  <2>2. Lost' = Lost /\ Debt' = Debt /\ Glued' = 0 /\ Unended' = Unended
    BY <2>1 DEF Lost, Newest, Says, Present, Debt, Unended, Glued
  <2>3. Cardinality(Lost') + Debt' + Glued' <= tears'
    BY <1>1, <2>1, <2>2, NothingMoreLost
  <2>4. QED
    BY <2>1, <2>2, <2>3 DEF KeptInv, Last
<1>8. CASE Clear
  <2>1. /\ file' = <<>> /\ saying' = "idle" /\ saidBefore' = said
        /\ UNCHANGED <<said, acked, tears>>
    BY <1>8 DEF Clear
  <2>2. Newest' = {} /\ ~Unended'
    <3>1. \A m \in acked: ~(m > said)
      BY <1>1 DEF RoomTypes
    <3>2. QED
      BY <2>1, <3>1 DEF Newest, Unended
  <2>3. Lost' = {} /\ Debt' = 0 /\ Glued' = 0
    BY <2>1, <2>2 DEF Lost, Debt, Glued
  <2>4. Cardinality(Lost') = 0
    BY <2>3, FS_EmptySet, Zenon
  <2>5. Cardinality(Lost') + Debt' + Glued' <= tears'
    BY <1>1, <2>1, <2>3, <2>4
  <2>6. QED
    BY <2>1, <2>2, <2>5 DEF KeptInv
<1>9. CASE (\E f \in Followers: Poll(f) \/ Join(f)) \/ UNCHANGED roomVars
  <2>1. UNCHANGED <<file, saying, said, acked, tears, saidBefore>>
    BY <1>9 DEF Poll, Join, store, roomVars
  <2>2. QED
    BY <2>1 DEF KeptInv, Lost, Newest, Says, Present, Debt, Unended, Glued, Last
<1>10. QED
  BY <1>2, <1>3, <1>4, <1>5, <1>6, <1>7, <1>8, <1>9 DEF RoomNext

LEMMA ReadableSays == ASSUME RoomInv PROVE SaysInFile = Says
<1>1. file \in Seq(RoomLines) /\ Ascending(file)
  BY DEF RoomInv, RoomTypes, FileInv
<1>2. /\ \A j \in DOMAIN file: Present(file, j) =>
             \E k \in DOMAIN Readable: Readable[k] = file[j]
      /\ \A k \in DOMAIN Readable: \E j \in DOMAIN file:
             Present(file, j) /\ Readable[k] = file[j]
  BY <1>1, ReadableAscends, Zenon
<1>3. QED
  BY <1>2 DEF SaysInFile, Says

LEMMA ShownKept == RoomInv /\ KeptInv => AckedKept
<1> SUFFICES ASSUME RoomInv, KeptInv PROVE AckedKept
  OBVIOUS
<1>1. Cardinality(Lost) \in Nat /\ Debt \in {0, 1} /\ Glued \in {0, 1} /\ tears \in Nat
  BY LostIsFinite DEF RoomInv
<1>2. Cardinality(Lost) <= tears
  BY <1>1 DEF KeptInv
<1>3. QED
  BY <1>2, ReadableSays DEF AckedKept, Lost

(* The newest acknowledged messages, as many as a compaction retains, are   *)
(* in the file, but for one at most for each write that was cut short.      *)
THEOREM RoomAckedKept == RoomSpec => []AckedKept
<1>1. RoomInit => KeptInv
  BY InitKept
<1>2. RoomInv /\ KeptInv /\ [RoomNext]_roomVars => KeptInv'
  BY KeptStep
<1>3. RoomInv /\ KeptInv => AckedKept
  BY ShownKept
<1>4. QED
  BY <1>1, <1>2, <1>3, RoomInvariant, PTL DEF RoomSpec

-----------------------------------------------------------------------------
(* What followers miss.                                                     *)
Newer(S, m) == {n \in S: n > m}
Enough == Min({FeedLimit, Retain})
Received(f) == ToSet(got[f])

(* What was acknowledged, or is as soon as its Say returns.                 *)
Owed == acked \union IF saying = "close" THEN {said} ELSE {}

(* The follower has nothing newer than m, and every line that is as new     *)
(* lies above its cursor.                                                   *)
NotPassed(f, m) ==
    /\ \A n \in Received(f): n < m
    /\ \A k \in DOMAIN file: Present(file, k) /\ file[k].say >= m => file[k].id > cursor[f]

(* A message that is not in the file was compacted away by newer ones.      *)
StoredInv ==
    \A m \in Owed: m > saidBefore => m \in Says \/ Cardinality(Newer(Says, m)) >= Retain

(* A cursor is no higher than the last line: the next one gets a higher     *)
(* identifier.                                                              *)
Reached(f) == cursor[f] = 0 \/ \E k \in DOMAIN file: Present(file, k) /\ file[k].id >= cursor[f]

Excused(f, m) == NotPassed(f, m) \/ Cardinality(Newer(Received(f), m)) >= Enough

MissedInv ==
    tears = 0 =>
        /\ StoredInv
        /\ \A f \in Followers: joined[f] = clears =>
               /\ Reached(f)
               /\ \A m \in Owed \ Received(f): m > saidBefore => Excused(f, m)

LEMMA AtLeast ==
    ASSUME NEW n \in Nat, NEW T, IsFiniteSet(T), NEW h, \A i \in 1..n: h[i] \in T,
           \A i, j \in 1..n: i < j => h[i] # h[j]
    PROVE Cardinality(T) \in Nat /\ Cardinality(T) >= n
<1> DEFINE g == [i \in 1..n |-> h[i]]
<1>1. IsFiniteSet(1..n) /\ Cardinality(1..n) = n
  BY FS_Interval
<1>2. g \in [1..n -> T]
  OBVIOUS
<1>3. ASSUME NEW i \in 1..n, NEW j \in 1..n, g[i] = g[j] PROVE i = j
  BY <1>3
<1>4. g \in Injection(1..n, T)
  BY <1>2, <1>3 DEF Injection, IsInjective
<1> HIDE DEF g
<1>5. Cardinality(1..n) <= Cardinality(T)
  BY <1>4, FS_Injection
<1>6. QED
  BY <1>1, <1>5, FS_CardinalityType

LEMMA AtMost ==
    ASSUME NEW n \in Nat, NEW T, NEW h, \A t \in T: \E i \in 1..n: h[i] = t
    PROVE Cardinality(T) \in Nat /\ Cardinality(T) <= n
<1> DEFINE I == {h[i]: i \in 1..n}
           g == [i \in 1..n |-> h[i]]
<1>1. IsFiniteSet(1..n) /\ Cardinality(1..n) = n
  BY FS_Interval
<1>2. g \in Surjection(1..n, I)
  BY DEF Surjection
<1>3. T \subseteq I
  OBVIOUS
<1> HIDE DEF g, I
<1>4. IsFiniteSet(I) /\ Cardinality(I) <= Cardinality(1..n)
  BY <1>1, <1>2, FS_Surjection
<1>5. Cardinality(T) \in Nat /\ Cardinality(I) \in Nat /\ Cardinality(T) <= Cardinality(I)
  BY <1>3, <1>4, FewerLost
<1>6. QED
  BY <1>1, <1>4, <1>5

LEMMA EnoughIs ==
    /\ Enough \in Nat \ {0} /\ Enough <= FeedLimit /\ Enough <= Retain
    /\ Retain \in Nat \ {0} /\ FeedLimit \in Nat \ {0}
<1>1. Retain \in Nat \ {0} /\ FeedLimit \in Nat \ {0}
  BY RoomAssumption
<1>2. \E x \in {FeedLimit, Retain}: \A y \in {FeedLimit, Retain}: x <= y
  BY <1>1
<1>3. Enough \in {FeedLimit, Retain} /\ \A y \in {FeedLimit, Retain}: Enough <= y
  BY <1>2 DEF Enough, Min
<1>4. QED
  BY <1>1, <1>3

FiniteNumbers ==
    /\ Says \subseteq Nat /\ IsFiniteSet(Says)
    /\ \A f \in Followers: Received(f) \subseteq Nat /\ IsFiniteSet(Received(f))

LEMMA RoomSets == RoomInv => FiniteNumbers
<1> SUFFICES ASSUME RoomInv PROVE FiniteNumbers
  OBVIOUS
<1>1. said \in Nat /\ file \in Seq(RoomLines) /\ got \in [Followers -> Seq(Nat)]
  BY DEF RoomInv, RoomTypes
<1>2. IsFiniteSet(0..said)
  BY <1>1, FS_Interval
<1>3. Says \subseteq 0..said
  <2>1. ASSUME NEW k \in DOMAIN file, Present(file, k) PROVE file[k].say \in 0..said
    <3>1. file[k] \in RoomLines
      BY <1>1
    <3>2. file[k].say \in Nat /\ file[k].say <= said
      BY <2>1, <3>1 DEF RoomLines, RoomInv, FileInv
    <3>3. QED
      BY <1>1, <3>2
  <2>2. QED
    BY <2>1 DEF Says
<1>4. ASSUME NEW f \in Followers PROVE Received(f) \subseteq 0..said
  <2>1. ASSUME NEW j \in DOMAIN got[f] PROVE got[f][j] \in 0..said
    <3>1. got[f][j] \in Nat /\ got[f][j] <= said
      BY <1>1 DEF RoomInv, FollowInv
    <3>2. QED
      BY <1>1, <3>1
  <2>2. QED
    BY <2>1 DEF Received, ToSet
<1>5. \A n \in 0..said: n \in Nat
  BY <1>1
<1>6. QED
  BY <1>2, <1>3, <1>4, <1>5, FewerLost DEF FiniteNumbers

(* Sets that grow keep what is newer in them.                               *)
LEMMA MoreNewer ==
    ASSUME NEW S, NEW T, IsFiniteSet(T), S \subseteq T, NEW m
    PROVE /\ Cardinality(Newer(S, m)) \in Nat /\ Cardinality(Newer(T, m)) \in Nat
          /\ Cardinality(Newer(S, m)) <= Cardinality(Newer(T, m))
<1>1. Newer(T, m) \subseteq T /\ Newer(S, m) \subseteq Newer(T, m)
  BY DEF Newer
<1>2. IsFiniteSet(Newer(T, m))
  BY <1>1, FewerLost
<1>3. QED
  BY <1>1, <1>2, FewerLost

LEMMA NothingTorn ==
    ASSUME RoomInv, KeptInv, tears = 0
    PROVE ~Unended
<1>1. Cardinality(Lost) \in Nat /\ Debt \in {0, 1} /\ Glued \in {0, 1}
  BY LostIsFinite DEF RoomInv
<1>2. Debt = 0
  BY <1>1 DEF KeptInv
<1>3. QED
  BY <1>2 DEF Debt

LEMMA InitMissed == RoomInit => MissedInv
<1> SUFFICES ASSUME RoomInit PROVE MissedInv
  OBVIOUS
<1>1. Owed = {} /\ \A f \in Followers: cursor[f] = 0
  BY DEF RoomInit, Owed
<1>2. QED
  BY <1>1 DEF MissedInv, StoredInv, Reached

(* Nothing that the invariant speaks of moves.                              *)
LEMMA MissedSame ==
    ASSUME MissedInv, Owed' \subseteq Owed,
           UNCHANGED <<file, tears, clears, saidBefore, cursor, got, joined>>
    PROVE MissedInv'
BY DEF MissedInv, StoredInv, Reached, Excused, NotPassed, Received, Says, Present

LEMMA CompactsMissed == RoomInv /\ MissedInv /\ SayCompacts => MissedInv'
<1> SUFFICES ASSUME RoomInv, MissedInv, SayCompacts, tears = 0 PROVE MissedInv'
  BY DEF SayCompacts, MissedInv
<1>1. /\ file' = Compacted /\ saying' = "append" /\ saying = "compact"
      /\ UNCHANGED <<messages, said, acked, tears, clears, saidBefore, cursor, got, joined>>
  BY DEF SayCompacts, follow
<1>2. /\ RoomInv' /\ file \in Seq(RoomLines) /\ messages \in Seq(RoomLines)
      /\ Retain \in Nat \ {0} /\ Threshold \in Nat
  BY CompactsKeeps, RoomAssumption DEF RoomInv, RoomTypes
<1>3. Owed' = Owed /\ \A f \in Followers: Received(f)' = Received(f)
  BY <1>1 DEF Owed, Received
<1>4. CASE Len(messages) < Threshold
  <2>1. file' = file
    BY <1>1, <1>2, <1>4, CompactedLines
  <2>2. QED
    BY <1>1, <1>3, <2>1, MissedSame
<1>5. CASE ~(Len(messages) < Threshold)
  <2> DEFINE kept == Compacted
             b == Len(messages) - Retain
  <2>1. /\ kept \in Seq(RoomLines) /\ b \in Nat /\ Len(kept) = Retain
        /\ \A k \in 1..Retain:
               b + k \in DOMAIN messages /\ SameMessage(kept[k], messages[b + k])
    <3>1. Len(messages) >= Threshold
      BY <1>2, <1>5
    <3>2. QED
      BY <1>2, <3>1, CompactedLines
  <2>2. file' = kept /\ Len(messages) = b + Retain
    BY <1>1, <1>2
  <2> HIDE DEF kept, b
  <2>3. DOMAIN kept = 1..Retain /\ DOMAIN messages = 1..(b + Retain)
    BY <1>2, <2>1, <2>2
  <2>4. \A k \in 1..Retain: /\ kept[k].id = messages[b + k].id
                            /\ kept[k].say = messages[b + k].say
    BY <2>1 DEF SameMessage
  <2>5. /\ Ascending(messages)
        /\ \A k \in DOMAIN messages: messages[k].say # 0
        /\ \A j \in DOMAIN file: Present(file, j) =>
               \E k \in DOMAIN messages: SameMessage(messages[k], file[j])
        /\ \A k \in DOMAIN messages: \E j \in DOMAIN file:
               Present(file, j) /\ SameMessage(messages[k], file[j])
    BY <1>1 DEF RoomInv, HeldInv
  <2>6. \A k \in DOMAIN messages: messages[k].id \in Nat /\ messages[k].say \in Nat
    <3>1. \A k \in DOMAIN messages: messages[k] \in RoomLines
      BY <1>2
    <3>2. QED
      BY <3>1 DEF RoomLines
  <2>7. \A i, j \in DOMAIN messages: i < j =>
            messages[i].id < messages[j].id /\ messages[i].say < messages[j].say
    BY <2>5 DEF Ascending, Present
  <2>8. \A k \in 1..Retain: Present(kept, k)
    BY <2>1, <2>3, <2>4, <2>5 DEF Present
  <2>9. /\ \A m \in Says: \E k \in DOMAIN messages: messages[k].say = m
        /\ \A k \in 1..Retain: kept[k].say \in Says'
        /\ Says' = {kept[k].say: k \in 1..Retain}
    <3>1. \A m \in Says: \E k \in DOMAIN messages: messages[k].say = m
      BY <2>5 DEF Says, SameMessage
    <3>2. Says' = {kept[k].say: k \in 1..Retain}
      BY <2>2, <2>3, <2>8 DEF Says, Present
    <3>3. QED
      BY <3>1, <3>2
  <2>10. IsFiniteSet(Says') /\ IsFiniteSet(Says)
    <3>1. FiniteNumbers /\ FiniteNumbers'
      BY <1>2, RoomSets, PTL
    <3>2. QED
      BY <3>1 DEF FiniteNumbers
  <2>11. b + 1 \in DOMAIN messages /\ 1 \in 1..Retain
    BY <1>2, <2>1, <2>3
  <2>12. ASSUME NEW m \in Nat, messages[b + 1].say > m
         PROVE Cardinality(Newer(Says', m)) >= Retain
    <3> DEFINE h == [k \in 1..Retain |-> kept[k].say]
    <3>1. ASSUME NEW k \in 1..Retain PROVE h[k] \in Newer(Says', m)
      <4>1. b + k \in DOMAIN messages /\ kept[k].say = messages[b + k].say
        BY <2>1, <2>4
      <4>2. k = 1 \/ b + 1 < b + k
        BY <1>2, <2>1
      <4>3. kept[k].say > m
        BY <2>6, <2>7, <2>11, <2>12, <4>1, <4>2
      <4>4. QED
        BY <2>9, <4>3 DEF Newer
    <3>2. ASSUME NEW i \in 1..Retain, NEW j \in 1..Retain, i < j PROVE h[i] # h[j]
      <4>1. b + i \in DOMAIN messages /\ b + j \in DOMAIN messages /\ b + i < b + j
        BY <1>2, <2>1, <3>2
      <4>2. messages[b + i].say < messages[b + j].say
        BY <2>7, <4>1
      <4>3. QED
        BY <2>4, <2>6, <4>1, <4>2
    <3>3. Newer(Says', m) \subseteq Says'
      BY DEF Newer
    <3>4. IsFiniteSet(Newer(Says', m))
      BY <2>10, <3>3, FewerLost
    <3> HIDE DEF h
    <3>5. QED
      BY <1>2, <3>1, <3>2, <3>4, AtLeast
  <2>13. ASSUME NEW m \in Nat, m \notin Says, ~(messages[b + 1].say > m)
         PROVE ~(Cardinality(Newer(Says, m)) >= Retain)
    <3> DEFINE h == [i \in 1..(Retain - 1) |-> messages[b + 1 + i].say]
    <3>1. ASSUME NEW t \in Newer(Says, m) PROVE \E i \in 1..(Retain - 1): h[i] = t
      <4>1. t \in Says /\ t > m
        BY DEF Newer
      <4>2. PICK k \in DOMAIN messages: messages[k].say = t
        BY <2>9, <4>1
      <4>3. ~(k <= b + 1)
        <5>1. k < b + 1 => messages[k].say < messages[b + 1].say
          BY <2>7, <2>11
        <5>2. QED
          BY <2>1, <2>3, <2>6, <2>11, <2>13, <4>1, <4>2, <5>1
      <4>4. k - b - 1 \in 1..(Retain - 1) /\ b + 1 + (k - b - 1) = k
        BY <1>2, <2>1, <2>3, <4>3
      <4>5. QED
        BY <4>2, <4>4
    <3>2. Retain - 1 \in Nat
      BY <1>2
    <3> HIDE DEF h
    <3>3. Cardinality(Newer(Says, m)) \in Nat /\ Cardinality(Newer(Says, m)) <= Retain - 1
      BY <3>1, <3>2, AtMost
    <3>4. QED
      BY <1>2, <3>3
  <2>14. StoredInv'
    <3>1. SUFFICES ASSUME NEW m \in Owed, m > saidBefore
                   PROVE m \in Says' \/ Cardinality(Newer(Says', m)) >= Retain
      BY <1>1, <1>3 DEF StoredInv
    <3>2. m \in Nat
      BY DEF Owed, RoomInv, RoomTypes
    <3>3. CASE messages[b + 1].say > m
      BY <2>12, <3>2, <3>3
    <3>4. CASE ~(messages[b + 1].say > m)
      <4>1. m \in Says
        BY <2>13, <3>1, <3>2, <3>4 DEF MissedInv, StoredInv
      <4>2. PICK k \in DOMAIN messages: messages[k].say = m
        BY <2>9, <4>1
      <4>3. k < b + 1 => messages[k].say < messages[b + 1].say
        BY <2>7, <2>11
      <4>4. ~(k < b + 1)
        BY <2>6, <2>11, <3>2, <3>4, <4>2, <4>3
      <4>5. k - b \in 1..Retain /\ b + (k - b) = k
        BY <1>2, <2>1, <2>3, <4>4
      <4>6. kept[k - b].say = m
        BY <2>4, <4>2, <4>5
      <4>7. QED
        BY <2>9, <4>5, <4>6
    <3>5. QED
      BY <3>3, <3>4
  <2>15. ASSUME NEW f \in Followers, Reached(f) PROVE Reached(f)'
    <3>1. CASE cursor[f] = 0
      BY <1>1, <3>1 DEF Reached
    <3>2. CASE cursor[f] # 0
      <4>1. PICK j \in DOMAIN file: Present(file, j) /\ file[j].id >= cursor[f]
        BY <2>15, <3>2 DEF Reached
      <4>2. PICK k \in DOMAIN messages: SameMessage(messages[k], file[j])
        BY <2>5, <4>1
      <4>3. b + Retain \in DOMAIN messages /\ Retain \in 1..Retain
            /\ (k = b + Retain \/ k < b + Retain)
        BY <1>2, <2>1, <2>3
      <4>4. messages[k].id >= cursor[f] /\ cursor[f] \in Nat
        BY <4>1, <4>2 DEF SameMessage, RoomInv, RoomTypes
      <4>5. messages[b + Retain].id >= cursor[f]
        BY <2>6, <2>7, <4>3, <4>4
      <4>6. Present(kept, Retain) /\ kept[Retain].id >= cursor[f]
        BY <2>4, <2>8, <4>3, <4>5
      <4>7. QED
        BY <1>1, <2>2, <2>3, <4>3, <4>6 DEF Reached, Present
    <3>3. QED
      BY <3>1, <3>2
  <2>16. ASSUME NEW f \in Followers, NEW m, NotPassed(f, m) PROVE NotPassed(f, m)'
    <3>1. ASSUME NEW k \in 1..Retain, kept[k].say >= m PROVE kept[k].id > cursor[f]
      <4>1. PICK j \in DOMAIN file: Present(file, j) /\ SameMessage(messages[b + k], file[j])
        BY <2>1, <2>5
      <4>2. file[j].say = kept[k].say /\ file[j].id = kept[k].id
        BY <2>4, <4>1 DEF SameMessage
      <4>3. QED
        BY <2>16, <3>1, <4>1, <4>2 DEF NotPassed
    <3>2. QED
      BY <1>1, <1>3, <2>2, <2>3, <2>16, <3>1 DEF NotPassed, Present
  <2>17. QED
    BY <1>1, <1>3, <2>14, <2>15, <2>16 DEF MissedInv, Excused
<1>6. QED
  BY <1>4, <1>5

LEMMA AppendsMissed == RoomInv /\ KeptInv /\ MissedInv /\ SayAppends => MissedInv'
<1> SUFFICES ASSUME RoomInv, KeptInv, MissedInv, SayAppends, tears = 0 PROVE MissedInv'
  BY DEF SayAppends, MissedInv
<1> DEFINE line == [id |-> NextID(messages), say |-> said, ended |-> TRUE]
           all == Appended(line)
           n == Len(file)
<1>1. /\ saying = "append" /\ saying' = "close" /\ file' = all
      /\ UNCHANGED <<messages, said, acked, tears, clears, saidBefore, cursor, got, joined>>
  BY DEF SayAppends, follow
<1>2. /\ said \in Nat /\ said # 0 /\ acked \subseteq 1..said /\ file \in Seq(RoomLines)
      /\ messages \in Seq(RoomLines) /\ cursor \in [Followers -> Nat]
      /\ Retain \in Nat \ {0}
  BY <1>1, RoomAssumption DEF RoomInv, RoomTypes
<1>3. /\ NextID(messages) \in Nat \ {0}
      /\ \A k \in DOMAIN messages: messages[k].id < NextID(messages) /\ messages[k].id \in Nat
  <2>1. Ascending(messages) /\ \A k \in DOMAIN messages: messages[k].say # 0
    BY <1>1 DEF RoomInv, HeldInv
  <2>2. \A k \in DOMAIN messages: messages[k] \in RoomLines
    BY <1>2
  <2>3. QED
    BY <1>2, <2>1, <2>2, NextAbove DEF RoomLines
<1>4. line \in RoomLines /\ line.say = said /\ line.id = NextID(messages)
  BY <1>2, <1>3 DEF RoomLines
<1> HIDE DEF line
<1>5. ~Unended
  BY NothingTorn
<1>6. Len(all) = n + 1 /\ all[n + 1] = line /\ \A i \in 1..n: all[i] = file[i]
      /\ all \in Seq(RoomLines)
  BY <1>2, <1>4, <1>5, AppendedLines, Zenon
<1> HIDE DEF all
<1>7. /\ n \in Nat /\ DOMAIN file = 1..n /\ DOMAIN all = 1..(n + 1)
  BY <1>2, <1>6
<1>8. /\ \A k \in DOMAIN file: k \in DOMAIN all /\ all[k] = file[k]
      /\ n + 1 \in DOMAIN all /\ Present(all, n + 1)
      /\ \A k \in DOMAIN all: k \in DOMAIN file \/ k = n + 1
  BY <1>2, <1>4, <1>6, <1>7 DEF Present
<1>9. RoomInv'
  BY AppendsKeeps
<1>10. Says \subseteq Says' /\ said \in Says' /\ IsFiniteSet(Says')
  <2>1. Says' = {all[k].say: k \in {j \in DOMAIN all: Present(all, j)}}
    BY <1>1 DEF Says, Present
  <2>2. Says \subseteq Says'
    BY <1>8, <2>1 DEF Says, Present
  <2>3. said \in Says'
    BY <1>4, <1>6, <1>8, <2>1
  <2>4. IsFiniteSet(Says')
    <3>1. FiniteNumbers'
      BY <1>9, RoomSets, PTL
    <3>2. QED
      BY <3>1 DEF FiniteNumbers
  <2>5. QED
    BY <2>2, <2>3, <2>4
<1>11. Owed = acked /\ Owed' = acked \union {said} /\ \A f \in Followers: Received(f)' = Received(f)
  BY <1>1 DEF Owed, Received
<1>12. StoredInv'
  <2>1. SUFFICES ASSUME NEW m \in acked, m > saidBefore
                 PROVE m \in Says' \/ Cardinality(Newer(Says', m)) >= Retain
    BY <1>1, <1>10, <1>11 DEF StoredInv
  <2>2. m \in Says \/ Cardinality(Newer(Says, m)) >= Retain
    BY <1>11, <2>1 DEF MissedInv, StoredInv
  <2>3. /\ Cardinality(Newer(Says, m)) \in Nat /\ Cardinality(Newer(Says', m)) \in Nat
        /\ Cardinality(Newer(Says, m)) <= Cardinality(Newer(Says', m))
    BY <1>10, MoreNewer
  <2>4. QED
    BY <1>2, <1>10, <2>2, <2>3
<1>13. ASSUME NEW f \in Followers, Reached(f)
       PROVE Reached(f)' /\ cursor[f] < NextID(messages)
  <2>1. cursor[f] \in Nat
    BY <1>2
  <2>2. CASE cursor[f] = 0
    BY <1>1, <1>3, <2>2 DEF Reached
  <2>3. CASE cursor[f] # 0
    <3>1. PICK j \in DOMAIN file: Present(file, j) /\ file[j].id >= cursor[f]
      BY <1>13, <2>3 DEF Reached
    <3>2. j \in DOMAIN all /\ Present(all, j) /\ all[j].id >= cursor[f]
      BY <1>8, <3>1 DEF Present
    <3>3. Reached(f)'
      BY <1>1, <3>2 DEF Reached, Present
    <3>4. PICK k \in DOMAIN messages: SameMessage(messages[k], file[j])
      BY <1>1, <3>1 DEF RoomInv, HeldInv
    <3>5. messages[k].id >= cursor[f]
      BY <3>1, <3>4 DEF SameMessage
    <3>6. QED
      BY <1>3, <2>1, <3>3, <3>5
  <2>4. QED
    BY <2>2, <2>3
<1>14. ASSUME NEW f \in Followers, Reached(f), NEW m, NotPassed(f, m)
       PROVE NotPassed(f, m)'
  <2>1. ASSUME NEW k \in DOMAIN all, Present(all, k), all[k].say >= m
        PROVE all[k].id > cursor[f]
    <3>1. CASE k \in DOMAIN file
      BY <1>8, <1>14, <2>1, <3>1 DEF NotPassed, Present
    <3>2. CASE k = n + 1
      BY <1>2, <1>3, <1>4, <1>6, <1>13, <1>14, <3>2
    <3>3. QED
      BY <1>8, <3>1, <3>2
  <2>2. QED
    BY <1>1, <1>11, <1>14, <2>1 DEF NotPassed, Present
<1>15. ASSUME NEW f \in Followers, Reached(f) PROVE NotPassed(f, said)'
  <2>1. \A i \in Received(f): i < said
    BY <1>1 DEF RoomInv, FollowInv, Received, ToSet
  <2>2. ASSUME NEW k \in DOMAIN all, Present(all, k), all[k].say >= said
        PROVE all[k].id > cursor[f]
    <3>1. CASE k \in DOMAIN file
      <4>1. file[k].say < said /\ file[k].say >= said /\ file[k] \in RoomLines
        BY <1>1, <1>2, <1>8, <2>2, <3>1 DEF RoomInv, FileInv, Present
      <4>2. QED
        BY <1>2, <4>1 DEF RoomLines
    <3>2. CASE k = n + 1
      BY <1>2, <1>3, <1>4, <1>6, <1>13, <1>15, <3>2
    <3>3. QED
      BY <1>8, <3>1, <3>2
  <2>3. QED
    BY <1>1, <1>11, <2>1, <2>2 DEF NotPassed, Present
<1>16. ASSUME NEW f \in Followers, joined[f] = clears,
              NEW m \in Owed' \ Received(f), m > saidBefore
       PROVE Excused(f, m)'
  <2>1. Reached(f)
    BY <1>16 DEF MissedInv
  <2>2. CASE m = said
    <3>1. NotPassed(f, said)'
      BY <1>15, <2>1
    <3>2. NotPassed(f, m)'
      BY <1>1, <2>2, <3>1 DEF NotPassed
    <3>3. QED
      BY <3>2 DEF Excused
  <2>3. CASE m \in acked
    <3>1. Excused(f, m)
      BY <1>11, <1>16, <2>3 DEF MissedInv
    <3>2. QED
      BY <1>11, <1>14, <2>1, <3>1 DEF Excused
  <2>4. QED
    BY <1>11, <1>16, <2>2, <2>3
<1>17. \A f \in Followers: joined[f] = clears => Reached(f)'
  BY <1>13 DEF MissedInv
<1>18. QED
  BY <1>1, <1>11, <1>12, <1>16, <1>17 DEF MissedInv

LEMMA JoinMissed ==
    ASSUME NEW f \in Followers, RoomInv, MissedInv, Join(f)
    PROVE MissedInv'
<1>1. /\ cursor' = [cursor EXCEPT ![f] = 0] /\ got' = [got EXCEPT ![f] = <<>>]
      /\ joined' = [joined EXCEPT ![f] = clears]
      /\ UNCHANGED <<file, saying, messages, said, acked, tears, clears, saidBefore>>
  BY DEF Join, store
<1>2. /\ cursor'[f] = 0 /\ got'[f] = <<>>
      /\ \A g \in Followers \ {f}: /\ cursor'[g] = cursor[g] /\ got'[g] = got[g]
                                   /\ joined'[g] = joined[g]
  BY <1>1 DEF RoomInv, RoomTypes
<1>3. Owed' = Owed /\ Says' = Says
  BY <1>1 DEF Owed, Says, Present
<1>4. Reached(f)'
  BY <1>2 DEF Reached
<1>5. ASSUME NEW m PROVE NotPassed(f, m)'
  <2>1. Received(f)' = {}
    BY <1>2 DEF Received, ToSet
  <2>2. \A k \in DOMAIN file: Present(file, k) => file[k].id > 0
    <3>1. ASSUME NEW k \in DOMAIN file, Present(file, k) PROVE file[k].id > 0
      <4>1. file[k] \in RoomLines /\ file[k].id >= 1
        BY <3>1 DEF RoomInv, RoomTypes, FileInv
      <4>2. QED
        BY <4>1 DEF RoomLines
    <3>2. QED
      BY <3>1
  <2>3. QED
    BY <1>1, <1>2, <2>1, <2>2 DEF NotPassed, Present
<1>6. ASSUME NEW g \in Followers \ {f}
      PROVE /\ Reached(g)' <=> Reached(g)
            /\ Received(g)' = Received(g)
            /\ \A m: Excused(g, m) => Excused(g, m)'
  BY <1>1, <1>2 DEF Reached, Received, Excused, NotPassed, Present
<1>7. SUFFICES ASSUME tears = 0
               PROVE /\ StoredInv'
                     /\ \A g \in Followers: joined'[g] = clears =>
                            /\ Reached(g)'
                            /\ \A m \in Owed \ Received(g)': m > saidBefore => Excused(g, m)'
  BY <1>1, <1>3 DEF MissedInv
<1>8. StoredInv'
  BY <1>1, <1>3, <1>7 DEF MissedInv, StoredInv
<1>9. ASSUME NEW g \in Followers, joined'[g] = clears
      PROVE /\ Reached(g)'
            /\ \A m \in Owed \ Received(g)': m > saidBefore => Excused(g, m)'
  <2>1. CASE g = f
    BY <1>4, <1>5, <2>1 DEF Excused
  <2>2. CASE g # f
    BY <1>2, <1>6, <1>7, <1>9, <2>2 DEF MissedInv
  <2>3. QED
    BY <2>1, <2>2
<1>10. QED
  BY <1>8, <1>9

(* A poll that finds something goes past a message only with enough newer   *)
(* ones.                                                                    *)
LEMMA PollMissed ==
    ASSUME NEW f \in Followers, RoomInv, MissedInv, Poll(f)
    PROVE MissedInv'
<1> DEFINE feed == Feed(cursor[f])
           n == Len(feed)
           old == Len(got[f])
<1>1. saying = "idle" /\ UNCHANGED <<file, saying, messages, said, acked, tears, clears,
                                     saidBefore, joined>>
  BY DEF Poll, store
<1>2. /\ cursor'[f] = IF feed = <<>> THEN cursor[f] ELSE feed[n].id
      /\ got' \in [Followers -> Seq(Nat)] /\ Len(got'[f]) = old + n
      /\ \A j \in 1..old: got'[f][j] = got[f][j]
      /\ \A j \in 1..n: got'[f][old + j] = feed[j].say
      /\ \A g \in Followers \ {f}: cursor'[g] = cursor[g] /\ got'[g] = got[g]
  BY Polled, Zenon
<1>3. /\ got[f] \in Seq(Nat) /\ got'[f] \in Seq(Nat) /\ file \in Seq(RoomLines)
      /\ Ascending(file) /\ cursor[f] \in Nat /\ said \in Nat /\ acked \subseteq 1..said
  BY <1>2 DEF RoomInv, RoomTypes, FileInv
<1>4. feed \in Seq(RoomLines) /\ n <= FeedLimit
  BY <1>3, FeedLines, Zenon
<1>5. PICK h \in [DOMAIN feed -> DOMAIN file]:
          /\ \A i, j \in DOMAIN feed: i < j => h[i] < h[j]
          /\ \A i \in DOMAIN feed:
                 feed[i] = file[h[i]] /\ Present(file, h[i]) /\ file[h[i]].id > cursor[f]
          /\ \A j \in DOMAIN file: Present(file, j) /\ file[j].id > cursor[f] =>
                 \/ \E i \in DOMAIN feed: h[i] = j
                 \/ n = FeedLimit /\ \A i \in DOMAIN feed: j < h[i]
  BY <1>3, FeedLines, Zenon
<1>6. RoomInv'
  BY PollKeeps
<1>7. /\ n \in Nat /\ old \in Nat /\ DOMAIN feed = 1..n
      /\ DOMAIN got[f] = 1..old /\ DOMAIN got'[f] = 1..(old + n)
  BY <1>2, <1>3, <1>4
<1>8. feed = <<>> => n = 0 /\ cursor'[f] = cursor[f]
  BY <1>2
<1>9. feed # <<>> => n \in 1..n /\ cursor'[f] = feed[n].id
  <2>1. feed # <<>> => n # 0
    BY <1>4
  <2>2. QED
    BY <1>2, <1>7, <2>1
<1> HIDE DEF feed, n, old
<1>10. Owed = acked /\ Owed' = acked /\ Says' = Says
  BY <1>1 DEF Owed, Says, Present
<1>11. /\ Received(f) \subseteq Received(f)'
       /\ \A i \in 1..n: feed[i].say \in Received(f)'
  <2>1. ASSUME NEW j \in 1..old PROVE got[f][j] \in Received(f)'
    <3>1. j \in DOMAIN got'[f] /\ got'[f][j] = got[f][j]
      BY <1>2, <1>7
    <3>2. QED
      BY <3>1 DEF Received, ToSet
  <2>2. ASSUME NEW i \in 1..n PROVE feed[i].say \in Received(f)'
    <3>1. old + i \in DOMAIN got'[f] /\ got'[f][old + i] = feed[i].say
      BY <1>2, <1>7
    <3>2. QED
      BY <3>1 DEF Received, ToSet
  <2>3. Received(f) \subseteq Received(f)'
    BY <1>7, <2>1 DEF Received, ToSet
  <2>4. QED
    BY <2>2, <2>3
<1>12. IsFiniteSet(Received(f)') /\ IsFiniteSet(Says) /\ Says \subseteq Nat
  <2>1. FiniteNumbers /\ FiniteNumbers'
    BY <1>6, RoomSets, PTL
  <2>2. QED
    BY <2>1 DEF FiniteNumbers
<1>13. Enough \in Nat \ {0} /\ Enough <= FeedLimit /\ Enough <= Retain /\ FeedLimit \in Nat \ {0}
       /\ Retain \in Nat
  BY EnoughIs
<1>14. \A k \in DOMAIN file: file[k].id \in Nat /\ file[k].say \in Nat
  <2>1. \A k \in DOMAIN file: file[k] \in RoomLines
    BY <1>3
  <2>2. QED
    BY <2>1 DEF RoomLines
\* A full feed of lines after the line of a message brings enough newer ones.
<1>15. ASSUME NEW m \in Nat, NEW k \in DOMAIN file, Present(file, k), file[k].say >= m,
              n = FeedLimit, \A i \in 1..n: k < h[i]
       PROVE Cardinality(Newer(Received(f)', m)) >= Enough
  <2> DEFINE says == [i \in 1..n |-> feed[i].say]
             T == Newer(Received(f)', m)
  <2>1. ASSUME NEW i \in 1..n PROVE says[i] \in T /\ feed[i].say \in Nat
    <3>1. h[i] \in DOMAIN file /\ feed[i] = file[h[i]] /\ Present(file, h[i]) /\ k < h[i]
      BY <1>5, <1>7, <1>15
    <3>2. file[k].say < file[h[i]].say
      BY <1>3, <1>15, <3>1 DEF Ascending
    <3>3. feed[i].say > m /\ feed[i].say \in Nat
      BY <1>14, <1>15, <3>1, <3>2
    <3>4. QED
      BY <1>11, <3>3 DEF Newer
  <2>2. ASSUME NEW i \in 1..n, NEW j \in 1..n, i < j PROVE says[i] # says[j]
    <3>1. h[i] < h[j] /\ h[i] \in DOMAIN file /\ h[j] \in DOMAIN file
      BY <1>5, <1>7, <2>2
    <3>2. /\ feed[i] = file[h[i]] /\ Present(file, h[i])
          /\ feed[j] = file[h[j]] /\ Present(file, h[j])
      BY <1>5, <1>7
    <3>3. feed[i].say < feed[j].say
      BY <1>3, <3>1, <3>2 DEF Ascending
    <3>4. QED
      BY <2>1, <3>3
  <2>3. T \subseteq Received(f)'
    BY DEF Newer
  <2>4. IsFiniteSet(T)
    BY <1>12, <2>3, FewerLost
  <2> HIDE DEF says, T
  <2>5. Cardinality(T) \in Nat /\ Cardinality(T) >= n
    BY <1>7, <2>1, <2>2, <2>4, AtLeast
  <2>6. QED
    BY <1>7, <1>13, <1>15, <2>5 DEF T
<1>16. ASSUME tears = 0, joined[f] = clears, feed # <<>>,
              NEW m \in acked \ Received(f)', m > saidBefore
       PROVE Cardinality(Newer(Received(f)', m)) >= Enough
  <2>1. Excused(f, m) /\ m \in Nat
    BY <1>3, <1>10, <1>11, <1>16 DEF MissedInv
  <2>2. CASE Cardinality(Newer(Received(f), m)) >= Enough
    <3>1. /\ Cardinality(Newer(Received(f), m)) \in Nat
          /\ Cardinality(Newer(Received(f)', m)) \in Nat
          /\ Cardinality(Newer(Received(f), m)) <= Cardinality(Newer(Received(f)', m))
      BY <1>11, <1>12, MoreNewer
    <3>2. QED
      BY <1>13, <2>2, <3>1
  <2>3. CASE NotPassed(f, m)
    <3>1. \A k \in DOMAIN file: Present(file, k) /\ file[k].say >= m => file[k].id > cursor[f]
      BY <2>3 DEF NotPassed
    <3>2. CASE \E k \in DOMAIN file: /\ Present(file, k) /\ file[k].say >= m
                                     /\ ~\E i \in 1..n: h[i] = k
      <4>1. PICK k \in DOMAIN file: /\ Present(file, k) /\ file[k].say >= m
                                    /\ ~\E i \in 1..n: h[i] = k
        BY <3>2
      <4>2. n = FeedLimit /\ \A i \in 1..n: k < h[i]
        BY <1>5, <1>7, <3>1, <4>1
      <4>3. QED
        BY <1>15, <2>1, <4>1, <4>2
    <3>3. CASE \A k \in DOMAIN file: Present(file, k) /\ file[k].say >= m =>
                   \E i \in 1..n: h[i] = k
      <4>1. ASSUME NEW t \in Says, t >= m PROVE t \in Received(f)'
        <5>1. PICK k \in DOMAIN file: Present(file, k) /\ file[k].say = t
          BY DEF Says
        <5>2. PICK i \in 1..n: h[i] = k
          BY <3>3, <4>1, <5>1
        <5>3. feed[i] = file[k]
          BY <1>5, <1>7, <5>2
        <5>4. QED
          BY <1>11, <5>1, <5>3
      <4>2. m \notin Says
        BY <1>16, <2>1, <4>1
      <4>3. Cardinality(Newer(Says, m)) >= Retain
        BY <1>10, <1>16, <4>2 DEF MissedInv, StoredInv
      <4>4. Newer(Says, m) \subseteq Newer(Received(f)', m)
        BY <1>12, <2>1, <4>1 DEF Newer
      <4>5. IsFiniteSet(Newer(Received(f)', m))
        <5>1. Newer(Received(f)', m) \subseteq Received(f)'
          BY DEF Newer
        <5>2. QED
          BY <1>12, <5>1, FewerLost
      <4>6. /\ Cardinality(Newer(Says, m)) \in Nat
            /\ Cardinality(Newer(Received(f)', m)) \in Nat
            /\ Cardinality(Newer(Says, m)) <= Cardinality(Newer(Received(f)', m))
        BY <4>4, <4>5, FewerLost
      <4>7. QED
        BY <1>13, <4>3, <4>6
    <3>4. QED
      BY <3>2, <3>3
  <2>4. QED
    BY <2>1, <2>2, <2>3 DEF Excused
<1>17. ASSUME NEW g \in Followers, cursor'[g] = cursor[g], got'[g] = got[g]
       PROVE /\ Reached(g) => Reached(g)'
             /\ Received(g)' = Received(g)
             /\ \A m: Excused(g, m) => Excused(g, m)'
  BY <1>1, <1>17 DEF Reached, Received, Excused, NotPassed, Present
<1>18. feed = <<>> => got'[f] = got[f]
  <2>1. SUFFICES ASSUME feed = <<>> PROVE got'[f] = got[f]
    OBVIOUS
  <2>2. n = 0
    BY <1>8, <2>1
  <2>3. Len(got'[f]) = Len(got[f]) /\ \A j \in 1..Len(got[f]): got'[f][j] = got[f][j]
    BY <1>2, <1>7, <2>2 DEF old
  <2>4. QED
    BY <1>3, <2>3, SeqEqual
<1>19. feed # <<>> => Reached(f)'
  <2>1. SUFFICES ASSUME feed # <<>> PROVE Reached(f)'
    OBVIOUS
  <2>2. n \in 1..n /\ cursor'[f] = feed[n].id
    BY <1>9, <2>1
  <2>3. h[n] \in DOMAIN file /\ Present(file, h[n]) /\ file[h[n]].id = cursor'[f]
    BY <1>5, <1>7, <2>2
  <2>4. file[h[n]].id >= cursor'[f]
    BY <1>14, <2>3
  <2>5. QED
    BY <1>1, <2>3, <2>4 DEF Reached, Present
<1>20. SUFFICES ASSUME tears = 0
                PROVE /\ StoredInv'
                      /\ \A g \in Followers: joined[g] = clears =>
                             /\ Reached(g)'
                             /\ \A m \in acked \ Received(g)': m > saidBefore => Excused(g, m)'
  BY <1>1, <1>10 DEF MissedInv
<1>21. StoredInv'
  BY <1>1, <1>10, <1>20 DEF MissedInv, StoredInv
<1>22. ASSUME NEW g \in Followers, joined[g] = clears
       PROVE /\ Reached(g)'
             /\ \A m \in acked \ Received(g)': m > saidBefore => Excused(g, m)'
  <2>1. CASE g = f /\ feed # <<>>
    <3>1. ASSUME NEW m \in acked \ Received(f)', m > saidBefore PROVE Excused(f, m)'
      <4>1. Cardinality(Newer(Received(f)', m)) >= Enough
        BY <1>16, <1>20, <1>22, <2>1, <3>1
      <4>2. QED
        BY <4>1 DEF Excused, Newer
    <3>2. QED
      BY <1>19, <2>1, <3>1
  <2>2. CASE g # f \/ feed = <<>>
    <3>1. cursor'[g] = cursor[g] /\ got'[g] = got[g]
      BY <1>2, <1>8, <1>18, <2>2
    <3>2. QED
      BY <1>10, <1>17, <1>20, <1>22, <3>1 DEF MissedInv
  <2>3. QED
    BY <2>1, <2>2
<1>23. QED
  BY <1>21, <1>22

LEMMA MissedStep == RoomInv /\ KeptInv /\ MissedInv /\ [RoomNext]_roomVars => MissedInv'
<1> SUFFICES ASSUME RoomInv, KeptInv, MissedInv, [RoomNext]_roomVars PROVE MissedInv'
  OBVIOUS
<1>1. CASE SayReads \/ SayReturns \/ SayFails \/ UNCHANGED roomVars
  <2>1. /\ Owed' \subseteq Owed
        /\ UNCHANGED <<file, tears, clears, saidBefore, cursor, got, joined>>
    BY <1>1 DEF SayReads, SayReturns, SayFails, roomVars, follow, Owed
  <2>2. QED
    BY <2>1, MissedSame
<1>2. CASE SayCompacts
  BY <1>2, CompactsMissed
<1>3. CASE SayAppends
  BY <1>3, AppendsMissed
<1>4. CASE Tears
  <2>1. tears \in Nat /\ tears' = tears + 1
    BY <1>4 DEF Tears, RoomInv, RoomTypes
  <2>2. tears' # 0
    BY <2>1
  <2>3. QED
    BY <2>2 DEF MissedInv
<1>5. CASE Clear
  <2>1. /\ saying' = "idle" /\ clears' = clears + 1 /\ saidBefore' = said
        /\ UNCHANGED <<said, acked, joined>>
    BY <1>5 DEF Clear, follow
  <2>2. /\ said \in Nat /\ acked \subseteq 1..said /\ clears \in Nat
        /\ \A f \in Followers: joined[f] \in Nat /\ joined[f] <= clears
    BY DEF RoomInv, RoomTypes
  <2>3. \A m \in Owed': ~(m > saidBefore')
    BY <2>1, <2>2 DEF Owed
  <2>4. \A f \in Followers: joined'[f] # clears'
    BY <2>1, <2>2
  <2>5. QED
    BY <2>3, <2>4 DEF MissedInv, StoredInv
<1>6. ASSUME NEW f \in Followers, Poll(f) PROVE MissedInv'
  BY <1>6, PollMissed
<1>7. ASSUME NEW f \in Followers, Join(f) PROVE MissedInv'
  BY <1>7, JoinMissed
<1>8. QED
  BY <1>1, <1>2, <1>3, <1>4, <1>5, <1>6, <1>7 DEF RoomNext

LEMMA ShownMissed == RoomInv /\ MissedInv => MissedOnlyFarBehind
<1> SUFFICES ASSUME RoomInv, MissedInv, tears = 0,
                    NEW f \in Followers, joined[f] = clears,
                    NEW m \in acked \ ToSet(got[f]), m > saidBefore,
                    NEW n \in ToSet(got[f]), n > m
             PROVE Cardinality({i \in ToSet(got[f]): i > m}) >= Min({FeedLimit, Retain})
  BY DEF MissedOnlyFarBehind
<1>1. m \in Owed \ Received(f)
  BY DEF Owed, Received
<1>2. Excused(f, m)
  BY <1>1 DEF MissedInv
<1>3. n \in Nat /\ m \in Nat
  <2>1. Received(f) \subseteq Nat
    BY RoomSets DEF FiniteNumbers
  <2>2. QED
    BY <2>1 DEF Received, RoomInv, RoomTypes
<1>4. ~NotPassed(f, m)
  BY <1>3 DEF NotPassed, Received
<1>5. QED
  BY <1>2, <1>4 DEF Excused, Newer, Enough, Received

(* Without a torn write, a follower that joined after the last Clear went   *)
(* past an acknowledged message only with a full poll of newer ones or with *)
(* all that a compaction retains.                                           *)
THEOREM RoomMissedOnlyFarBehind == RoomSpec => []MissedOnlyFarBehind
<1>1. RoomInit => KeptInv /\ MissedInv
  BY InitKept, InitMissed
<1>2. RoomInv /\ KeptInv /\ MissedInv /\ [RoomNext]_roomVars => KeptInv' /\ MissedInv'
  BY KeptStep, MissedStep
<1>3. RoomInv /\ MissedInv => MissedOnlyFarBehind
  BY ShownMissed
<1>4. QED
  BY <1>1, <1>2, <1>3, RoomInvariant, PTL DEF RoomSpec

-----------------------------------------------------------------------------
(* The archived sessions.                                                   *)
ArchiveTypeOK ==
    /\ archive \in [form: Forms, strings: SUBSET (Archivable \union {""})]
    /\ archiveMutex \in Callers \union {NoCaller}
    /\ at \in [Callers -> {"idle", "called", "locked", "loaded", "saved"}]
    /\ asks \in [Callers -> Changes \union {Listing}]
    /\ read \in [Callers -> SUBSET Archivable]
    /\ agreed \in SUBSET Archivable

(* A call between its lock and its return is the one that holds the mutex.  *)
HolderWorks ==
    \A c \in Callers: at[c] \in {"locked", "loaded", "saved"} <=> archiveMutex = c

ArchiveInv == ArchiveTypeOK /\ HolderWorks /\ ArchiveLosesNothing

(* What a call that names a session makes of a clean list is clean.         *)
LEMMA ChangedIsClean ==
    ASSUME NEW ids \in SUBSET Archivable, NEW change \in Changes, NamesOne(change)
    PROVE  /\ Changed(ids, change) \in SUBSET Archivable
           /\ CleanIDs(Changed(ids, change)) = Changed(ids, change)
<1>1. "" \notin Archivable
  BY ArchiveAssumption
<1>2. CASE change.kind = "replace"
  <2>1. change.ids \in SUBSET (Archivable \union {""})
    BY <1>2 DEF Changes
  <2>2. Changed(ids, change) = change.ids \ {""}
    BY <1>2 DEF Changed, CleanIDs
  <2>3. QED
    BY <2>1, <2>2 DEF CleanIDs
<1>3. CASE change.kind # "replace"
  <2>1. change.kind \in {"archive", "unarchive", "toggle"} /\ change.id \in Archivable
    BY <1>3 DEF Changes, NamesOne
  <2>2. Changed(ids, change) \in {ids \union {change.id}, ids \ {change.id}}
    BY <2>1 DEF Changed
  <2>3. QED
    BY <1>1, <2>1, <2>2 DEF CleanIDs
<1>4. QED
  BY <1>2, <1>3

LEMMA ListingChangesNothing == Listing \notin Changes
BY DEF Listing, Changes

LEMMA ArchiveInit == AInit => ArchiveInv
<1> SUFFICES ASSUME AInit PROVE ArchiveInv
  OBVIOUS
<1>1. archive \in [form: Forms, strings: SUBSET (Archivable \union {""})]
  <2>1. CASE archive \in [form: {"array", "object"}, strings: SUBSET (Archivable \union {""})]
    BY <2>1 DEF Forms
  <2>2. CASE archive = [form |-> "absent", strings |-> {}]
    BY <2>2 DEF Forms
  <2>3. CASE archive = [form |-> "broken", strings |-> {}]
    BY <2>3 DEF Forms
  <2>4. QED
    BY <2>1, <2>2, <2>3 DEF AInit
<1>2. CleanIDs(archive.strings) \in SUBSET Archivable
  BY <1>1 DEF CleanIDs
<1>3. ArchiveTypeOK
  BY <1>1, <1>2 DEF AInit, ArchiveTypeOK, Listing
<1>4. HolderWorks /\ ArchiveLosesNothing
  BY ArchiveAssumption DEF AInit, HolderWorks, ArchiveLosesNothing
<1>5. QED
  BY <1>3, <1>4 DEF ArchiveInv

(* A call that returns leaves the list to the others as it is.              *)
LEMMA Returning ==
    ASSUME ArchiveInv, NEW c \in Callers, archiveMutex = c, Returns(c),
           UNCHANGED <<archive, calls, crashes, agreed>>
    PROVE  ArchiveInv'
<1> USE DEF ArchiveInv
<1>1. ArchiveTypeOK'
  BY DEF ArchiveTypeOK, Returns, Listing
<1>2. HolderWorks'
  BY ArchiveAssumption DEF ArchiveTypeOK, HolderWorks, Returns
<1>3. ArchiveLosesNothing'
  BY DEF ArchiveTypeOK, ArchiveLosesNothing, Returns
<1>4. QED
  BY <1>1, <1>2, <1>3

LEMMA ArchiveStep == ArchiveInv /\ [ANext]_avars => ArchiveInv'
<1> SUFFICES ASSUME ArchiveInv, [ANext]_avars PROVE ArchiveInv'
  OBVIOUS
<1> USE DEF ArchiveInv
<1>1. ASSUME NEW c \in Callers, Calls(c) PROVE ArchiveInv'
  <2>1. ArchiveTypeOK'
    BY <1>1 DEF ArchiveTypeOK, Calls
  <2>2. HolderWorks' /\ ArchiveLosesNothing'
    BY <1>1 DEF ArchiveTypeOK, HolderWorks, ArchiveLosesNothing, Calls
  <2>3. QED
    BY <2>1, <2>2
<1>2. ASSUME NEW c \in Callers, Locks(c) PROVE ArchiveInv'
  <2>1. ArchiveTypeOK'
    BY <1>2 DEF ArchiveTypeOK, Locks
  <2>2. HolderWorks'
    BY <1>2, ArchiveAssumption DEF ArchiveTypeOK, HolderWorks, Locks, MutexFree
  <2>3. ArchiveLosesNothing'
    BY <1>2 DEF ArchiveTypeOK, ArchiveLosesNothing, Locks
  <2>4. QED
    BY <2>1, <2>2, <2>3
<1>3. ASSUME NEW c \in Callers, Loads(c) PROVE ArchiveInv'
  <2>1. read' = [read EXCEPT ![c] = agreed]
    BY <1>3 DEF Loads, ArchiveLosesNothing
  <2>2. ArchiveTypeOK'
    BY <1>3, <2>1 DEF ArchiveTypeOK, Loads
  <2>3. HolderWorks'
    BY <1>3 DEF ArchiveTypeOK, HolderWorks, Loads
  <2>4. ArchiveLosesNothing'
    BY <1>3, <2>1 DEF ArchiveTypeOK, ArchiveLosesNothing, Loads
  <2>5. QED
    BY <2>2, <2>3, <2>4
<1>4. ASSUME NEW c \in Callers, Fails(c) \/ Lists(c) \/ AnswersChange(c) PROVE ArchiveInv'
  <2>1. /\ at[c] \in {"locked", "loaded", "saved"} /\ Returns(c)
        /\ UNCHANGED <<archive, calls, crashes, agreed>>
    BY <1>4 DEF Fails, Lists, AnswersChange
  <2>2. archiveMutex = c
    BY <2>1 DEF HolderWorks
  <2>3. QED
    BY <2>1, <2>2, Returning
<1>5. ASSUME NEW c \in Callers, Saves(c) PROVE ArchiveInv'
  <2>1. read[c] = agreed /\ asks[c] \in Changes /\ NamesOne(asks[c])
    BY <1>5, ListingChangesNothing DEF Saves, ArchiveTypeOK, ArchiveLosesNothing
  <2> DEFINE new == Changed(agreed, asks[c])
  <2>2. new \in SUBSET Archivable /\ CleanIDs(new) = new
    BY <2>1, ChangedIsClean DEF ArchiveTypeOK
  <2> HIDE DEF new
  <2>3. /\ archive' = [form |-> "array", strings |-> new]
        /\ agreed' = new /\ read' = [read EXCEPT ![c] = new]
        /\ at' = [at EXCEPT ![c] = "saved"]
        /\ UNCHANGED <<archiveMutex, asks, calls, crashes>>
    BY <1>5, <2>1, <2>2 DEF Saves, new
  <2>4. ArchiveTypeOK'
    BY <2>2, <2>3 DEF ArchiveTypeOK, Forms
  <2>5. at[c] = "loaded"
    BY <1>5 DEF Saves
  <2>6. HolderWorks'
    BY <2>3, <2>5 DEF ArchiveTypeOK, HolderWorks
  <2>7. \A d \in Callers \ {c}: at[d] \notin {"loaded", "saved"}
    BY <2>5 DEF HolderWorks
  <2>8. ArchiveLosesNothing'
    BY <2>2, <2>3, <2>7 DEF ArchiveTypeOK, ArchiveLosesNothing, CleanIDs
  <2>9. QED
    BY <2>4, <2>6, <2>8
<1>6. ASSUME Crashes PROVE ArchiveInv'
  <2>1. archive'.strings = archive.strings /\ archive'.form \in Forms
        /\ archive' \in [form: Forms, strings: SUBSET (Archivable \union {""})]
    BY <1>6 DEF Crashes, ArchiveTypeOK, Forms
  <2>2. ArchiveTypeOK'
    BY <1>6, <2>1 DEF ArchiveTypeOK, Crashes
  <2>3. HolderWorks'
    BY <1>6, ArchiveAssumption DEF HolderWorks, Crashes
  <2>4. ArchiveLosesNothing'
    BY <1>6, <2>1 DEF ArchiveLosesNothing, Crashes
  <2>5. QED
    BY <2>2, <2>3, <2>4
<1>7. ASSUME UNCHANGED avars PROVE ArchiveInv'
  BY <1>7 DEF avars, ArchiveTypeOK, HolderWorks, ArchiveLosesNothing
<1>8. QED
  BY <1>1, <1>2, <1>3, <1>4, <1>5, <1>6, <1>7 DEF ANext

(* archive.go: every change that was saved is in the list, and each call    *)
(* answers the list it made.                                                *)
THEOREM ArchiveKeepsAll == ASpec => []ArchiveLosesNothing
<1>1. AInit => ArchiveInv
  BY ArchiveInit
<1>2. ArchiveInv /\ [ANext]_avars => ArchiveInv'
  BY ArchiveStep
<1>3. ArchiveInv => ArchiveLosesNothing
  BY DEF ArchiveInv
<1>4. QED
  BY <1>1, <1>2, <1>3, PTL DEF ASpec

-----------------------------------------------------------------------------
(* Ascending lists of numbers. One lists a set when it has its members and  *)
(* no other.                                                                *)
Rises(s) == s \in Seq(Nat) /\ \A i, j \in 1..Len(s): i < j => s[i] < s[j]
Has(s, k) == \E i \in 1..Len(s): s[i] = k
InOrder(s, S) == Rises(s) /\ \A k: Has(s, k) <=> k \in S

LEMMA ListsNone == ASSUME NEW S, S = {} PROVE InOrder(<<>>, S)
BY DEF InOrder, Rises, Has

LEMMA EmptyLists ==
    ASSUME NEW s, NEW S, InOrder(s, S), s = <<>>
    PROVE S = {}
BY DEF InOrder, Has

LEMMA RisesType == ASSUME NEW s, Rises(s) PROVE s \in Seq(Nat) /\ Len(s) \in Nat
BY DEF Rises

LEMMA RisesAt ==
    ASSUME NEW s, Rises(s), NEW i \in 1..Len(s)
    PROVE s[i] \in Nat
BY DEF Rises

LEMMA RisesTo ==
    ASSUME NEW s, Rises(s), NEW i \in 1..Len(s), NEW j \in 1..Len(s), i <= j
    PROVE s[i] <= s[j]
<1>0. s[i] \in Nat /\ s[j] \in Nat
  BY RisesAt
<1>1. CASE i = j
  BY <1>0, <1>1
<1>2. CASE i # j
  <2>1. i < j
    BY <1>2
  <2>2. s[i] < s[j]
    BY <2>1 DEF Rises
  <2>3. QED
    BY <1>0, <2>2
<1>3. QED
  BY <1>1, <1>2

(* What Selected takes of a list rises with it.                             *)
Chosen(s, r, wanted) == Rises(r) /\ \A k: Has(r, k) <=> Has(s, k) /\ k \in wanted

LEMMA SelectedRises ==
    ASSUME NEW s, Rises(s), NEW wanted
    PROVE Chosen(s, Selected(s, wanted), wanted)
<1>0. s \in Seq(Nat) /\ Len(s) \in Nat
  BY RisesType
<1> DEFINE r == Selected(s, wanted)
<1>1. r \in Seq(Nat)
  BY <1>0, SelectedPicks
<1>2. PICK h: Picks(h, r, s, wanted, Len(s))
  BY <1>0, SelectedPicks
<1> HIDE DEF r
<1>3. /\ h \in [1..Len(r) -> 1..Len(s)]
      /\ \A i, j \in 1..Len(r): i < j => h[i] < h[j]
      /\ \A i \in 1..Len(r): r[i] = s[h[i]] /\ s[h[i]] \in wanted
      /\ \A j \in 1..Len(s): s[j] \in wanted => \E i \in 1..Len(r): h[i] = j
  BY <1>2 DEF Picks
<1>4. ASSUME NEW i \in 1..Len(r), NEW j \in 1..Len(r), i < j PROVE r[i] < r[j]
  <2>1. h[i] < h[j] /\ h[i] \in 1..Len(s) /\ h[j] \in 1..Len(s)
    BY <1>3, <1>4
  <2>2. s[h[i]] < s[h[j]]
    BY <2>1 DEF Rises
  <2>3. QED
    BY <1>3, <2>2
<1>5. ASSUME NEW k PROVE Has(r, k) <=> Has(s, k) /\ k \in wanted
  <2>1. ASSUME Has(r, k) PROVE Has(s, k) /\ k \in wanted
    <3>1. PICK i \in 1..Len(r): r[i] = k
      BY <2>1 DEF Has
    <3>2. h[i] \in 1..Len(s) /\ s[h[i]] = k /\ s[h[i]] \in wanted
      BY <1>3, <3>1
    <3>3. QED
      BY <3>2 DEF Has
  <2>2. ASSUME Has(s, k), k \in wanted PROVE Has(r, k)
    <3>1. PICK j \in 1..Len(s): s[j] = k
      BY <2>2 DEF Has
    <3>2. PICK i \in 1..Len(r): h[i] = j
      BY <1>3, <2>2, <3>1
    <3>3. r[i] = k
      BY <1>3, <3>1, <3>2
    <3>4. QED
      BY <3>3 DEF Has
  <2>3. QED
    BY <2>1, <2>2
<1>6. Rises(r)
  BY <1>1, <1>4 DEF Rises
<1>7. QED
  BY <1>5, <1>6 DEF Chosen, r

LEMMA NumbersList ==
    ASSUME NEW n \in Nat, NEW wanted, wanted \subseteq 1..n
    PROVE InOrder(Numbers(n, wanted), wanted)
<1> DEFINE s == [k \in 1..n |-> k]
<1>1. s \in Seq(Nat) /\ Len(s) = n
  OBVIOUS
<1>2. Rises(s)
  BY <1>1 DEF Rises
<1>3. \A k: Has(s, k) <=> k \in 1..n
  BY <1>1 DEF Has
<1>4. Numbers(n, wanted) = Selected(s, wanted)
  BY DEF Numbers
<1> HIDE DEF s
<1>5. Chosen(s, Numbers(n, wanted), wanted)
  BY <1>2, <1>4, SelectedRises
<1>6. QED
  BY <1>3, <1>5 DEF Chosen, InOrder

(* A set has one list.                                                      *)
Agree(s, t, n) == \A i \in 1..n: i \in 1..Len(s) => i \in 1..Len(t) /\ s[i] = t[i]

Within(s, t) == \A k: Has(s, k) => Has(t, k)
Later(s, t, n) == \E j \in 1..Len(t): t[j] = s[n + 1] /\ j >= n + 1

LEMMA AgreeLater ==
    ASSUME NEW s, NEW t, Rises(s), Rises(t), Within(s, t), NEW n \in Nat, n + 1 \in 1..Len(s),
           Agree(t, s, n)
    PROVE Later(s, t, n)
<1>0. s \in Seq(Nat) /\ t \in Seq(Nat) /\ Len(s) \in Nat /\ Len(t) \in Nat
  BY RisesType
<1>1. Has(s, s[n + 1])
  BY DEF Has
<1>2. PICK j \in 1..Len(t): t[j] = s[n + 1]
  BY <1>1 DEF Has, Within
<1>3. ~(j <= n)
  <2>1. SUFFICES ASSUME j <= n PROVE FALSE
    OBVIOUS
  <2>2. j \in 1..n
    BY <2>1
  <2>3. j \in 1..Len(s) /\ t[j] = s[j]
    BY <2>2 DEF Agree
  <2>4. s[j] < s[n + 1]
    BY <2>1, <2>3 DEF Rises
  <2>5. s[j] \in Nat /\ s[n + 1] \in Nat
    BY <2>3, RisesAt
  <2>6. QED
    BY <1>2, <2>3, <2>4, <2>5
<1>4. QED
  BY <1>0, <1>2, <1>3 DEF Later

LEMMA AgreeMore ==
    ASSUME NEW s, NEW t, NEW S, InOrder(s, S), InOrder(t, S), NEW n \in Nat,
           Agree(s, t, n), Agree(t, s, n)
    PROVE Agree(s, t, n + 1)
<1>0. /\ Rises(s) /\ Rises(t) /\ Within(s, t) /\ Within(t, s)
      /\ s \in Seq(Nat) /\ t \in Seq(Nat) /\ Len(s) \in Nat /\ Len(t) \in Nat
  BY RisesType DEF InOrder, Within
<1> SUFFICES ASSUME n + 1 \in 1..Len(s)
             PROVE n + 1 \in 1..Len(t) /\ s[n + 1] = t[n + 1]
  <2> SUFFICES ASSUME NEW i \in 1..(n + 1), i \in 1..Len(s)
               PROVE i \in 1..Len(t) /\ s[i] = t[i]
    BY DEF Agree
  <2>1. CASE i = n + 1
    BY <2>1
  <2>2. CASE i # n + 1
    <3>1. i \in 1..n
      BY <2>2
    <3>2. QED
      BY <3>1 DEF Agree
  <2>3. QED
    BY <2>1, <2>2
<1>1. Later(s, t, n)
  BY <1>0, AgreeLater
<1>2. PICK j \in 1..Len(t): t[j] = s[n + 1] /\ j >= n + 1
  BY <1>1 DEF Later
<1>3. n + 1 \in 1..Len(t)
  BY <1>0, <1>2
<1>4. PICK i \in 1..Len(s): s[i] = t[n + 1] /\ i >= n + 1
  <2>1. Later(t, s, n)
    BY <1>0, <1>3, AgreeLater
  <2>2. QED
    BY <2>1 DEF Later
<1>5. s[n + 1] <= s[i] /\ s[n + 1] \in Nat /\ s[i] \in Nat
  <2>1. n + 1 <= i
    BY <1>4
  <2>2. s[n + 1] <= s[i]
    BY <1>0, <2>1, RisesTo
  <2>3. QED
    BY <1>0, <2>2, RisesAt
<1>6. t[n + 1] <= t[j] /\ t[n + 1] \in Nat /\ t[j] \in Nat
  <2>1. n + 1 <= j
    BY <1>2
  <2>2. t[n + 1] <= t[j]
    BY <1>0, <1>3, <2>1, RisesTo
  <2>3. QED
    BY <1>0, <1>3, <2>2, RisesAt
<1>7. s[n + 1] = t[n + 1]
  BY <1>2, <1>4, <1>5, <1>6
<1>8. QED
  BY <1>3, <1>7

LEMMA ListsOne ==
    ASSUME NEW s, NEW t, NEW S, InOrder(s, S), InOrder(t, S)
    PROVE s = t
<1>0. s \in Seq(Nat) /\ t \in Seq(Nat) /\ Len(s) \in Nat /\ Len(t) \in Nat
  BY RisesType DEF InOrder
<1> DEFINE G == {n \in Nat: Agree(s, t, n) /\ Agree(t, s, n)}
<1>1. 0 \in G
  BY DEF Agree
<1>2. ASSUME NEW n \in G PROVE n + 1 \in G
  BY AgreeMore
<1>3. G = Nat
  <2>1. G \in SUBSET Nat
    OBVIOUS
  <2> HIDE DEF G
  <2>2. QED
    BY <1>1, <1>2, <2>1, Induct
<1>4. Agree(s, t, Len(s)) /\ Agree(t, s, Len(t))
  <2>1. Len(s) \in G /\ Len(t) \in G
    <3> HIDE DEF G
    <3>1. QED
      BY <1>0, <1>3
  <2>2. QED
    BY <2>1
<1>5. 1..Len(s) \subseteq 1..Len(t) /\ 1..Len(t) \subseteq 1..Len(s)
  BY <1>4 DEF Agree
<1>6. Len(s) = Len(t)
  <2>1. Len(s) <= Len(t)
    <3>1. CASE Len(s) = 0
      BY <1>0, <3>1
    <3>2. CASE Len(s) # 0
      BY <1>0, <1>5, <3>2
    <3>3. QED
      BY <3>1, <3>2
  <2>2. Len(t) <= Len(s)
    <3>1. CASE Len(t) = 0
      BY <1>0, <3>1
    <3>2. CASE Len(t) # 0
      BY <1>0, <1>5, <3>2
    <3>3. QED
      BY <3>1, <3>2
  <2>3. QED
    BY <1>0, <2>1, <2>2
<1>7. \A i \in 1..Len(s): s[i] = t[i]
  BY <1>4 DEF Agree
<1>8. QED
  BY <1>0, <1>6, <1>7

Before(S, T) == \A k \in S, j \in T: k < j

LEMMA ListsJoin ==
    ASSUME NEW s, NEW S, NEW t, NEW T, InOrder(s, S), InOrder(t, T), Before(S, T)
    PROVE InOrder(s \o t, S \union T)
<1>0. s \in Seq(Nat) /\ t \in Seq(Nat) /\ Len(s) \in Nat /\ Len(t) \in Nat
  BY RisesType DEF InOrder
<1> DEFINE r == s \o t
<1>1. /\ r \in Seq(Nat) /\ Len(r) = Len(s) + Len(t)
      /\ \A i \in 1..Len(s): r[i] = s[i]
      /\ \A i \in 1..Len(t): r[Len(s) + i] = t[i]
  BY <1>0
<1> HIDE DEF r
<1>2. \A i \in 1..Len(r): i \in 1..Len(s) \/ \E j \in 1..Len(t): i = Len(s) + j
  <2> SUFFICES ASSUME NEW i \in 1..Len(r), i \notin 1..Len(s)
               PROVE \E j \in 1..Len(t): i = Len(s) + j
    OBVIOUS
  <2>1. i - Len(s) \in 1..Len(t) /\ i = Len(s) + (i - Len(s))
    BY <1>0, <1>1
  <2>2. QED
    BY <2>1
<1>3. \A i \in 1..Len(s): s[i] \in S
  BY DEF InOrder, Has
<1>4. \A i \in 1..Len(t): t[i] \in T
  BY DEF InOrder, Has
<1>5. ASSUME NEW i \in 1..Len(r), NEW j \in 1..Len(r), i < j PROVE r[i] < r[j]
  <2>1. CASE i \in 1..Len(s) /\ j \in 1..Len(s)
    BY <1>1, <1>5, <2>1 DEF InOrder, Rises
  <2>2. CASE i \in 1..Len(s) /\ \E m \in 1..Len(t): j = Len(s) + m
    BY <1>1, <1>3, <1>4, <2>2 DEF Before
  <2>3. ASSUME NEW l \in 1..Len(t), NEW m \in 1..Len(t), i = Len(s) + l, j = Len(s) + m
        PROVE r[i] < r[j]
    <3>1. l < m
      BY <1>0, <1>5, <2>3
    <3>2. t[l] < t[m]
      BY <3>1 DEF InOrder, Rises
    <3>3. QED
      BY <1>1, <2>3, <3>2
  <2>4. ASSUME NEW l \in 1..Len(t), i = Len(s) + l, j \in 1..Len(s) PROVE FALSE
    BY <1>0, <1>5, <2>4
  <2>5. QED
    BY <1>2, <2>1, <2>2, <2>3, <2>4
<1>6. ASSUME NEW k, Has(r, k) PROVE k \in S \union T
  <2>1. PICK i \in 1..Len(r): r[i] = k
    BY <1>6 DEF Has
  <2>2. CASE i \in 1..Len(s)
    BY <1>1, <1>3, <2>1, <2>2
  <2>3. ASSUME NEW j \in 1..Len(t), i = Len(s) + j PROVE k \in T
    BY <1>1, <1>4, <2>1, <2>3
  <2>4. QED
    BY <1>2, <2>2, <2>3
<1>7. ASSUME NEW k \in S PROVE Has(r, k)
  <2>1. PICK i \in 1..Len(s): s[i] = k
    BY DEF InOrder, Has
  <2>2. i \in 1..Len(r) /\ r[i] = k
    BY <1>0, <1>1, <2>1
  <2>3. QED
    BY <2>2 DEF Has
<1>8. ASSUME NEW k \in T PROVE Has(r, k)
  <2>1. PICK i \in 1..Len(t): t[i] = k
    BY DEF InOrder, Has
  <2>2. Len(s) + i \in 1..Len(r)
    <3>1. Len(r) = Len(s) + Len(t)
      BY <1>1
    <3>2. QED
      BY <1>0, <3>1
  <2>b. r[Len(s) + i] = k
    BY <1>1, <2>1
  <2>3. QED
    BY <2>2, <2>b DEF Has
<1>9. Rises(r)
  BY <1>1, <1>5 DEF Rises
<1>10. QED
  BY <1>6, <1>7, <1>8, <1>9 DEF InOrder, r

(* The end of a list, from its m-th entry on.                               *)
From(S, k) == {j \in S: j >= k}

LEMMA ListsEnd ==
    ASSUME NEW s, NEW S, InOrder(s, S), NEW m \in 1..Len(s)
    PROVE InOrder(SubSeq(s, m, Len(s)), From(S, s[m]))
<1>0. s \in Seq(Nat) /\ Len(s) \in Nat
  BY RisesType DEF InOrder
<1> DEFINE r == SubSeq(s, m, Len(s))
<1>n. PICK n \in Nat: n = Len(s) - m + 1
  <2>1. Len(s) - m + 1 \in Nat
    BY <1>0
  <2>2. QED
    BY <2>1
<1>1. r \in Seq(Nat) /\ Len(r) = n /\ \A i \in 1..n: r[i] = s[m + i - 1]
  BY <1>0, <1>n
<1>2. \A i \in 1..n: m + i - 1 \in 1..Len(s)
  BY <1>0, <1>n
<1> HIDE DEF r
<1>3. ASSUME NEW i \in 1..Len(r), NEW j \in 1..Len(r), i < j PROVE r[i] < r[j]
  <2>0. i \in 1..n /\ j \in 1..n
    BY <1>1
  <2>1. m + i - 1 \in 1..Len(s) /\ m + j - 1 \in 1..Len(s) /\ m + i - 1 < m + j - 1
    <3>1. m + i - 1 < m + j - 1
      BY <1>3, <1>n, <2>0
    <3>2. QED
      BY <1>2, <2>0, <3>1
  <2>2. s[m + i - 1] < s[m + j - 1]
    BY <2>1 DEF InOrder, Rises
  <2>3. QED
    BY <1>1, <2>2
<1>4. ASSUME NEW k, Has(r, k) PROVE k \in From(S, s[m])
  <2>1. PICK i \in 1..n: r[i] = k
    BY <1>1, <1>4 DEF Has
  <2>2. k = s[m + i - 1] /\ m + i - 1 \in 1..Len(s)
    BY <1>1, <1>2, <2>1
  <2>3. k \in S
    BY <2>2 DEF InOrder, Has
  <2>4. s[m + i - 1] >= s[m]
    <3>1. m <= m + i - 1
      OBVIOUS
    <3>2. s[m] <= s[m + i - 1]
      BY <2>2, <3>1, RisesTo DEF InOrder
    <3>3. s[m] \in Nat /\ s[m + i - 1] \in Nat
      BY <2>2, RisesAt DEF InOrder
    <3>4. QED
      BY <3>2, <3>3
  <2>5. QED
    BY <2>2, <2>3, <2>4 DEF From
<1>5. ASSUME NEW k \in From(S, s[m]) PROVE Has(r, k)
  <2>1. PICK i \in 1..Len(s): s[i] = k
    BY DEF InOrder, Has, From
  <2>2. ~(i < m)
    <3>1. SUFFICES ASSUME i < m PROVE FALSE
      OBVIOUS
    <3>2. s[i] < s[m]
      BY <3>1 DEF InOrder, Rises
    <3>3. s[i] >= s[m] /\ s[i] \in Nat /\ s[m] \in Nat
      BY <1>0, <2>1 DEF From
    <3>4. QED
      BY <3>2, <3>3
  <2>3. i - m + 1 \in 1..n /\ m + (i - m + 1) - 1 = i
    BY <1>0, <1>n, <2>2
  <2>4. r[i - m + 1] = k
    BY <1>1, <2>1, <2>3
  <2>5. QED
    BY <1>1, <2>3, <2>4 DEF Has
<1>6. Rises(r)
  BY <1>1, <1>3 DEF Rises
<1>7. QED
  BY <1>4, <1>5, <1>6 DEF InOrder, r

(* LastOnes is a list's end, and of more than none there are some.          *)
LEMMA LastOnesEnd ==
    ASSUME NEW s, NEW S, InOrder(s, S), NEW count \in Nat
    PROVE \/ LastOnes(s, count) = <<>> /\ (count # 0 => s = <<>>)
          \/ \E m \in 1..Len(s): LastOnes(s, count) = SubSeq(s, m, Len(s))
<1>0. s \in Seq(Nat) /\ Len(s) \in Nat
  BY RisesType DEF InOrder
<1>1. CASE s = <<>>
  BY <1>1 DEF LastOnes
<1>2. CASE s # <<>> /\ Len(s) <= count
  <2>1. LastOnes(s, count) = s /\ 1 \in 1..Len(s)
    BY <1>0, <1>2 DEF LastOnes
  <2>2. SubSeq(s, 1, Len(s)) = s
    BY <1>0
  <2>3. QED
    BY <2>1, <2>2
<1>3. CASE ~(Len(s) <= count) /\ count # 0
  <2>1. LastOnes(s, count) = SubSeq(s, Len(s) - count + 1, Len(s))
    BY <1>3 DEF LastOnes
  <2>2. Len(s) - count + 1 \in 1..Len(s)
    BY <1>0, <1>3
  <2>3. QED
    BY <2>1, <2>2
<1>4. CASE ~(Len(s) <= count) /\ count = 0
  <2>1. LastOnes(s, count) = SubSeq(s, Len(s) + 1, Len(s))
    BY <1>0, <1>4 DEF LastOnes
  <2>2. SubSeq(s, Len(s) + 1, Len(s)) = <<>>
    BY <1>0
  <2>3. QED
    BY <1>4, <2>1, <2>2
<1>5. QED
  BY <1>1, <1>2, <1>3, <1>4

LEMMA LastOnesList ==
    ASSUME NEW s, NEW S, InOrder(s, S), NEW count \in Nat
    PROVE \E T \in SUBSET S: InOrder(LastOnes(s, count), T)
<1>1. CASE LastOnes(s, count) = <<>>
  BY <1>1, ListsNone
<1>2. ASSUME NEW m \in 1..Len(s), LastOnes(s, count) = SubSeq(s, m, Len(s))
      PROVE \E T \in SUBSET S: InOrder(LastOnes(s, count), T)
  <2>1. InOrder(LastOnes(s, count), From(S, s[m]))
    BY <1>2, ListsEnd
  <2>2. From(S, s[m]) \in SUBSET S
    BY DEF From
  <2>3. QED
    BY <2>1, <2>2
<1>3. QED
  BY <1>1, <1>2, LastOnesEnd

-----------------------------------------------------------------------------
(* The readers. A line that is in a window begins and ends in it.           *)
HTypes ==
    /\ lines \in Seq(Kinds) /\ torn \in BOOLEAN
    /\ role \in {"live", "chat", "full"}

LEMMA SizeIs ==
    ASSUME HTypes
    PROVE /\ Len(lines) \in Nat /\ Size \in Nat
          /\ torn => Size = 2 * Len(lines) + 1
          /\ ~torn => Size = 2 * Len(lines)
          /\ DOMAIN lines = 1..Len(lines)
BY DEF HTypes, Size

LEMMA LinesInList ==
    ASSUME HTypes, NEW start, NEW end, NEW which
    PROVE InOrder(LinesIn(start, end, which), Window(start, end, which))
<1>1. Window(start, end, which) \subseteq 1..Len(lines) /\ Len(lines) \in Nat
  BY DEF HTypes, Window
<1>2. QED
  BY <1>1, NumbersList DEF LinesIn

Advances(start, end, a) ==
    /\ a \in Nat /\ a >= start /\ a <= end
    /\ start = 0 => a = 0
    /\ start # 0 => a # 0
    /\ start + 3 <= end /\ start > 0 => a <= start + 2 /\ \E h \in Nat: a = 2 * h

LEMMA AdvanceIs ==
    ASSUME NEW start \in Nat, NEW end \in Nat, start <= end
    PROVE Advances(start, end, AdvanceAfterLine(start, end))
<1>1. CASE start = 0 \/ start = end
  <2>1. AdvanceAfterLine(start, end) = start
    BY <1>1 DEF AdvanceAfterLine
  <2>2. QED
    BY <1>1, <2>1 DEF Advances
<1>2. CASE start # 0 /\ start # end
  <2>1. PICK h \in Nat: h = start \div 2
    <3>1. start \div 2 \in Nat
      OBVIOUS
    <3>2. QED
      BY <3>1
  <2>2. 2 * h <= start /\ start <= 2 * h + 1
    BY <2>1
  <2>3. AdvanceAfterLine(start, end) = Minimum(2 * h + 2, end)
    BY <1>2, <2>1 DEF AdvanceAfterLine
  <2>4. CASE 2 * h + 2 < end
    <3>1. AdvanceAfterLine(start, end) = 2 * (h + 1)
      BY <2>3, <2>4 DEF Minimum
    <3>2. h + 1 \in Nat
      OBVIOUS
    <3>3. QED
      BY <1>2, <2>2, <2>4, <3>1, <3>2 DEF Advances
  <2>5. CASE ~(2 * h + 2 < end)
    <3>1. AdvanceAfterLine(start, end) = end
      BY <2>3, <2>5 DEF Minimum
    <3>2. ~(start + 3 <= end)
      BY <2>2, <2>5
    <3>3. QED
      BY <1>2, <3>1, <3>2 DEF Advances
  <2>6. QED
    BY <2>4, <2>5
<1>3. QED
  BY <1>1, <1>2

(* The windows of a scan, which grow up to the maximum.                     *)
ScanTable(f, n) ==
    f = [k \in 0..n |->
            IF k = 0 THEN Minimum(MaxScan, InitialScan)
            ELSE Minimum(MaxScan, Maximum(2 * f[k - 1], f[k - 1] + ScanGrowth))]

LEMMA ScanTableExists == \E f: ScanTable(f, MaxScan)
<1> DEFINE G == {n \in Nat: \E f: ScanTable(f, n)}
<1>1. 0 \in G
  <2>1. ScanTable([k \in 0..0 |-> Minimum(MaxScan, InitialScan)], 0)
    BY DEF ScanTable
  <2>2. QED
    BY <2>1
<1>2. ASSUME NEW n \in G PROVE n + 1 \in G
  <2>1. PICK f: ScanTable(f, n)
    OBVIOUS
  <2> DEFINE e == Minimum(MaxScan, Maximum(2 * f[n], f[n] + ScanGrowth))
             g == [k \in 0..(n + 1) |-> IF k = n + 1 THEN e ELSE f[k]]
  <2>2. ASSUME NEW k \in 0..(n + 1)
        PROVE g[k] = IF k = 0 THEN Minimum(MaxScan, InitialScan)
                     ELSE Minimum(MaxScan, Maximum(2 * g[k - 1], g[k - 1] + ScanGrowth))
    <3>1. CASE k = n + 1
      <4>1. k # 0 /\ k - 1 = n /\ g[k] = e /\ g[k - 1] = f[n]
        BY <3>1
      <4> HIDE DEF g
      <4>2. QED
        BY <4>1
    <3>2. CASE k # n + 1
      <4>1. k \in 0..n /\ g[k] = f[k] /\ (k # 0 => g[k - 1] = f[k - 1])
        BY <3>2
      <4>2. f[k] = IF k = 0 THEN Minimum(MaxScan, InitialScan)
                   ELSE Minimum(MaxScan, Maximum(2 * f[k - 1], f[k - 1] + ScanGrowth))
        BY <2>1, <4>1 DEF ScanTable
      <4> HIDE DEF g
      <4>3. QED
        BY <4>1, <4>2
    <3>3. QED
      BY <3>1, <3>2
  <2>3. ScanTable(g, n + 1)
    <3>1. g = [k \in 0..(n + 1) |-> g[k]]
      OBVIOUS
    <3> HIDE DEF g
    <3>2. QED
      BY <2>2, <3>1 DEF ScanTable
  <2>4. QED
    BY <2>3
<1>3. G = Nat
  <2> HIDE DEF G
  <2>1. G \in SUBSET Nat
    BY DEF G
  <2>2. QED
    BY <1>1, <1>2, <2>1, Induct
<1>4. MaxScan \in G
  <2> HIDE DEF G
  <2>1. QED
    BY <1>3, HistoryAssumption
<1>5. QED
  BY <1>4

(* A scan grows by something until it is the greatest.                      *)
ScanAt(n, s) == s \in Nat /\ s <= MaxScan /\ (s <= n => s = MaxScan)

LEMMA ScansGrow == \A n \in 0..MaxScan: ScanAt(n, ScanSize[n])
<1>0. /\ MaxScan \in Nat /\ MaxScan >= 4 /\ InitialScan \in Nat \ {0}
      /\ ScanGrowth \in Nat \ {0}
  BY HistoryAssumption
<1> DEFINE f == CHOOSE f: ScanTable(f, MaxScan)
<1>1. ScanTable(f, MaxScan)
  BY ScanTableExists, Zenon
<1>2. ScanSize = f
  BY DEF ScanSize, ScanTable
<1> HIDE DEF f
<1>3. \A k \in 0..MaxScan:
          ScanSize[k] = IF k = 0 THEN Minimum(MaxScan, InitialScan)
                        ELSE Minimum(MaxScan, Maximum(2 * ScanSize[k - 1],
                                                      ScanSize[k - 1] + ScanGrowth))
  BY <1>1, <1>2 DEF ScanTable
<1> DEFINE G == {n \in Nat: n <= MaxScan => ScanAt(n, ScanSize[n])}
<1>4. 0 \in G
  <2>1. ScanSize[0] = Minimum(MaxScan, InitialScan)
    BY <1>0, <1>3
  <2>2. QED
    BY <1>0, <2>1 DEF Minimum, ScanAt
<1>5. ASSUME NEW n \in G PROVE n + 1 \in G
  <2> SUFFICES ASSUME n + 1 <= MaxScan PROVE ScanAt(n + 1, ScanSize[n + 1])
    OBVIOUS
  <2>1. ScanAt(n, ScanSize[n]) /\ n \in Nat
    BY <1>0
  <2>2. PICK s \in Nat: s = ScanSize[n]
    BY <2>1 DEF ScanAt
  <2>3. ScanSize[n + 1] = Minimum(MaxScan, Maximum(2 * s, s + ScanGrowth))
    <3>1. n + 1 \in 0..MaxScan /\ n + 1 # 0 /\ n + 1 - 1 = n
      BY <1>0, <2>1
    <3>2. ScanSize[n + 1] = Minimum(MaxScan, Maximum(2 * ScanSize[n + 1 - 1],
                                                     ScanSize[n + 1 - 1] + ScanGrowth))
      BY <1>3, <3>1
    <3>3. QED
      BY <2>2, <3>1, <3>2
  <2>4. PICK m \in Nat: m = Maximum(2 * s, s + ScanGrowth) /\ m >= s + 1
    <3>1. Maximum(2 * s, s + ScanGrowth) \in Nat /\ Maximum(2 * s, s + ScanGrowth) >= s + 1
      BY <1>0 DEF Maximum
    <3>2. QED
      BY <3>1
  <2>5. ScanSize[n + 1] = Minimum(MaxScan, m)
    BY <2>3, <2>4
  <2>6. QED
    BY <1>0, <2>1, <2>2, <2>4, <2>5 DEF ScanAt, Minimum
<1>6. G = Nat
  <2> HIDE DEF G
  <2>1. G \in SUBSET Nat
    BY DEF G
  <2>2. QED
    BY <1>4, <1>5, <2>1, Induct
<1>7. QED
  BY <1>0, <1>6

LEMMA LeastIs ==
    ASSUME NEW S \in SUBSET Nat, S # {}
    PROVE Min(S) \in S
<1> DEFINE R == OpToRel(<, Nat)
<1>1. IsWellFoundedOn(R, Nat)
  BY NatLessThanWellFounded, Zenon
<1>2. \E x \in S: \A y \in S: <<y, x>> \notin R
  <2> HIDE DEF R
  <2>1. QED
    BY <1>1, WFMin
<1>3. PICK x \in S: \A y \in S: <<y, x>> \notin R
  BY <1>2
<1>4. \A y \in S: x <= y
  <2> SUFFICES ASSUME NEW y \in S, y < x PROVE FALSE
    OBVIOUS
  <2>1. <<y, x>> \in R
    BY DEF OpToRel
  <2>2. QED
    BY <1>3, <2>1
<1>5. \E m \in S: \A y \in S: m <= y
  BY <1>4
<1>6. Min(S) = CHOOSE m \in S: \A y \in S: m <= y
  BY DEF Min
<1>7. QED
  BY <1>5, <1>6

LEMMA ScanFound ==
    ASSUME NEW endCap \in Nat
    PROVE LET scan == Min({s \in Scans: ScanEnds(endCap, s)})
          IN  scan \in Nat /\ ScanEnds(endCap, scan)
<1> DEFINE S == {s \in Scans: ScanEnds(endCap, s)}
<1>1. Scans \in SUBSET Nat
  BY ScansGrow DEF Scans, ScanAt
<1>2. MaxScan \in Scans
  <2>1. MaxScan \in Nat /\ MaxScan \in 0..MaxScan
    BY HistoryAssumption
  <2>2. ScanAt(MaxScan, ScanSize[MaxScan])
    BY <2>1, ScansGrow
  <2>3. ScanSize[MaxScan] = MaxScan
    BY <2>1, <2>2 DEF ScanAt
  <2>4. QED
    BY <2>1, <2>3 DEF Scans
<1>3. ScanEnds(endCap, MaxScan)
  BY HistoryAssumption DEF ScanEnds
<1>4. S \in SUBSET Nat /\ S # {}
  BY <1>1, <1>2, <1>3
<1>5. Min(S) \in S
  <2> HIDE DEF S
  <2>1. QED
    BY <1>4, LeastIs
<1>6. QED
  BY <1>1, <1>5

-----------------------------------------------------------------------------
(* A page has the lines of a set that lies between older and endCap; a chat *)
(* page has every message there.                                            *)
Between(T, older, endCap) ==
    \A k \in T: k \in 1..Len(lines) /\ Offset(k) >= older /\ Offset(k) + 2 <= endCap

Paged(page, endCap, T) ==
    /\ page.older \in Nat /\ page.more \in BOOLEAN /\ InOrder(page.events, T)
    /\ Between(T, page.older, endCap)
    /\ page.older <= endCap /\ (page.more => page.older < endCap)

IsEven(n) == \E h \in Nat: n = 2 * h

ChatPaged(page, endCap) ==
    /\ Paged(page, endCap, Window(page.older, endCap, Message))
    /\ IsEven(page.older)

LEMMA WindowBetween ==
    ASSUME HTypes, NEW start, NEW end, NEW which
    PROVE Between(Window(start, end, which), start, end)
BY DEF HTypes, Between, Window

LEMMA FirstLeast ==
    ASSUME NEW s, NEW S, InOrder(s, S), s # <<>>
    PROVE 1 \in 1..Len(s) /\ s[1] \in S /\ s[1] \in Nat /\ From(S, s[1]) = S
<1>0. s \in Seq(Nat) /\ Len(s) \in Nat /\ Rises(s)
  BY RisesType DEF InOrder
<1>1. 1 \in 1..Len(s)
  BY <1>0
<1>2. s[1] \in S /\ s[1] \in Nat
  BY <1>0, <1>1, RisesAt DEF InOrder, Has
<1>3. ASSUME NEW k \in S PROVE k >= s[1]
  <2>1. PICK i \in 1..Len(s): s[i] = k
    BY DEF InOrder, Has
  <2>2. 1 <= i
    OBVIOUS
  <2>3. s[1] <= s[i] /\ s[i] \in Nat
    BY <1>0, <1>1, <2>2, RisesTo, RisesAt
  <2>4. QED
    BY <1>2, <2>1, <2>3
<1>4. From(S, s[1]) = S
  BY <1>3 DEF From
<1>5. QED
  BY <1>1, <1>2, <1>4

LEMMA EmptyHas ==
    ASSUME NEW s, InOrder(s, {})
    PROVE s = <<>>
BY ListsNone, ListsOne

LEMMA BeginsAre ==
    ASSUME NEW chunks, Rises(chunks)
    PROVE \E B \in SUBSET (1..Len(chunks)):
              InOrder(Begins(chunks), B) /\ (Len(chunks) # 0 => 1 \in B)
<1> DEFINE B == {k \in DOMAIN chunks:
                     k = 1 \/ lines[chunks[k]] # lines[chunks[k - 1]]}
<1>1. Len(chunks) \in Nat /\ DOMAIN chunks = 1..Len(chunks)
  BY DEF Rises
<1>2. B \subseteq 1..Len(chunks) /\ (Len(chunks) # 0 => 1 \in B)
  BY <1>1
<1>3. Begins(chunks) = Numbers(Len(chunks), B)
  BY DEF Begins
<1> HIDE DEF B
<1>4. InOrder(Begins(chunks), B)
  BY <1>1, <1>2, <1>3, NumbersList
<1>5. QED
  BY <1>2, <1>4

(* What is shown of the messages: those from one of them on, or none when   *)
(* there are none.                                                          *)
LEMMA ShownIs ==
    ASSUME NEW chunks, Rises(chunks)
    PROVE LET begins == LastOnes(Begins(chunks), Limit)
          IN  IF chunks = <<>>
              THEN begins = <<>> /\ Begins(chunks) = <<>>
              ELSE begins # <<>> /\ begins[1] \in 1..Len(chunks)
<1>0. chunks \in Seq(Nat) /\ Len(chunks) \in Nat /\ Limit \in Nat /\ Limit # 0
  BY RisesType, HistoryAssumption
<1>1. PICK B \in SUBSET (1..Len(chunks)):
          InOrder(Begins(chunks), B) /\ (Len(chunks) # 0 => 1 \in B)
  BY BeginsAre
<1> DEFINE begins == LastOnes(Begins(chunks), Limit)
<1>2. PICK T \in SUBSET B: InOrder(begins, T)
  BY <1>0, <1>1, LastOnesList
<1>3. begins = <<>> => Begins(chunks) = <<>>
  <2>1. SUFFICES ASSUME begins = <<>>, Begins(chunks) # <<>> PROVE FALSE
    OBVIOUS
  <2>2. PICK m \in 1..Len(Begins(chunks)):
            begins = SubSeq(Begins(chunks), m, Len(Begins(chunks)))
    BY <1>0, <1>1, <2>1, LastOnesEnd
  <2>3. InOrder(begins, From(B, Begins(chunks)[m]))
    BY <1>1, <2>2, ListsEnd
  <2>4. Begins(chunks)[m] \in From(B, Begins(chunks)[m])
    <3>1. Begins(chunks)[m] \in B /\ Begins(chunks)[m] \in Nat
      BY <1>1, RisesAt DEF InOrder, Has
    <3>2. QED
      BY <3>1 DEF From
  <2>5. QED
    BY <2>1, <2>3, <2>4, EmptyLists
<1> HIDE DEF begins
<1>4. CASE chunks = <<>>
  <2>1. B = {} /\ T = {}
    BY <1>0, <1>4
  <2>2. QED
    BY <1>1, <1>2, <1>4, <2>1, EmptyHas DEF begins
<1>5. CASE chunks # <<>>
  <2>1. Len(chunks) # 0
    BY <1>0, <1>5
  <2>2. Begins(chunks) # <<>>
    BY <1>1, <2>1, EmptyLists
  <2>3. begins # <<>>
    BY <1>3, <2>2
  <2>4. begins[1] \in T
    BY <1>2, <2>3, FirstLeast
  <2>5. QED
    BY <1>5, <2>3, <2>4 DEF begins
<1>6. QED
  BY <1>4, <1>5

LEMMA ScanFromIs ==
    ASSUME NEW endCap \in Nat, NEW scan \in Nat
    PROVE /\ ScanFrom(endCap, scan) \in Nat /\ ScanFrom(endCap, scan) <= endCap
          /\ ScanFrom(endCap, scan) = 0 \/ ScanFrom(endCap, scan) + scan = endCap
BY DEF ScanFrom

(* What a scan collects: the messages of its window from one of them on.    *)
CollectedHas(chunks, W) ==
    \/ chunks = <<>> /\ W = {}
    \/ chunks # <<>> /\ \E x \in W: InOrder(chunks, From(W, x))

LEMMA CollectedIs ==
    ASSUME HTypes, NEW endCap \in Nat, NEW scan \in Nat,
           NEW a, a = AdvanceAfterLine(ScanFrom(endCap, scan), endCap)
    PROVE CollectedHas(Collected(endCap, scan), Window(a, endCap, Message))
<1> DEFINE W == Window(a, endCap, Message)
           all == LinesIn(a, endCap, Message)
           count == Limit * BufferFactor
           chunks == LastOnes(all, count)
<1>1. Collected(endCap, scan) = chunks
  BY DEF Collected
<1>2. InOrder(all, W)
  BY LinesInList
<1>3. count \in Nat /\ count # 0
  BY HistoryAssumption
<1> HIDE DEF W, all, count
<1>4. CASE chunks = <<>> /\ all = <<>>
  <2>1. W = {}
    BY <1>2, <1>4, EmptyLists
  <2>2. QED
    BY <1>1, <1>4, <2>1 DEF CollectedHas, W
<1>5. ASSUME NEW m \in 1..Len(all), chunks = SubSeq(all, m, Len(all))
      PROVE CollectedHas(chunks, W)
  <2>1. InOrder(chunks, From(W, all[m]))
    BY <1>2, <1>5, ListsEnd
  <2>2. all[m] \in W /\ all[m] \in Nat
    BY <1>2, RisesAt DEF InOrder, Has
  <2>3. all[m] \in From(W, all[m])
    BY <2>2 DEF From
  <2>4. chunks # <<>>
    BY <2>1, <2>3, EmptyLists
  <2>5. QED
    BY <2>1, <2>2, <2>4 DEF CollectedHas
<1>6. CollectedHas(chunks, W)
  BY <1>1, <1>2, <1>3, <1>4, <1>5, LastOnesEnd DEF W
<1>7. QED
  BY <1>1, <1>6 DEF W

(* A scan that found nothing has come to the start of the file, or is as    *)
(* long as one may be.                                                      *)
LEMMA NothingFound ==
    ASSUME NEW endCap \in Nat, NEW scan \in Nat, ScanEnds(endCap, scan),
           Collected(endCap, scan) = <<>>
    PROVE ScanFrom(endCap, scan) = 0 \/ scan >= 4
<1>1. Rises(<<>>)
  BY DEF Rises
<1>2. Begins(<<>>) = <<>>
  BY <1>1, ShownIs
<1>3. Limit \in Nat \ {0} /\ MaxScan \in Nat /\ MaxScan >= 4
  BY HistoryAssumption
<1>4. Limit * BufferFactor \in Nat /\ Limit * BufferFactor # 0
  BY HistoryAssumption
<1>5. ~(Len(<<>>) >= Limit) /\ ~(Len(<<>>) >= Limit * BufferFactor)
  BY <1>3, <1>4
<1>6. ScanFrom(endCap, scan) = 0 \/ scan >= MaxScan
  BY <1>2, <1>5 DEF ScanEnds
<1>7. QED
  BY <1>3, <1>6

LEMMA WindowFrom ==
    ASSUME HTypes, NEW a \in Nat, NEW end, NEW which, NEW x, x \in Window(a, end, which)
    PROVE From(Window(a, end, which), x) = Window(Offset(x), end, which)
<1>1. DOMAIN lines \subseteq Nat /\ x \in Nat
  BY DEF HTypes, Window
<1>2. ASSUME NEW k \in DOMAIN lines
      PROVE Offset(k) >= a /\ k >= x <=> Offset(k) >= Offset(x)
  <2>1. k \in Nat /\ Offset(x) >= a
    BY <1>1 DEF Window
  <2>2. QED
    BY <1>1, <2>1 DEF Offset
<1>3. QED
  BY <1>2 DEF From, Window

LEMMA FromFrom ==
    ASSUME NEW S \in SUBSET Nat, NEW x \in Nat, NEW y \in From(S, x)
    PROVE From(From(S, x), y) = From(S, y)
<1>1. y \in Nat /\ y >= x
  BY DEF From
<1>2. ASSUME NEW k \in S, k >= y PROVE k >= x
  <2>1. k \in Nat
    OBVIOUS
  <2>2. QED
    BY <1>1, <1>2, <2>1
<1>3. QED
  BY <1>2 DEF From

LEMMA ChatPageIs ==
    ASSUME HTypes, NEW endCap \in Nat
    PROVE ChatPaged(ChatPage(endCap), endCap)
<1> DEFINE scan == Min({s \in Scans: ScanEnds(endCap, s)})
           start == ScanFrom(endCap, scan)
           chunks == Collected(endCap, scan)
           begins == LastOnes(Begins(chunks), Limit)
           visible == IF begins = <<>> THEN <<>>
                    ELSE SubSeq(chunks, begins[1], Len(chunks))
           a == AdvanceAfterLine(start, endCap)
           older == IF visible = <<>> THEN a ELSE Offset(visible[1])
           page == [events |-> visible, older |-> older,
                    more |-> older > 0 /\ (start > 0 \/ Len(begins) >= Limit)]
           W == Window(a, endCap, Message)
<1>1. ChatPage(endCap) = page
  BY DEF ChatPage
<1>2. scan \in Nat /\ ScanEnds(endCap, scan)
  BY ScanFound
<1> HIDE DEF scan
<1>3. start \in Nat /\ start <= endCap /\ (start = 0 \/ start + scan = endCap)
  BY <1>2, ScanFromIs
<1>4. Advances(start, endCap, a)
  BY <1>3, AdvanceIs
<1>5. CollectedHas(chunks, W)
  BY <1>2, CollectedIs
<1>6. chunks = <<>> => start = 0 \/ scan >= 4
  BY <1>2, NothingFound
<1>7. a \in Nat /\ a <= endCap
  BY <1>4 DEF Advances
<1> HIDE DEF start, chunks, a, W
<1>8. CASE chunks = <<>>
  <2>1. begins = <<>> /\ W = {}
    <3>1. Rises(chunks)
      BY <1>8 DEF Rises
    <3>2. QED
      BY <1>5, <1>8, <3>1, ShownIs DEF CollectedHas
  <2>2. visible = <<>> /\ older = a
    BY <2>1
  <2>3. ~(Len(begins) >= Limit)
    BY <2>1, HistoryAssumption
  <2>4. a > 0 /\ start > 0 => a < endCap
    BY <1>2, <1>3, <1>6, <1>7, <1>8, <1>4 DEF Advances
  <2>5. IsEven(a)
    BY <1>2, <1>3, <1>6, <1>7, <1>8, <1>4 DEF Advances, IsEven
  <2>6. page = [events |-> <<>>, older |-> a, more |-> a > 0 /\ start > 0]
    BY <2>1, <2>2, <2>3
  <2>7. InOrder(<<>>, W) /\ Between(W, a, endCap)
    BY <2>1, ListsNone DEF Between
  <2>8. Paged(page, endCap, W)
    <3> HIDE DEF page
    <3>1. QED
      BY <1>7, <2>4, <2>6, <2>7 DEF Paged
  <2>9. page.older = a
    <3> HIDE DEF page
    <3>1. QED
      BY <2>6
  <2> HIDE DEF page
  <2>10. QED
    BY <1>1, <2>5, <2>8, <2>9 DEF ChatPaged, W
<1>9. CASE chunks # <<>>
  <2>1. PICK x \in W: InOrder(chunks, From(W, x))
    BY <1>5, <1>9 DEF CollectedHas
  <2>2. W \in SUBSET Nat /\ x \in Nat
    BY DEF W, Window, HTypes
  <2>3. Rises(chunks)
    BY <2>1 DEF InOrder
  <2>4. begins # <<>> /\ begins[1] \in 1..Len(chunks)
    BY <1>9, <2>3, ShownIs
  <2>5. visible = SubSeq(chunks, begins[1], Len(chunks))
    BY <2>4
  <2>6. PICK y \in From(W, x): y = chunks[begins[1]]
    BY <2>1, <2>4 DEF InOrder, Has
  <2> HIDE DEF begins
  <2>7. InOrder(visible, From(W, y))
    <3>1. InOrder(visible, From(From(W, x), y))
      BY <2>1, <2>4, <2>5, <2>6, ListsEnd
    <3>2. QED
      BY <2>2, <2>6, <3>1, FromFrom
  <2>8. y \in W /\ y \in Nat /\ y \in From(W, y)
    <3>1. y \in W
      BY <2>6 DEF From
    <3>2. y \in Nat /\ y >= y
      BY <2>2, <3>1
    <3>3. QED
      BY <3>1, <3>2 DEF From
  <2>9. visible # <<>>
    BY <2>7, <2>8, EmptyLists
  <2>10. visible[1] = y
    <3>1. chunks \in Seq(Nat) /\ Len(chunks) \in Nat
      BY <2>3, RisesType
    <3>2. SubSeq(chunks, begins[1], Len(chunks))[1] = chunks[begins[1]]
      BY <2>4, <3>1
    <3>3. QED
      BY <2>5, <2>6, <3>2
  <2>11. From(W, y) = Window(Offset(y), endCap, Message)
    BY <1>7, <2>8, WindowFrom DEF W
  <2>12. older = Offset(y)
    BY <2>9, <2>10
  <2> HIDE DEF visible, older
  <2>13. InOrder(visible, Window(older, endCap, Message))
    BY <2>7, <2>11, <2>12
  <2>14. older \in Nat /\ IsEven(older) /\ older < endCap
    <3>1. y \in Nat /\ y - 1 \in Nat /\ Offset(y) + 2 <= endCap
      BY <2>8 DEF W, Window, HTypes
    <3>2. PICK h \in Nat: h = y - 1
      BY <3>1
    <3>3. older = 2 * h
      BY <2>12, <3>2 DEF Offset
    <3>4. older < endCap
      BY <2>12, <3>1, <3>3 DEF Offset
    <3>5. QED
      BY <3>3, <3>4 DEF IsEven
  <2>15. Between(Window(older, endCap, Message), older, endCap)
    BY WindowBetween
  <2>16. page.more \in BOOLEAN /\ page.older = older /\ page.events = visible
    OBVIOUS
  <2> HIDE DEF page
  <2>17. QED
    BY <1>1, <2>13, <2>14, <2>15, <2>16 DEF ChatPaged, Paged
<1>10. QED
  BY <1>8, <1>9

(* Whatever its budgets leave out, a full page ends before endCap.           *)
LEMMA FullPageIs ==
    ASSUME HTypes, NEW endCap \in Nat, endCap # 0
    PROVE \E T: Paged(FullPage(endCap), endCap, T)
<1> DEFINE back == IF endCap > MaxBytes THEN endCap - MaxBytes ELSE 0
           start == AdvanceAfterLine(back, endCap)
           scored == LinesIn(start, endCap, Kept)
           chat == ToSet(LastOnes(LinesIn(start, endCap, Kept \intersect Chat), ChatBudget))
           room == LastOnes(LinesIn(start, endCap, Kept \ Chat), Limit - Cardinality(chat))
           kept == IF Len(scored) <= Limit THEN scored
                   ELSE Selected(scored, chat \union ToSet(room))
           older == IF kept = <<>> THEN start ELSE Offset(kept[1])
           page == [events |-> kept, older |-> older,
                    more |-> start > 0 \/ Len(scored) > Limit]
           W == Window(start, endCap, Kept)
<1>1. FullPage(endCap) = page
  BY DEF FullPage
<1>2. MaxBytes \in Nat /\ MaxBytes >= 4
  BY HistoryAssumption
<1>3. back \in Nat /\ back <= endCap /\ (back = 0 \/ back + 4 <= endCap)
  BY <1>2
<1> HIDE DEF back
<1>4. Advances(back, endCap, start)
  BY <1>3, AdvanceIs
<1> HIDE DEF start
<1>5. start \in Nat /\ start < endCap
  <2>1. CASE back = 0
    BY <1>4, <2>1 DEF Advances
  <2>2. CASE back # 0
    BY <1>3, <1>4, <2>2 DEF Advances
  <2>3. QED
    BY <2>1, <2>2
<1>6. InOrder(scored, W)
  BY LinesInList
<1> HIDE DEF scored, chat, room
<1>7. \E T \in SUBSET W: InOrder(kept, T)
  <2>1. CASE Len(scored) <= Limit
    BY <1>6, <2>1
  <2>2. CASE ~(Len(scored) <= Limit)
    <3>1. PICK wanted: wanted = chat \union ToSet(room)
      OBVIOUS
    <3>2. kept = Selected(scored, wanted)
      BY <2>2, <3>1
    <3>3. Chosen(scored, kept, wanted)
      BY <1>6, <3>2, SelectedRises DEF InOrder
    <3> HIDE DEF kept
    <3>4. InOrder(kept, W \intersect wanted)
      BY <1>6, <3>3 DEF InOrder, Chosen
    <3>5. QED
      BY <3>4
  <2>3. QED
    BY <2>1, <2>2
<1>8. PICK T \in SUBSET W: InOrder(kept, T)
  BY <1>7
<1> HIDE DEF kept
<1>9. Between(T, start, endCap)
  BY <1>8, WindowBetween DEF W, Between
<1>10. older \in Nat /\ older < endCap /\ Between(T, older, endCap)
  <2>1. CASE kept = <<>>
    BY <1>5, <1>9, <2>1
  <2>2. CASE kept # <<>>
    <3>1. PICK y \in T: y = kept[1] /\ y \in Nat /\ From(T, y) = T
      BY <1>8, <2>2, FirstLeast
    <3>2. older = Offset(y)
      BY <2>2, <3>1
    <3>3. Offset(y) >= start /\ Offset(y) + 2 <= endCap /\ y \in 1..Len(lines)
      BY <1>9, <3>1 DEF Between
    <3>4. Offset(y) \in Nat /\ Offset(y) < endCap
      BY <3>1, <3>3 DEF Offset
    <3>5. ASSUME NEW k \in T PROVE Offset(k) >= Offset(y)
      <4>1. k >= y /\ k \in 1..Len(lines) /\ k \in Nat
        BY <1>9, <3>1 DEF Between, From
      <4>2. QED
        BY <3>1, <4>1 DEF Offset
    <3>6. QED
      BY <1>9, <3>2, <3>4, <3>5 DEF Between
  <2>3. QED
    BY <2>1, <2>2
<1> HIDE DEF older
<1>11. page.more \in BOOLEAN /\ page.older = older /\ page.events = kept
  OBVIOUS
<1> HIDE DEF page
<1>12. Paged(page, endCap, T)
  BY <1>8, <1>10, <1>11 DEF Paged
<1>13. QED
  BY <1>1, <1>12

LEMMA PageIs ==
    ASSUME HTypes, NEW endCap \in Nat
    PROVE /\ \E T: Paged(Page(endCap), endCap, T)
          /\ role = "chat" => ChatPaged(Page(endCap), endCap)
<1>1. CASE endCap = 0
  <2>1. Page(endCap) = [events |-> <<>>, older |-> 0, more |-> FALSE]
    BY <1>1 DEF Page
  <2>2. Window(0, 0, Message) = {}
    BY DEF Window, Offset, HTypes
  <2>3. InOrder(<<>>, {}) /\ Between({}, 0, 0)
    BY ListsNone DEF Between
  <2>4. Paged(Page(endCap), endCap, {})
    <3>1. /\ Page(endCap).older = 0 /\ Page(endCap).more = FALSE
          /\ Page(endCap).events = <<>>
      BY <2>1
    <3>2. Page(endCap).older <= endCap
      BY <1>1, <3>1
    <3>3. QED
      BY <1>1, <2>3, <3>1, <3>2 DEF Paged
  <2>5. IsEven(0)
    BY DEF IsEven
  <2>6. Page(endCap).older = 0
    BY <2>1
  <2>7. ChatPaged(Page(endCap), endCap)
    BY <1>1, <2>2, <2>4, <2>5, <2>6 DEF ChatPaged
  <2>8. QED
    BY <2>4, <2>7
<1>2. CASE endCap # 0 /\ role = "chat"
  <2>1. Page(endCap) = ChatPage(endCap)
    BY <1>2 DEF Page
  <2>2. ChatPaged(Page(endCap), endCap)
    BY <2>1, ChatPageIs
  <2>3. QED
    BY <2>2 DEF ChatPaged
<1>3. CASE endCap # 0 /\ role # "chat"
  <2>1. Page(endCap) = FullPage(endCap)
    BY <1>3 DEF Page
  <2>2. QED
    BY <1>3, <2>1, FullPageIs
<1>4. QED
  BY <1>1, <1>2, <1>3

-----------------------------------------------------------------------------
(* What a live client has: every kept line that ends at its position or     *)
(* before it, but for those it is excused of; where it has come to be       *)
(* inside a line, that line is one of these.                                *)
Covers(seq, end, spared) ==
    \A k \in DOMAIN lines: lines[k] \in Kept /\ 2 * k <= end => Has(seq, k) \/ k \in spared
Spares(end, spared) == \A j \in Nat: end = 2 * j + 1 => j + 1 \in spared
EndsBy(seq, end) == \A k: Has(seq, k) => 2 * k <= end

LiveInv ==
    /\ position \in Nat /\ position <= Size
    /\ Rises(received) /\ EndsBy(received, position)
    /\ Spares(position, excused) /\ Covers(received, position, excused)

(* What a paging client has seen lies after where it will go on; of the     *)
(* chat it is every message from there to where the file ended.             *)
BeginsAfter(seq, start) == \A k: Has(seq, k) => Offset(k) >= start

PagerInv ==
    /\ pager \in [before: Nat, older: Nat, more: BOOLEAN, top: Nat, seen: Seq(Nat)]
    /\ pager.top <= Len(lines) /\ (pager.more => pager.older < pager.before)
    /\ Rises(pager.seen) /\ BeginsAfter(pager.seen, pager.older)
    /\ role = "chat" =>
           /\ IsEven(pager.older) /\ pager.older <= 2 * pager.top
           /\ InOrder(pager.seen, Window(pager.older, 2 * pager.top, Message))

HInv == HTypes /\ LiveInv /\ PagerInv

LEMMA LiveStartIs ==
    ASSUME HTypes, NEW since \in Nat, since < Size
    PROVE /\ LiveStart(since) \in Nat /\ LiveStart(since) >= since /\ LiveStart(since) <= Size
          /\ since # 0 /\ Size - since <= MaxBytes => LiveStart(since) = since
<1> DEFINE minimumStart == IF Size > MaxBytes THEN Size - MaxBytes ELSE 0
<1>1. Size \in Nat /\ MaxBytes \in Nat
  BY SizeIs, HistoryAssumption
<1>2. PICK m \in Nat: m = minimumStart /\ m <= Size /\ (Size - since <= MaxBytes => m <= since)
  <2>1. /\ minimumStart \in Nat /\ minimumStart <= Size
        /\ Size - since <= MaxBytes => minimumStart <= since
    BY <1>1
  <2>2. QED
    BY <2>1
<1>3. LiveStart(since) = IF since = 0 \/ since < m THEN AdvanceAfterLine(m, Size) ELSE since
  BY <1>2 DEF LiveStart
<1>4. Advances(m, Size, AdvanceAfterLine(m, Size))
  BY <1>1, <1>2, AdvanceIs
<1>5. PICK a \in Nat: a = AdvanceAfterLine(m, Size) /\ a >= m /\ a <= Size
  BY <1>4 DEF Advances
<1>6. CASE since = 0 \/ since < m
  <2>1. LiveStart(since) = a
    BY <1>3, <1>5, <1>6
  <2>2. a >= since
    BY <1>2, <1>5, <1>6
  <2>3. ~(since # 0 /\ Size - since <= MaxBytes)
    BY <1>2, <1>6
  <2>4. QED
    BY <1>5, <2>1, <2>2, <2>3
<1>7. CASE ~(since = 0 \/ since < m)
  <2>1. LiveStart(since) = since
    BY <1>3, <1>7
  <2>2. QED
    BY <1>1, <2>1
<1>8. QED
  BY <1>6, <1>7

LEMMA LiveEndIs ==
    ASSUME HTypes, NEW start \in Nat, start <= Size
    PROVE /\ LiveEnd(start) \in Nat /\ LiveEnd(start) >= start /\ LiveEnd(start) <= Size
          /\ LiveEnd(start) >= 2 * Len(lines)
          /\ \A j \in Nat: LiveEnd(start) = 2 * j + 1 =>
                 torn /\ j = Len(lines) /\ start >= 2 * Len(lines)
<1>1. PICK n \in Nat: n = Len(lines)
  BY SizeIs
<1>2. Size \in Nat /\ (torn => Size = 2 * n + 1) /\ (~torn => Size = 2 * n) /\ torn \in BOOLEAN
  BY <1>1, SizeIs DEF HTypes
<1>3. LiveEnd(start) = IF 2 * n > start THEN 2 * n ELSE Size
  BY <1>1 DEF LiveEnd
<1>4. CASE 2 * n > start
  <2>1. LiveEnd(start) = 2 * n
    BY <1>3, <1>4
  <2>2. \A j \in Nat: 2 * n # 2 * j + 1
    OBVIOUS
  <2>3. QED
    BY <1>1, <1>2, <1>4, <2>1, <2>2
<1>5. CASE ~(2 * n > start)
  <2>1. LiveEnd(start) = Size
    BY <1>3, <1>5
  <2>2. \A j \in Nat: Size = 2 * j + 1 => torn /\ j = n
    BY <1>2
  <2>3. QED
    BY <1>1, <1>2, <1>5, <2>1, <2>2
<1>6. QED
  BY <1>4, <1>5

(* When a poll is not too far behind, it reads whatever is new.             *)
LEMMA NothingPassed ==
    ASSUME HTypes, NEW start \in Nat, start <= Size,
           ~(Len(LinesIn(start, Size, Kept)) > Limit)
    PROVE LET events == LastOnes(LinesIn(start, LiveEnd(start), Kept), Limit)
          IN  InOrder(events, Window(start, LiveEnd(start), Kept))
<1> DEFINE e == LiveEnd(start)
           all == LinesIn(start, e, Kept)
<1>1. Window(start, e, Kept) = Window(start, Size, Kept)
  <2>1. /\ e \in Nat /\ e >= 2 * Len(lines) /\ Size \in Nat /\ Size >= 2 * Len(lines)
        /\ Len(lines) \in Nat /\ DOMAIN lines = 1..Len(lines)
    BY LiveEndIs, SizeIs DEF HTypes
  <2> HIDE DEF e
  <2>2. \A k \in DOMAIN lines: Offset(k) + 2 <= e /\ Offset(k) + 2 <= Size
    BY <2>1 DEF Offset
  <2>3. QED
    BY <2>2 DEF Window
<1>2. all = LinesIn(start, Size, Kept)
  BY <1>1 DEF LinesIn
<1>3. InOrder(all, Window(start, e, Kept))
  BY LinesInList
<1>4. Len(all) \in Nat /\ Limit \in Nat
  BY <1>3, HistoryAssumption DEF InOrder, Rises
<1> HIDE DEF all, e
<1>5. LastOnes(all, Limit) = all
  BY <1>2, <1>4 DEF LastOnes
<1>6. QED
  BY <1>3, <1>5 DEF all, e

(* A client that adds to what it has what is new up to `end` has the lines  *)
(* in their order.                                                          *)
LEMMA Continues ==
    ASSUME NEW seq, Rises(seq), NEW end \in Nat, EndsBy(seq, end),
           NEW events, NEW T \in SUBSET Nat, InOrder(events, T),
           \A k \in T: end <= Offset(k)
    PROVE /\ Rises(seq \o events)
          /\ \A k: Has(seq \o events, k) <=> Has(seq, k) \/ k \in T
<1> DEFINE R == {seq[i]: i \in 1..Len(seq)}
<1>1. \A k: Has(seq, k) <=> k \in R
  BY DEF Has
<1> HIDE DEF R
<1>2. InOrder(seq, R)
  BY <1>1 DEF InOrder
<1>3. \A k \in R: k \in Nat /\ 2 * k <= end
  <2>1. \A k \in R: k \in Nat
    BY RisesAt DEF R
  <2>2. QED
    BY <1>1, <2>1 DEF EndsBy
<1>4. Before(R, T)
  <2> SUFFICES ASSUME NEW k \in R, NEW j \in T PROVE k < j
    BY DEF Before
  <2>1. k \in Nat /\ j \in Nat /\ 2 * k <= end /\ end <= 2 * (j - 1)
    BY <1>3 DEF Offset
  <2>2. QED
    BY <2>1
<1>5. InOrder(seq \o events, R \union T)
  BY <1>2, <1>4, ListsJoin
<1>6. QED
  BY <1>1, <1>5 DEF InOrder

LEMMA FollowsKeeps ==
    ASSUME HTypes, LiveInv, Follows
    PROVE LiveInv'
<1> DEFINE reply == ReadLive(position)
<1>1. position' = reply.end /\ received' = received \o reply.events
      /\ excused' = excused \union TooFar /\ lines' = lines /\ torn' = torn
  BY DEF Follows
<1>2. Size' = Size /\ Size \in Nat /\ position \in Nat /\ position <= Size
  BY <1>1, SizeIs DEF Size, LiveInv
<1>3. ~(position > Size)
  BY <1>2
<1>4. CASE position >= Size
  <2>1. reply.end = Size /\ reply.events = <<>>
    BY <1>3, <1>4 DEF ReadLive
  <2>2. position' = position /\ position = Size
    BY <1>1, <1>2, <1>4, <2>1
  <2>3. received' = received
    <3>1. received \in Seq(Nat)
      BY RisesType DEF LiveInv
    <3> HIDE DEF reply
    <3>2. QED
      BY <1>1, <2>1, <3>1
  <2>4. Covers(received, position, excused)' /\ Spares(position, excused)'
    <3> HIDE DEF reply
    <3>1. lines' = lines /\ \A k: k \in excused => k \in excused'
      BY <1>1
    <3>2. QED
      BY <2>2, <2>3, <3>1 DEF LiveInv, Covers, Spares
  <2>5. QED
    BY <1>1, <1>2, <2>2, <2>3, <2>4 DEF LiveInv, Covers, Spares
<1>5. CASE ~(position >= Size)
  <2> DEFINE start == LiveStart(position)
             e == LiveEnd(start)
             events == LastOnes(LinesIn(start, e, Kept), Limit)
  <2>0. position < Size
    BY <1>2, <1>5
  <2>1. /\ start \in Nat /\ start >= position /\ start <= Size
        /\ position # 0 /\ Size - position <= MaxBytes => start = position
    BY <1>2, <2>0, LiveStartIs
  <2>2. reply.end = e /\ reply.events = events
    BY <1>3, <1>5 DEF ReadLive
  <2> HIDE DEF start, reply
  <2>3. /\ e \in Nat /\ e >= start /\ e <= Size /\ e >= 2 * Len(lines)
        /\ \A j \in Nat: e = 2 * j + 1 => torn /\ j = Len(lines) /\ start >= 2 * Len(lines)
    BY <2>1, LiveEndIs
  <2>4. Limit \in Nat
    BY HistoryAssumption
  <2>5. PICK T \in SUBSET Window(start, e, Kept):
            /\ InOrder(events, T)
            /\ start = position /\ ~(Len(LinesIn(position, Size, Kept)) > Limit) =>
                   T = Window(start, e, Kept)
    <3>1. CASE start = position /\ ~(Len(LinesIn(position, Size, Kept)) > Limit)
      <4>1. InOrder(events, Window(start, e, Kept))
        BY <2>1, <3>1, NothingPassed
      <4>2. QED
        BY <4>1
    <3>2. InOrder(LinesIn(start, e, Kept), Window(start, e, Kept))
      BY LinesInList
    <3>3. \E T \in SUBSET Window(start, e, Kept): InOrder(events, T)
      BY <2>4, <3>2, LastOnesList
    <3>4. QED
      BY <3>1, <3>3
  <2>6. \A k \in T: k \in Nat /\ position <= Offset(k) /\ 2 * k <= e
    <3> SUFFICES ASSUME NEW k \in T PROVE k \in Nat /\ position <= Offset(k) /\ 2 * k <= e
      OBVIOUS
    <3>1. k \in Nat /\ Offset(k) >= start /\ Offset(k) + 2 <= e
      BY DEF Window, HTypes
    <3>2. QED
      BY <1>2, <2>1, <2>3, <3>1 DEF Offset
  <2> HIDE DEF e, events
  <2>7. /\ Rises(received \o events)
        /\ \A k: Has(received \o events, k) <=> Has(received, k) \/ k \in T
    <3>1. T \in SUBSET Nat
      BY <2>6
    <3>2. QED
      BY <1>2, <2>5, <2>6, <3>1, Continues DEF LiveInv
  <2>8. position' = e /\ received' = received \o events
    BY <1>1, <2>2
  <2>9. Rises(received')
    BY <2>7, <2>8
  <2>10. EndsBy(received', e)
    <3> SUFFICES ASSUME NEW k, Has(received', k) PROVE 2 * k <= e
      BY DEF EndsBy
    <3>1. CASE k \in T
      BY <2>6, <3>1
    <3>2. CASE Has(received, k)
      <4>1. 2 * k <= position /\ k \in Nat
        BY <3>2, RisesAt DEF LiveInv, EndsBy, Has
      <4>2. QED
        BY <1>2, <2>1, <2>3, <4>1
    <3>3. QED
      BY <2>7, <2>8, <3>1, <3>2
  <2>11. CASE \/ position = 0 \/ Size - position > MaxBytes
              \/ Len(LinesIn(position, Size, Kept)) > Limit
    <3>1. 1..(Len(lines) + 1) \subseteq excused'
      BY <1>1, <2>11 DEF TooFar
    <3>2. Covers(received', e, excused')
      BY <3>1, SizeIs DEF Covers
    <3>3. Spares(e, excused')
      <4> SUFFICES ASSUME NEW j \in Nat, e = 2 * j + 1 PROVE j + 1 \in excused'
        BY DEF Spares
      <4>1. j = Len(lines)
        BY <2>3
      <4>2. j + 1 \in 1..(Len(lines) + 1)
        BY <4>1
      <4>3. QED
        BY <3>1, <4>2
    <3>4. QED
      BY <1>1, <1>2, <2>3, <2>8, <2>9, <2>10, <3>2, <3>3 DEF LiveInv, Covers
  <2>12. CASE ~(\/ position = 0 \/ Size - position > MaxBytes
                \/ Len(LinesIn(position, Size, Kept)) > Limit)
    <3>1. start = position
      <4>1. position # 0 /\ ~(Size - position > MaxBytes) /\ MaxBytes \in Nat
        BY <2>12, HistoryAssumption
      <4>2. QED
        BY <1>2, <2>1, <4>1
    <3>2. T = Window(position, e, Kept)
      BY <2>5, <2>12, <3>1
    <3>3. TooFar = IF position = 2 * Len(lines) /\ torn THEN {Len(lines) + 1} ELSE {}
      BY <2>12 DEF TooFar
    <3>4. Spares(e, excused')
      <4> SUFFICES ASSUME NEW j \in Nat, e = 2 * j + 1 PROVE j + 1 \in excused'
        BY DEF Spares
      <4>1. torn /\ j = Len(lines) /\ position >= 2 * Len(lines)
        BY <2>3, <3>1
      <4>2. position = 2 * Len(lines)
        <5>1. Size = 2 * Len(lines) + 1 /\ Len(lines) \in Nat
          BY <4>1, SizeIs
        <5>2. QED
          BY <1>2, <2>0, <4>1, <5>1
      <4>3. QED
        BY <1>1, <3>3, <4>1, <4>2
    <3>5. Covers(received', e, excused')
      <4> SUFFICES ASSUME NEW k \in DOMAIN lines, lines[k] \in Kept, 2 * k <= e
                   PROVE Has(received', k) \/ k \in excused'
        BY DEF Covers
      <4>0. k \in Nat /\ k # 0
        BY SizeIs
      <4>1. CASE 2 * k <= position
        BY <1>1, <2>7, <2>8, <4>1 DEF LiveInv, Covers
      <4>2. CASE position <= Offset(k)
        <5>1. Offset(k) >= position /\ Offset(k) + 2 <= e
          BY <1>2, <4>0, <4>2 DEF Offset
        <5>2. k \in T
          BY <3>2, <5>1 DEF Window
        <5>3. QED
          BY <2>7, <2>8, <5>2
      <4>3. CASE ~(2 * k <= position) /\ ~(position <= Offset(k))
        <5>1. k - 1 \in Nat /\ position = 2 * (k - 1) + 1 /\ k - 1 + 1 = k
          BY <1>2, <4>0, <4>3 DEF Offset
        <5>2. k \in excused
          BY <5>1 DEF LiveInv, Spares
        <5>3. QED
          BY <1>1, <5>2
      <4>4. QED
        BY <4>1, <4>2, <4>3
    <3>6. QED
      BY <1>1, <1>2, <2>3, <2>8, <2>9, <2>10, <3>4, <3>5 DEF LiveInv, Covers
  <2>13. QED
    BY <2>11, <2>12
<1>6. QED
  BY <1>4, <1>5

(* What the agent appends is after whatever was in the file.                *)
Grown ==
    /\ UNCHANGED <<role, position, received, excused, pager>>
    /\ lines' \in Seq(Kinds) /\ torn' \in BOOLEAN
    /\ Len(lines') \in Nat /\ Len(lines) <= Len(lines')
    /\ \A k \in DOMAIN lines: k \in DOMAIN lines' /\ lines'[k] = lines[k]
    /\ Size' \in Nat /\ Size <= Size'
    /\ \A k \in DOMAIN lines': k \in Nat /\ (k \in DOMAIN lines \/ 2 * k > Size)

LEMMA AppendsGrow ==
    ASSUME HTypes, (\E kind \in Kinds: AppendsLine(kind)) \/ AppendsPart
    PROVE Grown
<1>0. /\ lines \in Seq(Kinds) /\ Len(lines) \in Nat /\ torn \in BOOLEAN
      /\ DOMAIN lines = 1..Len(lines)
  BY DEF HTypes
<1>1. ASSUME NEW kind \in Kinds, AppendsLine(kind) PROVE Grown
  <2>1. /\ UNCHANGED <<role, position, received, excused, pager>>
        /\ lines' = Append(lines, kind) /\ torn' = FALSE
    BY <1>1 DEF AppendsLine
  <2>2. /\ lines' \in Seq(Kinds) /\ Len(lines') = Len(lines) + 1
        /\ DOMAIN lines' = 1..(Len(lines) + 1)
        /\ \A k \in 1..Len(lines): lines'[k] = lines[k]
    BY <1>0, <2>1
  <2>3. Size' = 2 * (Len(lines) + 1)
    BY <2>1, <2>2 DEF Size
  <2>4. Size \in Nat /\ Size <= 2 * Len(lines) + 1
    BY <1>0 DEF Size
  <2>5. \A k \in DOMAIN lines': k \in Nat /\ (k \in DOMAIN lines \/ 2 * k > Size)
    <3> SUFFICES ASSUME NEW k \in 1..(Len(lines) + 1), k \notin 1..Len(lines)
                 PROVE 2 * k > Size
      BY <1>0, <2>2
    <3>1. k = Len(lines) + 1
      BY <1>0
    <3>2. QED
      BY <1>0, <2>4, <3>1
  <2>6. Len(lines') \in Nat /\ Len(lines) <= Len(lines') /\ Size' \in Nat /\ Size <= Size'
    BY <1>0, <2>2, <2>3, <2>4
  <2>7. \A k \in DOMAIN lines: k \in DOMAIN lines' /\ lines'[k] = lines[k]
    BY <1>0, <2>2
  <2>8. torn' \in BOOLEAN /\ lines' \in Seq(Kinds)
    BY <2>1, <2>2
  <2>9. QED
    BY <2>1, <2>5, <2>6, <2>7, <2>8 DEF Grown
<1>2. CASE AppendsPart
  <2>1. /\ UNCHANGED <<role, position, received, excused, pager, lines>>
        /\ ~torn /\ torn' = TRUE
    BY <1>2 DEF AppendsPart
  <2>2. Size' = 2 * Len(lines) + 1 /\ Size = 2 * Len(lines)
    BY <2>1 DEF Size
  <2>3. QED
    BY <1>0, <2>1, <2>2 DEF Grown
<1>3. QED
  BY <1>1, <1>2

LEMMA WindowKeeps ==
    ASSUME HTypes, Grown, NEW start, NEW n \in Nat, n <= Len(lines), NEW which
    PROVE Window(start, 2 * n, which)' = Window(start, 2 * n, which)
<1>1. /\ Len(lines) \in Nat /\ DOMAIN lines = 1..Len(lines)
      /\ \A k \in DOMAIN lines': k \in Nat
      /\ \A k \in DOMAIN lines: k \in DOMAIN lines' /\ lines'[k] = lines[k]
      /\ \A k \in DOMAIN lines': k \in DOMAIN lines \/ 2 * k > Size
  BY DEF HTypes, Grown
<1>2. Size \in Nat /\ Size >= 2 * Len(lines)
  BY SizeIs
<1>3. ASSUME NEW k \in DOMAIN lines', Offset(k) + 2 <= 2 * n PROVE k \in DOMAIN lines
  <2>1. k \in Nat /\ ~(2 * k > Size)
    BY <1>1, <1>2, <1>3 DEF Offset
  <2>2. QED
    BY <1>1, <2>1
<1>4. QED
  BY <1>1, <1>3 DEF Window, Offset

LEMMA WritesKeep ==
    ASSUME HInv, (\E kind \in Kinds: AppendsLine(kind)) \/ AppendsPart
    PROVE HInv'
<1>0. HTypes /\ LiveInv /\ PagerInv
  BY DEF HInv
<1>1. Grown
  BY <1>0, AppendsGrow
<1>2. HTypes'
  BY <1>0, <1>1 DEF HTypes, Grown
<1>3. LiveInv'
  <2>1. position' = position /\ received' = received /\ excused' = excused
    BY <1>1 DEF Grown
  <2>2. position' <= Size'
    <3>1. Size \in Nat /\ Size' \in Nat /\ Size <= Size'
      BY <1>0, <1>1, SizeIs DEF Grown
    <3>2. QED
      BY <1>0, <2>1, <3>1 DEF LiveInv
  <2>3. Covers(received, position, excused)'
    <3> SUFFICES ASSUME NEW k \in DOMAIN lines', lines'[k] \in Kept, 2 * k <= position
                 PROVE Has(received, k) \/ k \in excused
      BY <2>1 DEF Covers
    <3>1. k \in Nat /\ ~(2 * k > Size)
      <4>1. k \in Nat /\ Size \in Nat /\ position \in Nat /\ position <= Size
        BY <1>0, <1>1, SizeIs DEF Grown, LiveInv
      <4>2. QED
        BY <4>1
    <3>2. k \in DOMAIN lines /\ lines[k] \in Kept
      BY <1>1, <3>1 DEF Grown
    <3>3. QED
      BY <1>0, <3>2 DEF LiveInv, Covers
  <2>4. QED
    BY <1>0, <2>1, <2>2, <2>3 DEF LiveInv, EndsBy, Spares
<1>4. PagerInv'
  <2>1. pager' = pager /\ role' = role /\ Len(lines) <= Len(lines') /\ Len(lines') \in Nat
    BY <1>1 DEF Grown
  <2>2. /\ pager.top \in Nat /\ pager.top <= Len(lines) /\ Len(lines) \in Nat
    BY <1>0, SizeIs DEF PagerInv
  <2>3. pager'.top <= Len(lines')
    BY <2>1, <2>2
  <2>4. Window(pager.older, 2 * pager.top, Message)' = Window(pager.older, 2 * pager.top, Message)
    <3>1. PICK older: older = pager.older
      OBVIOUS
    <3>2. PICK n \in Nat: n = pager.top
      BY <2>2
    <3>3. Window(older, 2 * n, Message)' = Window(older, 2 * n, Message)
      BY <1>0, <1>1, <2>2, <3>2, WindowKeeps
    <3>4. QED
      BY <2>1, <3>1, <3>2, <3>3
  <2>5. QED
    BY <1>0, <2>1, <2>3, <2>4 DEF PagerInv, BeginsAfter
<1>5. QED
  BY <1>2, <1>3, <1>4 DEF HInv

LEMMA OpensKeeps ==
    ASSUME HTypes, OpensPages
    PROVE PagerInv'
<1> DEFINE page == Page(Size)
<1>0. Size \in Nat /\ Len(lines) \in Nat
  BY SizeIs
<1>1. /\ pager' = [before |-> Size, older |-> page.older, more |-> page.more,
                   top |-> Len(lines), seen |-> page.events]
      /\ lines' = lines /\ role' = role
  BY DEF OpensPages
<1>2. PICK T: Paged(page, Size, T)
  BY <1>0, PageIs
<1>3. role = "chat" => ChatPaged(page, Size)
  BY <1>0, PageIs
<1> HIDE DEF page
<1>4. /\ page.older \in Nat /\ page.more \in BOOLEAN /\ page.events \in Seq(Nat)
      /\ Rises(page.events) /\ (page.more => page.older < Size)
      /\ BeginsAfter(page.events, page.older)
  BY <1>2, RisesType DEF Paged, InOrder, Between, BeginsAfter
<1>5. /\ pager' \in [before: Nat, older: Nat, more: BOOLEAN, top: Nat, seen: Seq(Nat)]
      /\ pager'.top = Len(lines) /\ pager'.older = page.older /\ pager'.more = page.more
      /\ pager'.seen = page.events /\ pager'.before = Size
  BY <1>0, <1>1, <1>4
<1>6. ASSUME role = "chat"
      PROVE /\ IsEven(page.older)
            /\ page.older <= 2 * Len(lines)
            /\ InOrder(page.events, Window(page.older, 2 * Len(lines), Message))
  <2>1. /\ IsEven(page.older)
        /\ InOrder(page.events, Window(page.older, Size, Message))
    BY <1>3, <1>6 DEF ChatPaged, Paged
  <2>2. ASSUME NEW k \in DOMAIN lines
        PROVE Offset(k) + 2 <= Size /\ Offset(k) + 2 <= 2 * Len(lines)
    <3>1. k \in 1..Len(lines) /\ Len(lines) \in Nat /\ Size \in Nat /\ Size >= 2 * Len(lines)
      BY SizeIs
    <3>2. QED
      BY <3>1 DEF Offset
  <2>3. Window(page.older, Size, Message) = Window(page.older, 2 * Len(lines), Message)
    BY <2>2 DEF Window
  <2>4. page.older <= 2 * Len(lines)
    <3>1. page.older <= Size /\ page.older \in Nat
      BY <1>2 DEF Paged
    <3>2. Size <= 2 * Len(lines) + 1
      BY <1>0, SizeIs DEF HTypes
    <3>3. page.older # 2 * Len(lines) + 1
      BY <1>0, <2>1 DEF IsEven
    <3>4. QED
      BY <1>0, <3>1, <3>2, <3>3
  <2>5. QED
    BY <2>1, <2>3, <2>4
<1>7. Len(lines') = Len(lines)
  BY <1>1
<1>8. role' = "chat" =>
          /\ IsEven(pager'.older) /\ pager'.older <= 2 * pager'.top
          /\ InOrder(pager'.seen, Window(pager.older, 2 * pager.top, Message)')
  BY <1>1, <1>5, <1>6 DEF Window
<1>9. QED
  BY <1>0, <1>1, <1>4, <1>5, <1>7, <1>8 DEF PagerInv, BeginsAfter

LEMMA WindowJoins ==
    ASSUME HTypes, NEW a \in Nat, NEW b \in Nat, NEW c \in Nat, a <= b, b <= c, IsEven(b),
           NEW which
    PROVE /\ Window(a, b, which) \union Window(b, c, which) = Window(a, c, which)
          /\ Before(Window(a, b, which), Window(b, c, which))
<1>1. DOMAIN lines = 1..Len(lines) /\ Len(lines) \in Nat
  BY DEF HTypes
<1>2. PICK h \in Nat: b = 2 * h
  BY DEF IsEven
<1>3. ASSUME NEW k \in DOMAIN lines
      PROVE /\ Offset(k) >= a /\ Offset(k) + 2 <= b => Offset(k) + 2 <= c
            /\ Offset(k) >= b => Offset(k) >= a
            /\ Offset(k) + 2 <= b \/ Offset(k) >= b
  <2>1. k \in Nat
    BY <1>1
  <2>2. QED
    BY <1>2, <2>1 DEF Offset
<1>4. Window(a, b, which) \union Window(b, c, which) = Window(a, c, which)
  BY <1>3 DEF Window
<1>5. Before(Window(a, b, which), Window(b, c, which))
  <2> SUFFICES ASSUME NEW k \in Window(a, b, which), NEW j \in Window(b, c, which)
               PROVE k < j
    BY DEF Before
  <2>1. k \in Nat /\ j \in Nat /\ Offset(k) + 2 <= b /\ Offset(j) >= b
    BY <1>1 DEF Window
  <2>2. QED
    BY <2>1 DEF Offset
<1>6. QED
  BY <1>4, <1>5

LEMMA GoesBackKeeps ==
    ASSUME HTypes, PagerInv, GoesBack
    PROVE PagerInv'
<1> DEFINE page == Page(pager.older)
<1>0. /\ pager \in [before: Nat, older: Nat, more: BOOLEAN, top: Nat, seen: Seq(Nat)]
      /\ pager.older \in Nat /\ pager.top \in Nat /\ pager.top <= Len(lines)
      /\ Rises(pager.seen) /\ BeginsAfter(pager.seen, pager.older)
  BY DEF PagerInv
<1>1. /\ pager' = [pager EXCEPT !.before = pager.older, !.older = page.older,
                                !.more = page.more, !.seen = page.events \o pager.seen]
      /\ lines' = lines /\ role' = role
  BY DEF GoesBack
<1>2. PICK T: Paged(page, pager.older, T)
  BY <1>0, PageIs
<1>3. role = "chat" => ChatPaged(page, pager.older)
  BY <1>0, PageIs
<1> HIDE DEF page
<1>4. /\ page.older \in Nat /\ page.more \in BOOLEAN /\ (page.more => page.older < pager.older)
      /\ InOrder(page.events, T) /\ Between(T, page.older, pager.older)
  BY <1>2 DEF Paged
<1>b. page.older <= pager.older
  BY <1>2 DEF Paged
<1>5. PICK R: InOrder(pager.seen, R) /\ \A k \in R: k \in Nat /\ Offset(k) >= pager.older
  <2> DEFINE R == {pager.seen[i]: i \in 1..Len(pager.seen)}
  <2>1. \A k: Has(pager.seen, k) <=> k \in R
    BY DEF Has
  <2>2. \A k \in R: k \in Nat
    BY <1>0, RisesAt
  <2> HIDE DEF R
  <2>3. InOrder(pager.seen, R)
    BY <1>0, <2>1 DEF InOrder
  <2>4. QED
    BY <1>0, <2>1, <2>2, <2>3 DEF BeginsAfter
<1>6. Len(lines) \in Nat
  BY SizeIs
<1>7. Before(T, R)
  <2> SUFFICES ASSUME NEW k \in T, NEW j \in R PROVE k < j
    BY DEF Before
  <2>1. k \in Nat /\ j \in Nat /\ Offset(k) + 2 <= pager.older /\ Offset(j) >= pager.older
    BY <1>4, <1>5, <1>6 DEF Between
  <2>2. QED
    BY <1>0, <2>1 DEF Offset
<1>8. InOrder(page.events \o pager.seen, T \union R)
  BY <1>4, <1>5, <1>7, ListsJoin
<1>9. PICK seen: seen = page.events \o pager.seen
  OBVIOUS
<1>10. Rises(seen) /\ seen \in Seq(Nat)
  BY <1>8, <1>9, RisesType DEF InOrder
<1>11. /\ pager' \in [before: Nat, older: Nat, more: BOOLEAN, top: Nat, seen: Seq(Nat)]
       /\ pager'.top = pager.top /\ pager'.older = page.older /\ pager'.more = page.more
       /\ pager'.seen = seen /\ pager'.before = pager.older
  BY <1>0, <1>1, <1>4, <1>9, <1>10
<1>12. BeginsAfter(seen, page.older)
  <2> SUFFICES ASSUME NEW k, Has(seen, k) PROVE Offset(k) >= page.older
    BY DEF BeginsAfter
  <2>1. k \in T \/ k \in R
    BY <1>8, <1>9 DEF InOrder
  <2>2. CASE k \in T
    BY <1>4, <2>2 DEF Between
  <2>3. CASE k \in R
    <3>2. Offset(k) \in Int /\ Offset(k) >= pager.older
      BY <1>5, <2>3 DEF Offset
    <3>3. QED
      BY <1>0, <1>4, <1>b, <3>2
  <2>4. QED
    BY <2>1, <2>2, <2>3
<1>13. ASSUME role = "chat"
       PROVE /\ IsEven(page.older) /\ page.older <= 2 * pager.top
             /\ InOrder(seen, Window(page.older, 2 * pager.top, Message))
  <2> DEFINE V == Window(page.older, pager.older, Message)
             U == Window(pager.older, 2 * pager.top, Message)
  <2>1. /\ IsEven(pager.older) /\ pager.older <= 2 * pager.top /\ InOrder(pager.seen, U)
    BY <1>13 DEF PagerInv
  <2>2. IsEven(page.older) /\ InOrder(page.events, V)
    BY <1>3, <1>13 DEF ChatPaged, Paged
  <2>3. 2 * pager.top \in Nat
    BY <1>0
  <2>4. V \union U = Window(page.older, 2 * pager.top, Message) /\ Before(V, U)
    BY <1>0, <1>4, <1>b, <2>1, <2>3, WindowJoins
  <2> HIDE DEF V, U
  <2>5. InOrder(seen, V \union U)
    BY <1>9, <2>1, <2>2, <2>4, ListsJoin
  <2>6. page.older <= 2 * pager.top
    BY <1>0, <1>4, <1>b, <2>1, <2>3
  <2>7. QED
    BY <2>2, <2>4, <2>5, <2>6
<1>14. role' = "chat" =>
           /\ IsEven(pager'.older) /\ pager'.older <= 2 * pager'.top
           /\ InOrder(pager'.seen, Window(pager.older, 2 * pager.top, Message)')
  BY <1>1, <1>11, <1>13 DEF Window
<1>15. Len(lines') = Len(lines)
  BY <1>1
<1>16. QED
  BY <1>0, <1>1, <1>4, <1>10, <1>11, <1>12, <1>14, <1>15 DEF PagerInv, BeginsAfter

LEMMA HInvHolds == HSpec => []HInv
<1>1. HInit => HInv
  <2> SUFFICES ASSUME HInit PROVE HInv
    OBVIOUS
  <2>1. /\ lines = <<>> /\ position = 0 /\ received = <<>> /\ excused = {} /\ pager = Closed
        /\ torn = FALSE /\ role \in {"live", "chat", "full"}
    BY DEF HInit
  <2>t. HTypes
    <3>1. <<>> \in Seq(Kinds)
      OBVIOUS
    <3>2. QED
      BY <2>1, <3>1 DEF HTypes
  <2>2. LiveInv
    <3>1. Size \in Nat
      BY <2>t, SizeIs
    <3>2. Rises(<<>>) /\ EndsBy(<<>>, 0) /\ Spares(0, {}) /\ Covers(<<>>, 0, {})
      BY <2>1 DEF Rises, EndsBy, Has, Spares, Covers
    <3>3. QED
      BY <2>1, <3>1, <3>2 DEF LiveInv
  <2>3. PagerInv
    <3>1. /\ pager \in [before: Nat, older: Nat, more: BOOLEAN, top: Nat, seen: Seq(Nat)]
          /\ pager.top = 0 /\ pager.older = 0 /\ ~pager.more /\ pager.seen = <<>>
      BY <2>1 DEF Closed
    <3>2. Len(lines) = 0 /\ Window(0, 2 * 0, Message) = {}
      BY <2>1 DEF Window
    <3>3. InOrder(<<>>, {}) /\ Rises(<<>>) /\ BeginsAfter(<<>>, 0)
      BY ListsNone DEF InOrder, BeginsAfter, Has
    <3>4. IsEven(0) /\ 0 <= 2 * 0
      BY DEF IsEven
    <3>5. QED
      <4>1. InOrder(pager.seen, Window(pager.older, 2 * pager.top, Message))
        BY <3>1, <3>2, <3>3
      <4>2. IsEven(pager.older) /\ pager.older <= 2 * pager.top
        BY <3>1, <3>4
      <4>3. pager.top <= Len(lines)
        BY <3>1, <3>2
      <4>4. Rises(pager.seen) /\ BeginsAfter(pager.seen, pager.older)
        BY <3>1, <3>3
      <4>5. QED
        BY <3>1, <4>1, <4>2, <4>3, <4>4 DEF PagerInv
  <2>4. QED
    BY <2>t, <2>2, <2>3 DEF HInv
<1>2. HInv /\ [HNext]_hvars => HInv'
  <2> SUFFICES ASSUME HInv, [HNext]_hvars PROVE HInv'
    OBVIOUS
  <2>0. HTypes /\ LiveInv /\ PagerInv
    BY DEF HInv
  <2>1. CASE (\E kind \in Kinds: AppendsLine(kind)) \/ AppendsPart
    BY <2>1, WritesKeep
  <2>2. CASE Follows
    <3>1. LiveInv'
      BY <2>0, <2>2, FollowsKeeps
    <3>2. UNCHANGED <<lines, torn, role, pager>>
      BY <2>2 DEF Follows
    <3>3. QED
      BY <2>0, <3>1, <3>2 DEF HInv, HTypes, PagerInv, Window
  <2>3. CASE OpensPages
    <3>1. PagerInv'
      BY <2>0, <2>3, OpensKeeps
    <3>2. UNCHANGED <<lines, torn, role, position, received, excused>>
      BY <2>3 DEF OpensPages
    <3>3. QED
      BY <2>0, <3>1, <3>2 DEF HInv, HTypes, LiveInv, Size, Covers
  <2>4. CASE GoesBack
    <3>1. PagerInv'
      BY <2>0, <2>4, GoesBackKeeps
    <3>2. UNCHANGED <<lines, torn, role, position, received, excused>>
      BY <2>4 DEF GoesBack
    <3>3. QED
      BY <2>0, <3>1, <3>2 DEF HInv, HTypes, LiveInv, Size, Covers
  <2>5. CASE UNCHANGED hvars
    BY <2>0, <2>5 DEF hvars, HInv, HTypes, LiveInv, Size, Covers, PagerInv, Window
  <2>6. QED
    BY <2>1, <2>2, <2>3, <2>4, <2>5 DEF HNext
<1>3. QED
  BY <1>1, <1>2, PTL DEF HSpec

(* A client that follows a session by its byte offset receives the lines in *)
(* their order, and misses one only where a poll was further behind than it *)
(* reads, wherever the polls fall between the parts of the writes.          *)
THEOREM FollowerReadsOn == HSpec => []FollowerMissesOnlyFar
<1>1. HInv => FollowerMissesOnlyFar
  <2> SUFFICES ASSUME HInv PROVE FollowerMissesOnlyFar
    OBVIOUS
  <2>0. HTypes /\ LiveInv /\ Rises(received) /\ DOMAIN received = 1..Len(received)
    BY RisesType DEF HInv, LiveInv
  <2>1. \A i, j \in DOMAIN received: i < j => received[i] < received[j]
    BY <2>0 DEF Rises
  <2>2. ASSUME NEW k \in DOMAIN lines, lines[k] \in Kept, Offset(k) + 2 <= position
        PROVE k \in Range(received) \/ k \in excused
    <3>1. k \in Nat /\ 2 * k <= position
      <4>1. k \in Nat /\ position \in Nat
        BY <2>0, SizeIs DEF LiveInv
      <4>2. QED
        BY <2>2, <4>1 DEF Offset
    <3>2. Has(received, k) \/ k \in excused
      BY <2>0, <2>2, <3>1 DEF LiveInv, Covers
    <3>3. QED
      BY <2>0, <3>2 DEF Has, Range
  <2>3. QED
    BY <2>1, <2>2 DEF FollowerMissesOnlyFar
<1>2. QED
  BY <1>1, HInvHolds, PTL

(* A client that goes back through the history comes to an end and sees no  *)
(* line twice, and pages of the chat put together leave no message out.     *)
THEOREM PagesMeet == HSpec => []PagesAdjoin
<1>1. HInv => PagesAdjoin
  <2> SUFFICES ASSUME HInv PROVE PagesAdjoin
    OBVIOUS
  <2>0. /\ HTypes /\ Rises(pager.seen) /\ pager.seen \in Seq(Nat)
        /\ pager.more => pager.older < pager.before
        /\ pager.older \in Nat /\ pager.top \in Nat
    BY DEF HInv, PagerInv
  <2>1. \A i, j \in DOMAIN pager.seen: i < j => pager.seen[i] < pager.seen[j]
    <3>1. DOMAIN pager.seen = 1..Len(pager.seen)
      BY <2>0
    <3>2. QED
      BY <2>0, <3>1 DEF Rises
  <2>2. ASSUME role = "chat", pager.seen # <<>>
        PROVE pager.seen = LinesIn(Offset(pager.seen[1]), 2 * pager.top, Message)
    <3> DEFINE W == Window(pager.older, 2 * pager.top, Message)
               x == pager.seen[1]
    <3>1. InOrder(pager.seen, W)
      BY <2>2 DEF HInv, PagerInv
    <3>2. x \in W /\ From(W, x) = W
      BY <2>2, <3>1, FirstLeast
    <3>3. W = Window(Offset(x), 2 * pager.top, Message)
      BY <2>0, <3>2, WindowFrom
    <3> HIDE DEF W, x
    <3>4. InOrder(LinesIn(Offset(x), 2 * pager.top, Message), W)
      BY <2>0, <3>3, LinesInList
    <3>5. pager.seen = LinesIn(Offset(x), 2 * pager.top, Message)
      BY <3>1, <3>4, ListsOne
    <3>6. QED
      BY <3>5 DEF x
  <2>3. QED
    BY <2>0, <2>1, <2>2 DEF PagesAdjoin
<1>2. QED
  BY <1>1, HInvHolds, PTL
=============================================================================
