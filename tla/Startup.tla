------------------------------- MODULE Startup -------------------------------
(***************************************************************************)
(* The daemon's start (config.Parse) and the `config` commands of           *)
(* cmd/any-aicli-remote-daemon. Several daemons may start at once on one    *)
(* home directory: each resolves its settings, moves the files of the       *)
(* earlier program into its data directory, and reads or creates the        *)
(* pairing secret and the agent secret there. Disk survives, daemons die.   *)
(***************************************************************************)
EXTENDS Configuration

CONSTANTS
    Daemons,
    Paths,          \* configuration files
    Raws,           \* texts someone may write into them or pass to `apply`
    Inputs,         \* pairs of environment and flags of `config show`
    Starts,         \* those daemons are started with
    LegacyDisks,    \* what the earlier program may have left
    LegacyData,     \* its data directory
    DataDirectories,
    MaxEdits,       \* bound: writes of configuration files
    MaxStarts,      \* bound: starts of daemons,
    EditCost,       \* of which each write of a configuration file uses up as many
    MaxFaults       \* bound: reads, writes and closes that fail

(* A file holds a number: Absent, Torn (a secret of fewer than 16           *)
(* characters, an archive that is no JSON), the content of the earlier      *)
(* program, for an archive in the format of then or of now, or a secret     *)
(* some daemon generated.                                                   *)
Absent == 0
Torn == 1
LegacyContent == 2
Converted == 3
Fresh(n) == 3 + n

Names == {"archive", "loops", "pairing", "agent"}
Secrets == {"pairing", "agent"}
Nothing == [name \in Names |-> Absent]
NoSecrets == [name \in Secrets |-> Absent]
NoSettings == [data |-> <<>>, elsewhere |-> {}]

(* What a daemon is about to do, and with which file: "look" for it and     *)
(* "write" it to migrate, "read", "create", "fill" and "close" a secret.    *)
Stopped == <<"off", "none">>
Ready == <<"ready", "none">>

(* A document has its fields and no others, so that one is equal to another *)
(* when all its fields are.                                                 *)
IsDocument(d) ==
    /\ d = [version |-> d.version, bind |-> d.bind, port |-> d.port, agentPort |-> d.agentPort,
            ensure |-> d.ensure, data |-> d.data, runtime |-> d.runtime, approve |-> d.approve,
            secretOption |-> d.secretOption, tuning |-> d.tuning]
    /\ d.data \in DataDirectories \union {<<>>}
    /\ d.tuning \in [Limits -> Int]

WellFormed(raw) ==
    /\ raw.form = "v1" => IsDocument(raw.document)
    /\ raw.form = "v0" => raw.old.data \in DataDirectories \union {<<>>}

WellGiven(input) ==
    /\ ConfigurationPath(input.environment, input.flags) \in Paths
    /\ Environment(input.environment.data, <<>>) \in DataDirectories \union {<<>>}
    /\ input.flags.data \in Seq(DataDirectories \union {<<>>})
    /\ input.flags.ensure \in Seq(STRING) /\ input.flags.approve \in Seq(STRING)

ASSUME StartupAssumption ==
    /\ DataDirectories \subseteq Seq(STRING) \ {<<>>}
    /\ DefaultData \in DataDirectories /\ LegacyData \in DataDirectories
    /\ "config.json" \in Paths
    /\ \A raw \in Raws: WellFormed(raw)
    /\ \A input \in Inputs \union Starts: WellGiven(input)
    /\ \A input \in Starts: input.elsewhere \subseteq Secrets
    /\ LegacyDisks \subseteq [Names -> Nat]
    /\ \A left \in LegacyDisks: left.archive \in {Absent, Torn, LegacyContent, Converted}

VARIABLES
    files,          \* the text in each configuration file
    applied,        \* the document last applied to each, [ok |-> FALSE] if edited since
    edits,
    shown,          \* the input and result of a `config show`, or <<>>
    legacy,         \* the earlier program's files
    disk,           \* the files in each data directory
    step,           \* where each daemon's Parse is
    settings,       \* each daemon's resolved settings
    copy,           \* content a daemon has read to migrate, or generated
    secrets,        \* the secrets each daemon goes on with
    used,           \* the pairing secrets daemons went on with, per directory
    generated,      \* secrets made so far
    starts, faults

configuration == <<files, applied, edits, shown>>
storage == <<legacy, disk>>
daemons == <<step, settings, copy, secrets, used, generated, starts, faults>>
vars == <<configuration, storage, daemons>>

Init ==
    /\ files = [p \in Paths |-> [form |-> "absent"]]
    /\ applied = [p \in Paths |-> Refused]
    /\ edits = 0 /\ shown = <<>>
    /\ legacy \in LegacyDisks
    /\ disk = [d \in DataDirectories |->
           IF d = LegacyData THEN [legacy EXCEPT !.pairing = Absent] ELSE Nothing]
    /\ step = [d \in Daemons |-> Stopped]
    /\ settings = [d \in Daemons |-> NoSettings]
    /\ copy = [d \in Daemons |-> Absent]
    /\ secrets = [d \in Daemons |-> NoSecrets]
    /\ used = [d \in DataDirectories |-> {}]
    /\ generated = 0 /\ starts = 0 /\ faults = 0

-----------------------------------------------------------------------------
EditAllowed == edits < MaxEdits /\ starts + (edits + 1) * EditCost <= MaxStarts
StartAllowed == starts + edits * EditCost < MaxStarts

(* Someone writes a configuration file by hand.                             *)
Edit(path, raw) ==
    /\ EditAllowed
    /\ edits' = edits + 1
    /\ files' = [files EXCEPT ![path] = raw]
    /\ applied' = [applied EXCEPT ![path] = Refused]
    /\ shown' = <<>>
    /\ UNCHANGED <<storage, daemons>>

(* `config apply --config path --input raw`: the candidate is decoded and   *)
(* normalized and replaces the file in one step. A refused candidate, or a  *)
(* failed write, changes nothing.                                           *)
Apply(path, raw) ==
    /\ EditAllowed
    /\ Candidate(raw).ok
    /\ edits' = edits + 1
    /\ files' = [files EXCEPT ![path] = SaveDocument(Candidate(raw).document)]
    /\ applied' = [applied EXCEPT ![path] = Candidate(raw)]
    /\ shown' = <<>>
    /\ UNCHANGED <<storage, daemons>>

(* `config show` prints the settings a daemon would resolve. It only reads  *)
(* the documents, so showing once after each write of them, before the      *)
(* first start, shows everything.                                           *)
Show(input) ==
    /\ starts = 0 /\ shown = <<>>
    /\ shown' = [environment |-> input.environment, flags |-> input.flags,
                 result |-> Resolve(files, input.environment, input.flags)]
    /\ UNCHANGED <<files, applied, edits, storage, daemons>>

-----------------------------------------------------------------------------
Goto(d, next) == step' = [step EXCEPT ![d] = next]

(* The start ends, with an error or because the daemon dies.                *)
Off(d) ==
    /\ Goto(d, Stopped)
    /\ settings' = [settings EXCEPT ![d] = NoSettings]
    /\ copy' = [copy EXCEPT ![d] = Absent]
    /\ secrets' = [secrets EXCEPT ![d] = NoSecrets]

(* Parse: the settings, and which of the secrets are elsewhere than in the  *)
(* data directory: a variable has the secret, or a variable or a flag names *)
(* its file.                                                                *)
Start(d, input) ==
    /\ step[d] = Stopped /\ StartAllowed
    /\ LET result == Resolve(files, input.environment, input.flags)
       IN  /\ result.ok
           /\ settings' = [settings EXCEPT ![d] =
                  [data |-> result.document.data, elsewhere |-> input.elsewhere]]
           /\ Goto(d, IF result.document.data = LegacyData
                      THEN <<"read", "pairing">> ELSE <<"look", "archive">>)
    /\ starts' = starts + 1 /\ shown' = <<>>
    /\ UNCHANGED <<files, applied, edits, storage, copy, secrets, used, generated, faults>>

Data(d) == settings[d].data

(* migrateArchivedSessions: what is to be written, Absent for nothing, Torn *)
(* for the error that ends the start.                                       *)
ArchiveCopy(present, source) ==
    CASE present = LegacyContent -> Converted
      [] present \in {Torn, Converted} -> Absent
      [] present = Absent /\ source \in {LegacyContent, Converted} -> Converted
      [] present = Absent /\ source \in {Absent, Torn} -> source

\* Mutant: the pairing secret is never looked for.
AfterCopySkips(d, name) ==
    IF name = "archive" THEN <<"look", "loops">> ELSE <<"read", "pairing">>

(* The secret is in the data directory, where its file is by default.       *)
OnDisk(d, name) == name \notin settings[d].elsewhere

(* The file after this one, and where a copy of it comes from.              *)
AfterCopy(d, name) ==
    CASE name = "archive" -> <<"look", "loops">>
      [] name = "loops" /\ OnDisk(d, "pairing") -> <<"look", "pairing">>
      [] OTHER -> <<"read", "pairing">>

(* MigrateDataFiles looks for one file: the destination, then the source. A *)
(* copy that is there stays; a source that cannot be read counts as none,   *)
(* but for the archive.                                                     *)
LookForCopy(d, name, source) ==
    /\ step[d] = <<"look", name>>
    /\ LET present == disk[Data(d)][name]
           found == IF name = "archive" THEN ArchiveCopy(present, source)
                    ELSE IF present = Absent THEN source ELSE Absent
       IN  IF name = "archive" /\ found = Torn THEN Off(d)
           ELSE /\ Goto(d, IF found = Absent THEN AfterCopy(d, name) ELSE <<"write", name>>)
                /\ copy' = [copy EXCEPT ![d] = found]
                /\ UNCHANGED <<settings, secrets>>
    /\ UNCHANGED <<configuration, storage, used, generated, starts>>

(* WritePrivate replaces the destination in one step.                       *)
WriteCopy(d, name) ==
    /\ step[d] = <<"write", name>>
    /\ disk' = [disk EXCEPT ![Data(d)][name] = copy[d]]
    /\ copy' = [copy EXCEPT ![d] = Absent]
    /\ Goto(d, AfterCopy(d, name))
    /\ UNCHANGED <<configuration, legacy, settings, secrets, used, generated, starts, faults>>

LegacyFileUnreadable(d, name) ==
    /\ name # "archive"
    /\ faults < MaxFaults /\ faults' = faults + 1
    /\ LookForCopy(d, name, Absent)

Migrate(d) ==
    \E name \in {"archive", "loops", "pairing"}:
        \/ LookForCopy(d, name, legacy[name]) /\ UNCHANGED faults
        \/ LegacyFileUnreadable(d, name)
        \/ WriteCopy(d, name)

-----------------------------------------------------------------------------
(* loadOrCreateSecret for the pairing secret and then the agent secret. One *)
(* that a variable has is not looked for on disk; a file that was named is  *)
(* outside the data directory and not modelled further. Ends stands for the *)
(* start that such a secret or file makes fail.                             *)
Found(d, name, secret) ==
    /\ secrets' = [secrets EXCEPT ![d][name] = secret]
    /\ Goto(d, IF name = "pairing" THEN <<"read", "agent">> ELSE Ready)
    /\ used' = IF name = "agent" /\ OnDisk(d, "pairing")
               THEN [used EXCEPT ![Data(d)] = @ \union {secrets[d].pairing}] ELSE used

SecretElsewhere(d, name) ==
    /\ step[d] = <<"read", name>> /\ ~OnDisk(d, name)
    /\ Found(d, name, Absent)
    /\ UNCHANGED <<configuration, storage, settings, copy, generated, starts, faults>>

(* The file is there: a whole secret is taken, anything shorter ends the    *)
(* start.                                                                   *)
SecretRead(d, name) ==
    /\ step[d] = <<"read", name>> /\ disk[Data(d)][name] # Absent
    /\ OnDisk(d, name)
    /\ IF disk[Data(d)][name] = Torn
       THEN Off(d) /\ UNCHANGED used
       ELSE Found(d, name, disk[Data(d)][name]) /\ UNCHANGED <<settings, copy>>
    /\ UNCHANGED <<configuration, storage, generated, starts, faults>>

(* The file is not there: a secret is generated.                            *)
SecretGenerate(d, name) ==
    /\ step[d] = <<"read", name>> /\ disk[Data(d)][name] = Absent
    /\ OnDisk(d, name)
    /\ generated' = generated + 1
    /\ copy' = [copy EXCEPT ![d] = Fresh(generated + 1)]
    /\ Goto(d, <<"create", name>>)
    /\ UNCHANGED <<configuration, storage, settings, secrets, used, starts, faults>>

\* Mutant: the file is opened without O_EXCL.
SecretOverwrite(d, name) ==
    /\ step[d] = <<"create", name>>
    /\ Goto(d, <<"fill", name>>)
    /\ disk' = [disk EXCEPT ![Data(d)][name] = Torn]
    /\ UNCHANGED <<settings, copy, secrets>>
    /\ UNCHANGED <<configuration, legacy, used, generated, starts, faults>>

(* O_EXCL: the file of a daemon that was faster ends this start.            *)
SecretCreate(d, name) ==
    /\ step[d] = <<"create", name>>
    /\ IF disk[Data(d)][name] = Absent
       THEN /\ Goto(d, <<"fill", name>>)
            /\ disk' = [disk EXCEPT ![Data(d)][name] = Torn]
            /\ UNCHANGED <<settings, copy, secrets>>
       ELSE Off(d) /\ UNCHANGED disk
    /\ UNCHANGED <<configuration, legacy, used, generated, starts, faults>>

SecretFill(d, name) ==
    /\ step[d] = <<"fill", name>>
    /\ disk' = [disk EXCEPT ![Data(d)][name] = copy[d]]
    /\ Goto(d, <<"close", name>>)
    /\ UNCHANGED <<configuration, legacy, settings, copy, secrets, used, generated, starts, faults>>

SecretCloses(d, name) ==
    /\ step[d] = <<"close", name>>
    /\ Found(d, name, copy[d])
    /\ copy' = [copy EXCEPT ![d] = Absent]
    /\ UNCHANGED <<configuration, storage, settings, generated, starts, faults>>

(* The write or the close fails: the file is removed and the start ends.    *)
SecretFails(d, name) ==
    /\ step[d] \in {<<"fill", name>>, <<"close", name>>} /\ faults < MaxFaults
    /\ faults' = faults + 1
    /\ disk' = [disk EXCEPT ![Data(d)][name] = Absent]
    /\ Off(d)
    /\ UNCHANGED <<configuration, legacy, used, generated, starts>>

(* The daemon stops or dies, wherever it is.                                *)
Ends(d) ==
    /\ step[d] # Stopped
    /\ Off(d)
    /\ UNCHANGED <<configuration, storage, used, generated, starts, faults>>

Next ==
    \/ \E p \in Paths, raw \in Raws: Edit(p, raw) \/ Apply(p, raw)
    \/ \E input \in Inputs: Show(input)
    \/ \E d \in Daemons:
        \/ \E input \in Starts: Start(d, input)
        \/ Migrate(d) \/ Ends(d)
        \/ \E name \in Secrets:
            SecretElsewhere(d, name) \/ SecretRead(d, name) \/ SecretGenerate(d, name) \/ SecretCreate(d, name)
            \/ SecretFill(d, name) \/ SecretCloses(d, name) \/ SecretFails(d, name)

Spec == Init /\ [][Next]_vars

-----------------------------------------------------------------------------
Plain == [config |-> <<>>, bind |-> <<>>, port |-> <<>>, data |-> <<>>, runtime |-> <<>>,
          ensure |-> <<>>, approve |-> <<>>, plaintextSecret |-> FALSE]
Unnamed(none) == [primary |-> none, legacy |-> none]
NoEnvironment ==
    [config |-> "", bind |-> Unnamed(""), port |-> Unnamed(Unset), data |-> Unnamed(<<>>),
     runtime |-> Unnamed(<<>>), ensure |-> Unnamed(""), approve |-> Unnamed("")]

(* Settings come back as they were given. The document `config apply`       *)
(* accepted is the one the next command or daemon loads, as long as nobody  *)
(* writes the file by hand; and what `config show` prints may be passed to  *)
(* `config apply`, as the macOS launcher does, after which a daemon without *)
(* environment or flags resolves exactly those settings.                    *)
SettingsRoundTrip ==
    /\ \A p \in Paths: applied[p].ok => LoadDocument(files[p]) = applied[p]
    /\ shown # <<>> /\ shown.result.ok =>
           LET raw == SaveDocument(shown.result.document)
           IN  /\ Candidate(raw) = shown.result
               /\ Resolve([p \in Paths |-> raw], NoEnvironment, Plain) = shown.result

(* Each setting comes from the highest layer that gives it: the last of its *)
(* flags, even a blank one, the environment, its name before the rename,    *)
(* the document. So `--data-dir ""` means the default directory, whatever   *)
(* lies below it, and a blank --bind is never what is resolved; a runtime   *)
(* directory that the document gives stays, whatever data directory is laid *)
(* over it.                                                                 *)
FirstGiven(layers) ==
    layers[CHOOSE k \in DOMAIN layers:
               /\ layers[k] # <<>> \/ k = Len(layers)
               /\ \A j \in 1..(k - 1): layers[j] = <<>>]

(* A layer is the sequence of the values it gives, a flag may give several. *)
Said(value, none) == IF value = none THEN <<>> ELSE <<value>>
Layered(flag, variable, none, base) ==
    LET values == FirstGiven(<<flag, Said(variable.primary, none),
                               Said(variable.legacy, none), <<base>>>>)
    IN  values[Len(values)]

LayersRespected ==
    shown # <<>> /\ shown.result.ok =>
        LET e == shown.environment
            f == shown.flags
            base == LoadDocument(files[ConfigurationPath(e, f)]).document
            result == shown.result.document
        IN  /\ result.port = Layered(f.port, e.port, Unset, base.port)
            /\ result.bind = Layered(f.bind, e.bind, "", base.bind) /\ result.bind # ""
            /\ LET data == Layered(f.data, e.data, <<>>, base.data)
               IN  result.data = Given(data, <<>>, DefaultData)
            /\ LET runtime == Layered(f.runtime, e.runtime, <<>>, base.runtime)
               IN  result.runtime = Given(runtime, <<>>, RunOf(result.data))
            /\ LET word == Layered(f.ensure, e.ensure, "", "")
               IN  result.ensure = IF word = "" THEN base.ensure ELSE word \in TrueWords
            /\ result.approve = "true" <=>
                   Layered(f.approve, e.approve, "", base.approve) \in TrueWords

(* All daemons that ever went on in one data directory used one pairing     *)
(* secret, however their starts overlapped and wherever they died, unless a *)
(* read, a write or a close failed.                                         *)
SecretLasts ==
    faults = 0 => \A d \in DataDirectories: Cardinality(used[d]) <= 1

(* A daemon goes on with the earlier program's loops, archived sessions and *)
(* pairing secret, however its start overlapped with others, unless a read  *)
(* of them failed.                                                          *)
LegacyCarriedOver ==
    faults = 0 => \A d \in Daemons:
        step[d] = Ready /\ Data(d) # LegacyData =>
            /\ disk[Data(d)].loops = legacy.loops
            /\ legacy.archive # Absent => disk[Data(d)].archive = Converted
            /\ legacy.pairing # Absent /\ OnDisk(d, "pairing") =>
                   secrets[d].pairing = legacy.pairing
=============================================================================
