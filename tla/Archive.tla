------------------------------- MODULE Archive -------------------------------
(***************************************************************************)
(* The archived sessions (sessionapi/archive.go): a file next to the        *)
(* daemon's other data, a mutex, and HTTP calls that list, set, toggle and  *)
(* replace what is in it. An earlier program wrote the list in an object;   *)
(* the daemon's start rewrites that as an array (compat/compat.go).         *)
(***************************************************************************)
EXTENDS Naturals, FiniteSets

CONSTANTS
    Callers,        \* calls the daemon serves at once
    Archivable,     \* identifiers of sessions
    NoCaller,
    MaxCalls,       \* bound: calls that change the list
    MaxCrashes      \* bound: ends of the daemon

ASSUME ArchiveAssumption ==
    /\ NoCaller \notin Callers /\ "" \notin Archivable
    /\ MaxCalls \in Nat /\ MaxCrashes \in Nat

VARIABLES
    archive,        \* archived_sessions.json: its form and the strings in it
    archiveMutex,   \* the caller that holds Service.mutex
    at,             \* where each call is
    asks,           \* what it asks for
    read,           \* the identifiers it has read, then those it answers
    calls, crashes,
    agreed          \* the list if calls that saved had come one after another

avars == <<archive, archiveMutex, at, asks, read, calls, crashes, agreed>>

(* cleanIDs: blank strings go, and a set has no duplicates.                 *)
CleanIDs(strings) == strings \ {""}

(* Kinds of request: the whole list, one identifier, or one toggled. An     *)
(* `ids` that is no array counts as none; "" is a missing identifier.       *)
Listing == [kind |-> "list"]
Changes ==
    [kind: {"replace"}, ids: SUBSET (Archivable \union {""})]
    \union [kind: {"archive", "unarchive", "toggle"}, id: Archivable \union {""}]

Forms == {"absent", "array", "object", "broken"}

AInit ==
    /\ archive \in {[form |-> "absent", strings |-> {}], [form |-> "broken", strings |-> {}]}
           \union [form: {"array", "object"}, strings: SUBSET (Archivable \union {""})]
    /\ archiveMutex = NoCaller
    /\ at = [c \in Callers |-> "idle"]
    /\ asks = [c \in Callers |-> Listing]
    /\ read = [c \in Callers |-> {}]
    /\ calls = 0 /\ crashes = 0
    /\ agreed = CleanIDs(archive.strings)

Calls(c) ==
    /\ at[c] = "idle"
    /\ \/ asks' = [asks EXCEPT ![c] = Listing] /\ UNCHANGED calls
       \/ /\ calls < MaxCalls /\ calls' = calls + 1
          /\ \E change \in Changes: asks' = [asks EXCEPT ![c] = change]
    /\ at' = [at EXCEPT ![c] = "called"]
    /\ UNCHANGED <<archive, archiveMutex, read, crashes, agreed>>

\* Mutant: the list is read before the mutex is taken.
MutexIgnored == TRUE

MutexFree == archiveMutex = NoCaller

Locks(c) ==
    /\ at[c] = "called" /\ MutexFree
    /\ archiveMutex' = c
    /\ at' = [at EXCEPT ![c] = "locked"]
    /\ UNCHANGED <<archive, asks, read, calls, crashes, agreed>>

Returns(c) ==
    /\ archiveMutex' = NoCaller
    /\ at' = [at EXCEPT ![c] = "idle"]
    /\ asks' = [asks EXCEPT ![c] = Listing]
    /\ read' = [read EXCEPT ![c] = {}]

(* loadArchivedLocked                                                       *)
Loads(c) ==
    /\ at[c] = "locked" /\ archive.form # "broken"
    /\ read' = [read EXCEPT ![c] = CleanIDs(archive.strings)]
    /\ at' = [at EXCEPT ![c] = "loaded"]
    /\ UNCHANGED <<archive, archiveMutex, asks, calls, crashes, agreed>>

(* The file cannot be read or parsed, no identifier is given, or the save   *)
(* fails: the call returns the error.                                       *)
Fails(c) ==
    /\ at[c] \in (IF asks[c] = Listing THEN {"locked"} ELSE {"locked", "loaded"})
    /\ Returns(c)
    /\ UNCHANGED <<archive, calls, crashes, agreed>>

Lists(c) ==
    /\ at[c] = "loaded" /\ asks[c] = Listing
    /\ Returns(c)
    /\ UNCHANGED <<archive, calls, crashes, agreed>>

Changed(ids, change) ==
    CASE change.kind = "replace" -> CleanIDs(change.ids)
      [] change.kind = "archive" -> ids \union {change.id}
      [] change.kind = "unarchive" -> ids \ {change.id}
      [] change.kind = "toggle" ->
             IF change.id \in ids THEN ids \ {change.id} ELSE ids \union {change.id}

NamesOne(change) == change.kind # "replace" => change.id # ""

(* saveArchivedLocked replaces the file in one step.                        *)
Saves(c) ==
    /\ at[c] = "loaded" /\ asks[c] # Listing /\ NamesOne(asks[c])
    /\ archive' = [form |-> "array", strings |-> CleanIDs(Changed(read[c], asks[c]))]
    /\ agreed' = Changed(agreed, asks[c])
    /\ read' = [read EXCEPT ![c] = archive'.strings]
    /\ at' = [at EXCEPT ![c] = "saved"]
    /\ UNCHANGED <<archiveMutex, asks, calls, crashes>>

AnswersChange(c) ==
    /\ at[c] = "saved"
    /\ Returns(c)
    /\ UNCHANGED <<archive, calls, crashes, agreed>>

(* The daemon dies and the next one starts; migrateArchivedSessions         *)
(* rewrites the earlier format and leaves what it cannot parse.             *)
Crashes ==
    /\ crashes < MaxCrashes
    /\ crashes' = crashes + 1
    /\ archive' = [archive EXCEPT !.form = IF @ = "object" THEN "array" ELSE @]
    /\ archiveMutex' = NoCaller
    /\ at' = [c \in Callers |-> "idle"]
    /\ asks' = [c \in Callers |-> Listing]
    /\ read' = [c \in Callers |-> {}]
    /\ UNCHANGED <<calls, agreed>>

ANext ==
    \/ \E c \in Callers:
           Calls(c) \/ Locks(c) \/ Loads(c) \/ Fails(c) \/ Lists(c) \/ Saves(c)
           \/ AnswersChange(c)
    \/ Crashes

ASpec == AInit /\ [][ANext]_avars

-----------------------------------------------------------------------------
(* archive.go:43-92: calls that overlap, fail or die with the daemon have   *)
(* the effect of the saved ones one after another: no change of the list is *)
(* lost to a call that read the list before it, a failed call changes       *)
(* nothing, and each call is answered with the list it made.                *)
ArchiveLosesNothing ==
    /\ CleanIDs(archive.strings) = agreed
    /\ \A c \in Callers: at[c] \in {"loaded", "saved"} => read[c] = agreed
=============================================================================
