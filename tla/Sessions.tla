------------------------------ MODULE Sessions ------------------------------
(***************************************************************************)
(* One session between its workspace and its provider: the binding the hub  *)
(* keeps (hub/sessions.go), the pinned directory the file API works in      *)
(* (fsapi), and the session's directories in the provider's store, whose    *)
(* summaries name the workspace and the title (provider/grok). Users move   *)
(* directories and the agent moves and rewrites summaries at any time.      *)
(* The hub's table and every handler are keyed by session, so one session   *)
(* stands for all.                                                          *)
(***************************************************************************)
EXTENDS Naturals, FiniteSets

CONSTANTS
    Requests,       \* HTTP requests the daemon serves at once
    Paths,          \* canonical workspace paths
    Directories,    \* directories that may be put there
    InodeOf,        \* the device and inode number of each directory
    Copies,         \* directories of the session in the store, by path order
    None,
    MaxSwaps,       \* bound: changes of what a workspace path names
    MaxWrites,      \* bound: titles, and moves of a session directory
    MaxRestarts     \* bound: restarts of the daemon

ASSUME SessionsAssumption ==
    /\ Copies \subseteq Nat /\ IsFiniteSet(Copies)
    /\ InodeOf \in [Directories -> Nat]
    /\ Paths \cap Directories = {} /\ None \notin Paths \union Directories
    /\ MaxSwaps \in Nat /\ MaxWrites \in Nat /\ MaxRestarts \in Nat

VARIABLES
    at,             \* what a path names: a directory, a link's target, None
    home,           \* where a session directory is: active, archived, gone
    summary,        \* the summary.json in it
    binding,        \* the hub's entry for the session, None without one
    request,        \* what each request has reached and holds
    ran,            \* directories file operations ran in since the start
    renamed,        \* renames that were answered ok
    swaps, writes, restarts

vars == <<at, home, summary, binding, request, ran, renamed, swaps, writes, restarts>>
store == <<home, summary, renamed, writes>>
daemon == <<binding, request, ran, restarts>>

Idle == [step |-> "idle", path |-> None, root |-> None, dir |-> None,
         copy |-> None, from |-> None, read |-> None, title |-> 0]

Init ==
    /\ at = [p \in Paths |-> None]
    /\ home = [c \in Copies |-> "gone"]
    /\ summary = [c \in Copies |-> [cwd |-> None, title |-> 0, stamp |-> 0]]
    /\ binding = None
    /\ request = [r \in Requests |-> Idle]
    /\ ran = {} /\ renamed = {}
    /\ swaps = 0 /\ writes = 0 /\ restarts = 0

(* What a request has reached, the fields it does not hold as when idle.    *)
Holding(fields) == [f \in DOMAIN Idle |-> IF f \in DOMAIN fields THEN fields[f] ELSE Idle[f]]

Goes(r, fields) == request' = [request EXCEPT ![r] = Holding(fields)]
Ends(r) == request' = [request EXCEPT ![r] = Idle]

-----------------------------------------------------------------------------
(* Paths and pinned directories (fsapi/root.go).                            *)

Target(p) == IF at[p] \in Paths THEN at[p] ELSE p
Reached(p) == at[Target(p)]

PinRoot(p) ==
    IF Reached(p) \in Directories
    THEN [path |-> Target(p), inode |-> InodeOf[Reached(p)]] ELSE None

Validate(root) ==
    /\ at[root.path] \in Directories
    /\ InodeOf[at[root.path]] = root.inode

(* Users replace, remove, restore and link directories. A number belongs to *)
(* one directory at a time, and one that is open keeps its number.          *)
InUse(d) == \/ \E p \in Paths: at[p] = d
            \/ \E r \in Requests: request[r].dir = d

Swap(p, entry) ==
    /\ swaps < MaxSwaps /\ entry # at[p]
    /\ entry \in Directories =>
           /\ \A q \in Paths: at[q] # entry
           /\ \A d \in Directories \ {entry, at[p]}: InUse(d) => InodeOf[d] # InodeOf[entry]
           /\ at[p] \in Directories /\ (\E r \in Requests: request[r].dir = at[p])
                  => InodeOf[at[p]] # InodeOf[entry]
    /\ entry \in Paths => at[entry] \in Directories /\ entry # p
    /\ at' = [at EXCEPT ![p] = entry]
    /\ swaps' = swaps + 1
    /\ UNCHANGED <<daemon, store>>

-----------------------------------------------------------------------------
(* The provider's store (provider/grok/sessioncatalog.go).                  *)

Present == {c \in Copies: home[c] # "gone"}

(* preferSession: active before archived, then the later one, then by path. *)
Prefers(c, d) ==
    IF home[c] # home[d] THEN home[c] = "active"
    ELSE IF summary[c].stamp # summary[d].stamp THEN summary[c].stamp > summary[d].stamp
    ELSE c < d

(* The one copy that a scan of the store finds best, if there is any.       *)
ResolveSession == {c \in Present: \A d \in Present \ {c}: Prefers(c, d)}

(* The agent creates the session's directory, writes a title of its own and *)
(* moves the directory between the active and the archived root.            *)
AgentCreates(c, p) ==
    /\ writes < MaxWrites /\ home[c] = "gone"
    /\ home' = [home EXCEPT ![c] = "active"]
    /\ summary' = [summary EXCEPT ![c] =
                       [cwd |-> p, title |-> writes + 1, stamp |-> writes + 1]]
    /\ writes' = writes + 1
    /\ UNCHANGED <<at, daemon, renamed, swaps>>

AgentWrites(c) ==
    /\ writes < MaxWrites /\ home[c] = "active"
    /\ summary' = [summary EXCEPT ![c].title = writes + 1, ![c].stamp = writes + 1]
    /\ writes' = writes + 1
    /\ UNCHANGED <<at, home, daemon, renamed, swaps>>

AgentMoves(c) ==
    /\ writes < MaxWrites /\ home[c] # "gone"
    /\ home' = [home EXCEPT ![c] = IF @ = "active" THEN "archived" ELSE "active"]
    /\ writes' = writes + 1
    /\ UNCHANGED <<at, summary, daemon, renamed, swaps>>

-----------------------------------------------------------------------------
(* ResolveSessionRoot, and the file operation it is resolved for.           *)

(* The table is read under the mutex; an entry makes the catalog needless.  *)
Asks(r) ==
    /\ request[r].step = "idle"
    /\ Goes(r, IF binding # None THEN [step |-> "resolved", root |-> binding]
               ELSE [step |-> "catalog"])
    /\ UNCHANGED <<at, store, binding, ran, swaps, restarts>>

(* The working directory in the summary that the catalog prefers.           *)
AsksCatalog(r) ==
    /\ request[r].step = "catalog"
    /\ \/ \E c \in ResolveSession: Goes(r, [step |-> "canonical", path |-> summary[c].cwd])
       \/ ResolveSession = {} /\ Ends(r)
    /\ UNCHANGED <<at, store, binding, ran, swaps, restarts>>

(* CanonicalDirectory: its links are resolved.                              *)
Canonical(r) ==
    /\ request[r].step = "canonical"
    /\ IF Reached(request[r].path) \in Directories
       THEN Goes(r, [step |-> "pin", path |-> Target(request[r].path)])
       ELSE Ends(r)
    /\ UNCHANGED <<at, store, binding, ran, swaps, restarts>>

Pins(r) ==
    /\ request[r].step = "pin"
    /\ IF PinRoot(request[r].path) # None
       THEN Goes(r, [step |-> "bind", root |-> PinRoot(request[r].path)])
       ELSE Ends(r)
    /\ UNCHANGED <<at, store, binding, ran, swaps, restarts>>

(* Under the mutex again: the first binding stays.                          *)
Bound(existing, pinned) == IF existing = None THEN pinned ELSE existing

Binds(r) ==
    /\ request[r].step = "bind"
    /\ binding' = Bound(binding, request[r].root)
    /\ Goes(r, [step |-> "resolved", root |-> binding'])
    /\ UNCHANGED <<at, store, ran, swaps, restarts>>

\* Mutant: an answer of the agent that names the same path binds it anew.
CapturedAnew(existing, pinned) ==
    IF existing = None \/ existing.path = pinned.path THEN pinned ELSE existing

(* The answer to a request of the agent names the session and the path it   *)
(* was prepared with; an entry that is there is kept as it is.              *)
Captured(existing, pinned) == IF existing = None THEN pinned ELSE existing

Captures(p) ==
    /\ PinRoot(p) # None
    /\ binding' = Captured(binding, PinRoot(p))
    /\ UNCHANGED <<at, store, request, ran, swaps, restarts>>

(* Every Validate on the way of a file operation: at the end of the         *)
(* resolution, before and after OpenRoot opens, and in the operation.       *)
AfterValidate ==
    [resolved |-> "enter", enter |-> "open", opened |-> "ready", ready |-> "operate"]

Validates(r) ==
    /\ request[r].step \in DOMAIN AfterValidate
    /\ IF Validate(request[r].root)
       THEN request' = [request EXCEPT ![r].step = AfterValidate[@]]
       ELSE Ends(r)
    /\ UNCHANGED <<at, store, binding, ran, swaps, restarts>>

(* os.OpenRoot follows the path; what it opened is compared with the pin.   *)
SameFile(root, d) == d \in Directories /\ InodeOf[d] = root.inode

Opens(r) ==
    /\ request[r].step = "open"
    /\ IF SameFile(request[r].root, Reached(request[r].root.path))
       THEN Goes(r, [step |-> "opened", root |-> request[r].root,
                     dir |-> Reached(request[r].root.path)])
       ELSE Ends(r)
    /\ UNCHANGED <<at, store, binding, ran, swaps, restarts>>

(* List, Read, Write and Mkdir work below the open directory.               *)
Operates(r) ==
    /\ request[r].step = "operate"
    /\ IF SameFile(request[r].root, request[r].dir)
       THEN ran' = ran \union {request[r].dir} ELSE ran' = ran
    /\ Ends(r)
    /\ UNCHANGED <<at, store, binding, swaps, restarts>>

-----------------------------------------------------------------------------
(* RenameSession. Every title is new.                                       *)

AsksRename(r) ==
    /\ request[r].step = "idle" /\ writes < MaxWrites
    /\ writes' = writes + 1
    /\ Goes(r, [step |-> "find", title |-> writes + 1])
    /\ UNCHANGED <<at, home, summary, binding, ran, renamed, swaps, restarts>>

FindsCopy(r) ==
    /\ request[r].step = "find"
    /\ \/ \E copy \in ResolveSession:
              Goes(r, [step |-> "lock", title |-> request[r].title,
                       copy |-> copy, from |-> home[copy]])
       \/ ResolveSession = {} /\ Ends(r)
    /\ UNCHANGED <<at, store, binding, ran, swaps, restarts>>

\* Mutant: the summary is read and replaced without the mutex.
RenameUnlocked == TRUE

RenameIsFree == \A r \in Requests: request[r].step # "replace"

(* The mutex is taken and the summary is read at the path found before.     *)
ReadsSummary(r) ==
    /\ request[r].step = "lock" /\ RenameIsFree
    /\ IF home[request[r].copy] = request[r].from
       THEN request' = [request EXCEPT ![r].step = "replace",
                                       ![r].read = summary[request[r].copy]]
       ELSE Ends(r)
    /\ UNCHANGED <<at, store, binding, ran, swaps, restarts>>

(* The new summary replaces the old one in the directory that is open,      *)
(* wherever that has moved to. The agent writes last_active_at, which goes  *)
(* before the updated_at of a rename, so the stamp stays.                   *)
Replaces(r) ==
    /\ request[r].step = "replace"
    /\ LET copy == request[r].copy
       IN  /\ summary' = [summary EXCEPT ![copy] =
                              [request[r].read EXCEPT !.title = request[r].title]]
           /\ renamed' = renamed \union {[copy |-> copy, title |-> request[r].title,
                                          previous |-> request[r].read.title]}
    /\ Ends(r)
    /\ UNCHANGED <<at, home, binding, ran, swaps, writes, restarts>>

(* The temporary file cannot be created, written, synced or renamed.        *)
RenameFails(r) ==
    /\ request[r].step = "replace"
    /\ Ends(r)
    /\ UNCHANGED <<at, store, binding, ran, swaps, restarts>>

-----------------------------------------------------------------------------
(* The daemon dies at any step of any request and starts without bindings.  *)
Restart ==
    /\ restarts < MaxRestarts
    /\ restarts' = restarts + 1
    /\ binding' = None /\ ran' = {}
    /\ request' = [r \in Requests |-> Idle]
    /\ UNCHANGED <<at, store, swaps>>

Next ==
    \/ \E p \in Paths, entry \in Directories \union Paths \union {None}: Swap(p, entry)
    \/ \E c \in Copies, p \in Paths: AgentCreates(c, p)
    \/ \E c \in Copies: AgentWrites(c) \/ AgentMoves(c)
    \/ \E p \in Paths: Captures(p)
    \/ \E r \in Requests:
           \/ Asks(r) \/ AsksCatalog(r) \/ Canonical(r) \/ Pins(r) \/ Binds(r)
           \/ Validates(r) \/ Opens(r) \/ Operates(r)
           \/ AsksRename(r) \/ FindsCopy(r) \/ ReadsSummary(r)
           \/ Replaces(r) \/ RenameFails(r)
    \/ Restart

Spec == Init /\ [][Next]_vars

-----------------------------------------------------------------------------
(* While a daemon runs, all file operations of a session happen in one      *)
(* directory, whatever the paths come to name, however many requests        *)
(* resolve the session at once, and whether the catalog or an answer of the *)
(* agent binds it first.                                                    *)
OneDirectory == Cardinality(ran) <= 1

(* No two answered renames of a session directory name the same previous    *)
(* title (sessioncatalog.go:129-168): of two renames the second reports the *)
(* title of the first, and neither is overwritten by the other unnoticed.   *)
RenamesChain ==
    \A x, y \in renamed: x.copy = y.copy /\ x.previous = y.previous => x = y
=============================================================================
