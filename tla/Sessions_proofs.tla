-------------------------- MODULE Sessions_proofs --------------------------
(***************************************************************************)
(* Where the numbers of directories are not used again, a session stays in  *)
(* one directory, and no rename is undone unreported, for any number of     *)
(* requests, paths, directories and copies of the session. And what clients *)
(* answer to the questions of a session reaches the agent.                  *)
(***************************************************************************)
EXTENDS Sessions, Interaction, FiniteSetTheorems, SequenceTheorems, TLAPS

(* A RootIdentity: the canonical path and the FileInfo pinned for it.       *)
Identity == [path: Paths, inode: Nat]

Summaries == [cwd: Paths \union {None}, title: Nat, stamp: Nat]
Homes == {"active", "archived", "gone"}
Steps == {"idle", "catalog", "canonical", "pin", "bind", "resolved", "enter", "open",
          "opened", "ready", "operate", "find", "lock", "replace"}

Held == [step: Steps, path: Paths \union {None}, root: Identity \union {None},
         dir: Directories \union {None}, copy: Copies \union {None},
         from: Homes \union {None}, read: Summaries \union {None}, title: Nat]

TypeOK ==
    /\ at \in [Paths -> Directories \union Paths \union {None}]
    /\ home \in [Copies -> Homes]
    /\ summary \in [Copies -> Summaries]
    /\ binding \in Identity \union {None}
    /\ request \in [Requests -> Held]
    /\ ran \in SUBSET Directories
    /\ renamed \in SUBSET [copy: Copies, title: Nat, previous: Nat]
    /\ writes \in Nat

(* A session that is in the store names a workspace.                        *)
Placed == \A c \in Copies: home[c] # "gone" => summary[c].cwd \in Paths

(* A request that has resolved the session has the hub's binding, and the   *)
(* directory it has open is the one that was pinned; a rename has what it   *)
(* found and what it read.                                                  *)
Follows(q) ==
    /\ q.step \in {"canonical", "pin"} => q.path \in Paths
    /\ q.step = "bind" => q.root # None
    /\ q.step \in {"resolved", "enter", "open", "opened", "ready", "operate"} =>
           q.root = binding /\ binding # None
    /\ q.step \in {"opened", "ready", "operate"} => SameFile(q.root, q.dir)
    /\ q.step \in {"lock", "replace"} => q.copy \in Copies
    /\ q.step = "lock" => q.from # "gone"
    /\ q.step = "replace" => q.read \in Summaries /\ q.read.cwd \in Paths

Following == \A r \in Requests: Follows(request[r])

RanPinned == \A d \in ran: binding # None /\ InodeOf[d] = binding.inode

DirectoryInv == TypeOK /\ Placed /\ Following /\ RanPinned

(* What a request holds after it goes on.                                   *)
LEMMA HoldingFields ==
    ASSUME NEW s \in Steps
    PROVE  /\ Idle \in Held /\ Idle.step = "idle"
           /\ Holding([step |-> s]) \in Held /\ Holding([step |-> s]).step = s
           /\ \A root \in Identity \union {None}:
                  LET q == Holding([step |-> s, root |-> root])
                  IN  q \in Held /\ q.step = s /\ q.root = root
           /\ \A p \in Paths:
                  LET q == Holding([step |-> s, path |-> p])
                  IN  q \in Held /\ q.step = s /\ q.path = p
           /\ \A root \in Identity \union {None}, d \in Directories:
                  LET q == Holding([step |-> s, root |-> root, dir |-> d])
                  IN  q \in Held /\ q.step = s /\ q.root = root /\ q.dir = d
           /\ \A t \in Nat:
                  LET q == Holding([step |-> s, title |-> t])
                  IN  q \in Held /\ q.step = s /\ q.title = t
           /\ \A t \in Nat, c \in Copies, h \in Homes:
                  LET q == Holding([step |-> s, title |-> t, copy |-> c, from |-> h])
                  IN  q \in Held /\ q.step = s /\ q.title = t /\ q.copy = c /\ q.from = h
<1> USE DEF Holding, Idle, Held
<1>1. Idle \in Held /\ Idle.step = "idle"
  BY DEF Steps
<1>2. Holding([step |-> s]) \in Held /\ Holding([step |-> s]).step = s
  OBVIOUS
<1>3. ASSUME NEW root \in Identity \union {None}
      PROVE  LET q == Holding([step |-> s, root |-> root])
             IN  q \in Held /\ q.step = s /\ q.root = root
  OBVIOUS
<1>4. ASSUME NEW p \in Paths
      PROVE  LET q == Holding([step |-> s, path |-> p])
             IN  q \in Held /\ q.step = s /\ q.path = p
  OBVIOUS
<1>5. ASSUME NEW root \in Identity \union {None}, NEW d \in Directories
      PROVE  LET q == Holding([step |-> s, root |-> root, dir |-> d])
             IN  q \in Held /\ q.step = s /\ q.root = root /\ q.dir = d
  OBVIOUS
<1>6. ASSUME NEW t \in Nat
      PROVE  LET q == Holding([step |-> s, title |-> t])
             IN  q \in Held /\ q.step = s /\ q.title = t
  OBVIOUS
<1>7. ASSUME NEW t \in Nat, NEW c \in Copies, NEW h \in Homes
      PROVE  LET q == Holding([step |-> s, title |-> t, copy |-> c, from |-> h])
             IN  q \in Held /\ q.step = s /\ q.title = t /\ q.copy = c /\ q.from = h
  OBVIOUS
<1> HIDE DEF Holding, Idle, Held
<1>8. QED
  BY <1>1, <1>2, <1>3, <1>4, <1>5, <1>6, <1>7

LEMMA Pinned ==
    ASSUME TypeOK, NEW p \in Paths
    PROVE  Target(p) \in Paths /\ PinRoot(p) \in Identity \union {None}
<1>1. Target(p) \in Paths
  BY DEF TypeOK, Target
<1>2. Reached(p) \in Directories => InodeOf[Reached(p)] \in Nat
  BY SessionsAssumption
<1>3. QED
  BY <1>1, <1>2 DEF PinRoot, Identity

(* One request goes on, and the binding stays as it is.                     *)
LEMMA OneGoesOn ==
    ASSUME DirectoryInv, NEW r \in Requests, NEW q \in Held, Follows(q),
           request' = [request EXCEPT ![r] = q],
           UNCHANGED <<at, store, binding, ran>>
    PROVE  DirectoryInv'
<1> USE DEF DirectoryInv, store
<1>1. TypeOK'
  BY DEF TypeOK
<1>2. Placed' /\ RanPinned'
  BY DEF Placed, RanPinned
<1>3. ASSUME NEW s \in Requests PROVE Follows(request[s])'
  <2>1. request'[s] = q \/ request'[s] = request[s]
    BY DEF TypeOK
  <2>2. Follows(request'[s])
    BY <2>1 DEF Following
  <2>3. QED
    BY <2>2 DEF Follows, SameFile
<1>4. QED
  BY <1>1, <1>2, <1>3 DEF Following

LEMMA IdleFollows == Idle \in Held /\ Follows(Idle)
BY HoldingFields DEF Follows, Idle, Steps

LEMMA OneEnds ==
    ASSUME DirectoryInv, NEW r \in Requests, Ends(r), UNCHANGED <<at, store, binding, ran>>
    PROVE  DirectoryInv'
BY IdleFollows, OneGoesOn DEF Ends

(* The requests stay where they are.                                        *)
LEMMA NoneGoesOn ==
    ASSUME Following, UNCHANGED <<request, binding>>
    PROVE  Following'
BY DEF Following, Follows, SameFile

LEMMA OutsideStep ==
    ASSUME DirectoryInv,
           \/ \E p \in Paths, entry \in Directories \union Paths \union {None}: Swap(p, entry)
           \/ \E c \in Copies, p \in Paths: AgentCreates(c, p)
           \/ \E c \in Copies: AgentWrites(c) \/ AgentMoves(c)
    PROVE  DirectoryInv'
<1> USE DEF DirectoryInv
<1>1. UNCHANGED <<binding, request, ran, renamed>>
  BY DEF Swap, AgentCreates, AgentWrites, AgentMoves, daemon, store
<1>2. Following' /\ RanPinned'
  BY <1>1, NoneGoesOn DEF RanPinned
<1>3. ASSUME NEW p \in Paths, NEW entry \in Directories \union Paths \union {None},
             Swap(p, entry)
      PROVE  TypeOK' /\ Placed'
  BY <1>3 DEF TypeOK, Placed, Swap, daemon, store
<1>4. ASSUME NEW c \in Copies, NEW p \in Paths, AgentCreates(c, p) PROVE TypeOK' /\ Placed'
  <2>1. [cwd |-> p, title |-> writes + 1, stamp |-> writes + 1] \in Summaries
    BY DEF TypeOK, Summaries
  <2>2. TypeOK'
    BY <1>4, <2>1 DEF TypeOK, AgentCreates, daemon, Homes
  <2>3. Placed'
    BY <1>4 DEF TypeOK, Placed, AgentCreates
  <2>4. QED
    BY <2>2, <2>3
<1>5. ASSUME NEW c \in Copies, AgentWrites(c) PROVE TypeOK' /\ Placed'
  <2> DEFINE new == [summary[c] EXCEPT !.title = writes + 1, !.stamp = writes + 1]
  <2>1. summary[c] \in Summaries /\ writes + 1 \in Nat
    BY DEF TypeOK
  <2>2. new \in Summaries /\ new.cwd = summary[c].cwd
    BY <2>1 DEF Summaries
  <2>3. summary' = [summary EXCEPT ![c] = new]
    BY <1>5 DEF AgentWrites, TypeOK
  <2> HIDE DEF new
  <2>4. TypeOK'
    BY <1>5, <2>2, <2>3 DEF TypeOK, AgentWrites, daemon
  <2>5. Placed'
    BY <1>5, <2>2, <2>3 DEF TypeOK, Placed, AgentWrites
  <2>6. QED
    BY <2>4, <2>5
<1>6. ASSUME NEW c \in Copies, AgentMoves(c) PROVE TypeOK' /\ Placed'
  <2>1. home' \in [Copies -> Homes]
    BY <1>6 DEF TypeOK, AgentMoves, Homes
  <2>2. TypeOK'
    BY <1>6, <2>1 DEF TypeOK, AgentMoves, daemon
  <2>3. Placed'
    BY <1>6 DEF TypeOK, Placed, AgentMoves
  <2>4. QED
    BY <2>2, <2>3
<1>7. QED
  BY <1>2, <1>3, <1>4, <1>5, <1>6

(* A request resolves the session.                                          *)
LEMMA ResolveStep ==
    ASSUME DirectoryInv, NEW r \in Requests,
           Asks(r) \/ AsksCatalog(r) \/ Canonical(r) \/ Pins(r) \/ Binds(r)
    PROVE  DirectoryInv'
<1> USE DEF DirectoryInv
<1>1. CASE Asks(r)
  <2> DEFINE q == IF binding # None THEN Holding([step |-> "resolved", root |-> binding])
                  ELSE Holding([step |-> "catalog"])
  <2>1. q \in Held /\ Follows(q)
    BY HoldingFields DEF TypeOK, Follows, Steps
  <2>2. request' = [request EXCEPT ![r] = q] /\ UNCHANGED <<at, store, binding, ran>>
    BY <1>1 DEF Asks, Goes
  <2> HIDE DEF q
  <2>3. QED
    BY <2>1, <2>2, OneGoesOn
<1>2. CASE AsksCatalog(r)
  <2>1. UNCHANGED <<at, store, binding, ran>>
    BY <1>2 DEF AsksCatalog
  <2>2. ASSUME NEW c \in ResolveSession,
               Goes(r, [step |-> "canonical", path |-> summary[c].cwd])
        PROVE  DirectoryInv'
    <3> DEFINE q == Holding([step |-> "canonical", path |-> summary[c].cwd])
    <3>1. summary[c].cwd \in Paths
      BY DEF ResolveSession, Present, Placed
    <3>2. q \in Held /\ Follows(q)
      BY <3>1, HoldingFields DEF Follows, Steps
    <3>3. request' = [request EXCEPT ![r] = q]
      BY <2>2 DEF Goes
    <3> HIDE DEF q
    <3>4. QED
      BY <2>1, <3>2, <3>3, OneGoesOn
  <2>3. QED
    BY <1>2, <2>1, <2>2, OneEnds DEF AsksCatalog
<1>3. CASE Canonical(r)
  <2>1. UNCHANGED <<at, store, binding, ran>>
    BY <1>3 DEF Canonical
  <2>2. CASE Reached(request[r].path) \in Directories
    <3> DEFINE q == Holding([step |-> "pin", path |-> Target(request[r].path)])
    <3>1. request[r].path \in Paths
      BY <1>3 DEF Canonical, Following, Follows
    <3>2. Target(request[r].path) \in Paths
      BY <3>1, Pinned
    <3>3. q \in Held /\ Follows(q)
      BY <3>2, HoldingFields DEF Follows, Steps
    <3>4. request' = [request EXCEPT ![r] = q]
      BY <1>3, <2>2 DEF Canonical, Goes
    <3> HIDE DEF q
    <3>5. QED
      BY <2>1, <3>3, <3>4, OneGoesOn
  <2>3. CASE Reached(request[r].path) \notin Directories
    BY <1>3, <2>1, <2>3, OneEnds DEF Canonical
  <2>4. QED
    BY <2>2, <2>3
<1>4. CASE Pins(r)
  <2>1. UNCHANGED <<at, store, binding, ran>>
    BY <1>4 DEF Pins
  <2>2. CASE PinRoot(request[r].path) # None
    <3> DEFINE root == PinRoot(request[r].path)
               q == Holding([step |-> "bind", root |-> root])
    <3>1. request[r].path \in Paths
      BY <1>4 DEF Pins, Following, Follows
    <3>2. root \in Identity \union {None} /\ root # None
      BY <2>2, <3>1, Pinned
    <3>3. request' = [request EXCEPT ![r] = q]
      BY <1>4, <2>2 DEF Pins, Goes
    <3> HIDE DEF root
    <3>4. q \in Held /\ Follows(q)
      BY <3>2, HoldingFields DEF Follows, Steps
    <3> HIDE DEF q
    <3>5. QED
      BY <2>1, <3>3, <3>4, OneGoesOn
  <2>3. CASE PinRoot(request[r].path) = None
    BY <1>4, <2>1, <2>3, OneEnds DEF Pins
  <2>4. QED
    BY <2>2, <2>3
<1>5. CASE Binds(r)
  <2> DEFINE new == Bound(binding, request[r].root)
             q == Holding([step |-> "resolved", root |-> new])
  <2>1. /\ binding' = new /\ request' = [request EXCEPT ![r] = q]
        /\ UNCHANGED <<at, store, ran>>
    BY <1>5 DEF Binds, Goes
  <2>2. request[r].root \in Identity \union {None} /\ request[r].root # None
    BY <1>5 DEF Binds, TypeOK, Following, Follows, Held
  <2>3. new \in Identity \union {None} /\ new # None /\ (binding # None => new = binding)
    BY <2>2 DEF Bound, TypeOK
  <2> HIDE DEF new
  <2>4. q \in Held /\ q.step = "resolved" /\ q.root = new
    BY <2>3, HoldingFields DEF Steps
  <2> HIDE DEF q
  <2>5. TypeOK' /\ Placed'
    BY <2>1, <2>3, <2>4 DEF TypeOK, Placed, store
  <2>6. RanPinned'
    BY <2>1, <2>3 DEF RanPinned
  <2>7. Following'
    <3> SUFFICES ASSUME NEW s \in Requests PROVE Follows(request[s])'
      BY DEF Following
    <3>1. CASE s = r
      BY <2>1, <2>3, <2>4, <3>1 DEF TypeOK, Follows
    <3>2. CASE s # r
      BY <2>1, <2>3, <3>2 DEF TypeOK, Following, Follows, SameFile
    <3>3. QED
      BY <3>1, <3>2
  <2>8. QED
    BY <2>5, <2>6, <2>7
<1>6. QED
  BY <1>1, <1>2, <1>3, <1>4, <1>5

(* An answer of the agent may bind the session.                             *)
LEMMA CaptureStep ==
    ASSUME DirectoryInv, NEW p \in Paths, Captures(p)
    PROVE  DirectoryInv'
<1> USE DEF DirectoryInv
<1>1. /\ binding' = IF binding = None THEN PinRoot(p) ELSE binding
      /\ PinRoot(p) \in Identity \union {None} /\ PinRoot(p) # None
      /\ UNCHANGED <<at, home, summary, renamed, writes, request, ran>>
  BY Pinned DEF Captures, Captured, store
<1>2. binding' \in Identity \union {None} /\ (binding # None => binding' = binding)
  BY <1>1 DEF TypeOK
<1>3. TypeOK' /\ Placed' /\ RanPinned'
  BY <1>1, <1>2 DEF TypeOK, Placed, RanPinned
<1>4. Following'
  BY <1>1, <1>2 DEF Following, Follows, SameFile
<1>5. QED
  BY <1>3, <1>4

(* A file operation opens the workspace and works in it.                    *)
LEMMA WorkspaceStep ==
    ASSUME DirectoryInv, NEW r \in Requests, Validates(r) \/ Opens(r) \/ Operates(r)
    PROVE  DirectoryInv'
<1> USE DEF DirectoryInv
<1>1. CASE Validates(r)
  <2>1. UNCHANGED <<at, store, binding, ran>>
    BY <1>1 DEF Validates
  <2>2. CASE Validate(request[r].root)
    <3> DEFINE next == AfterValidate[request[r].step]
               q == [request[r] EXCEPT !.step = next]
    <3>1. request' = [request EXCEPT ![r] = q]
      BY <1>1, <2>2 DEF Validates, TypeOK
    <3>2. /\ request[r] \in Held
          /\ \/ request[r].step = "resolved" /\ next = "enter"
             \/ request[r].step = "enter" /\ next = "open"
             \/ request[r].step = "opened" /\ next = "ready"
             \/ request[r].step = "ready" /\ next = "operate"
      BY <1>1 DEF Validates, AfterValidate, TypeOK
    <3> HIDE DEF next
    <3>3. q \in Held /\ q.step = next /\ q.root = request[r].root /\ q.dir = request[r].dir
      BY <3>2 DEF Held, Steps
    <3> HIDE DEF q
    <3>4. Follows(q)
      BY <3>2, <3>3 DEF Following, Follows
    <3>5. QED
      BY <2>1, <3>1, <3>3, <3>4, OneGoesOn
  <2>3. CASE ~Validate(request[r].root)
    BY <1>1, <2>1, <2>3, OneEnds DEF Validates
  <2>4. QED
    BY <2>2, <2>3
<1>2. CASE Opens(r)
  <2> DEFINE root == request[r].root
             dir == Reached(root.path)
  <2>1. UNCHANGED <<at, store, binding, ran>>
    BY <1>2 DEF Opens
  <2>2. CASE SameFile(root, dir)
    <3> DEFINE q == Holding([step |-> "opened", root |-> root, dir |-> dir])
    <3>1. /\ dir \in Directories /\ root \in Identity \union {None}
          /\ root = binding /\ binding # None
      BY <1>2, <2>2 DEF Opens, TypeOK, Held, Following, Follows, SameFile
    <3>2. request' = [request EXCEPT ![r] = q]
      BY <1>2, <2>2 DEF Opens, Goes
    <3> HIDE DEF root, dir
    <3>3. q \in Held /\ q.step = "opened" /\ q.root = root /\ q.dir = dir
      BY <3>1, HoldingFields DEF Steps
    <3> HIDE DEF q
    <3>4. Follows(q)
      BY <2>2, <3>1, <3>3 DEF Follows
    <3>5. QED
      BY <2>1, <3>2, <3>3, <3>4, OneGoesOn
  <2>3. CASE ~SameFile(root, dir)
    BY <1>2, <2>1, <2>3, OneEnds DEF Opens
  <2>4. QED
    BY <2>2, <2>3
<1>3. CASE Operates(r)
  <2>1. /\ ran' \in SUBSET Directories
        /\ ran' \subseteq ran \union {request[r].dir}
    BY <1>3 DEF Operates, SameFile, TypeOK
  <2>2. binding # None /\ InodeOf[request[r].dir] = binding.inode
    BY <1>3 DEF Operates, Following, Follows, SameFile
  <2>3. /\ request' = [request EXCEPT ![r] = Idle]
        /\ UNCHANGED <<at, home, summary, renamed, writes, binding>>
    BY <1>3 DEF Operates, Ends, store
  <2>4. TypeOK' /\ Placed'
    BY <2>1, <2>3, IdleFollows DEF TypeOK, Placed
  <2>5. RanPinned'
    BY <2>1, <2>2, <2>3 DEF RanPinned
  <2>6. Following'
    <3> SUFFICES ASSUME NEW s \in Requests PROVE Follows(request[s])'
      BY DEF Following
    <3>1. request'[s] = Idle \/ request'[s] = request[s]
      BY <2>3 DEF TypeOK
    <3>2. Follows(request'[s])
      BY <3>1, IdleFollows DEF Following
    <3>3. QED
      BY <2>3, <3>2 DEF Follows, SameFile
  <2>7. QED
    BY <2>4, <2>5, <2>6
<1>4. QED
  BY <1>1, <1>2, <1>3

(* A rename finds, reads and replaces a summary.                            *)
LEMMA RenameStep ==
    ASSUME DirectoryInv, NEW r \in Requests,
           \/ AsksRename(r) \/ FindsCopy(r) \/ ReadsSummary(r)
           \/ Replaces(r) \/ RenameFails(r)
    PROVE  DirectoryInv'
<1> USE DEF DirectoryInv
<1>1. CASE AsksRename(r)
  <2> DEFINE q == Holding([step |-> "find", title |-> writes + 1])
  <2>1. q \in Held /\ q.step = "find" /\ writes + 1 \in Nat
    BY HoldingFields DEF Steps, TypeOK
  <2>2. /\ request' = [request EXCEPT ![r] = q] /\ writes' = writes + 1
        /\ UNCHANGED <<at, home, summary, binding, ran, renamed>>
    BY <1>1 DEF AsksRename, Goes
  <2> HIDE DEF q
  <2>3. TypeOK' /\ Placed' /\ RanPinned'
    BY <2>1, <2>2 DEF TypeOK, Placed, RanPinned
  <2>4. Following'
    <3> SUFFICES ASSUME NEW s \in Requests PROVE Follows(request[s])'
      BY DEF Following
    <3>1. request'[s] = q \/ request'[s] = request[s]
      BY <2>2 DEF TypeOK
    <3>2. QED
      BY <2>1, <2>2, <3>1 DEF Following, Follows, SameFile
  <2>5. QED
    BY <2>3, <2>4
<1>2. CASE FindsCopy(r)
  <2>1. UNCHANGED <<at, store, binding, ran>>
    BY <1>2 DEF FindsCopy
  <2>2. ASSUME NEW copy \in ResolveSession,
               Goes(r, [step |-> "lock", title |-> request[r].title,
                        copy |-> copy, from |-> home[copy]])
        PROVE  DirectoryInv'
    <3> DEFINE q == Holding([step |-> "lock", title |-> request[r].title,
                             copy |-> copy, from |-> home[copy]])
    <3>1. /\ copy \in Copies /\ home[copy] \in Homes /\ home[copy] # "gone"
          /\ request[r].title \in Nat
      BY DEF ResolveSession, Present, TypeOK, Held
    <3>2. q \in Held /\ Follows(q)
      BY <3>1, HoldingFields DEF Follows, Steps
    <3>3. request' = [request EXCEPT ![r] = q]
      BY <2>2 DEF Goes
    <3> HIDE DEF q
    <3>4. QED
      BY <2>1, <3>2, <3>3, OneGoesOn
  <2>3. QED
    BY <1>2, <2>1, <2>2, OneEnds DEF FindsCopy
<1>3. CASE ReadsSummary(r)
  <2> DEFINE read == summary[request[r].copy]
             q == [request[r] EXCEPT !.step = "replace", !.read = read]
  <2>1. UNCHANGED <<at, store, binding, ran>>
    BY <1>3 DEF ReadsSummary
  <2>2. CASE home[request[r].copy] = request[r].from
    <3>1. /\ request[r] \in Held /\ request[r].copy \in Copies
          /\ read \in Summaries /\ read.cwd \in Paths
      BY <1>3, <2>2 DEF ReadsSummary, TypeOK, Held, Following, Follows, Placed
    <3>2. request' = [request EXCEPT ![r] = q]
      BY <1>3, <2>2 DEF ReadsSummary, TypeOK
    <3> HIDE DEF read
    <3>3. /\ q \in Held /\ q.step = "replace" /\ q.copy = request[r].copy
          /\ q.read = read
      BY <3>1 DEF Held, Steps
    <3> HIDE DEF q
    <3>4. Follows(q)
      BY <3>1, <3>3 DEF Follows
    <3>5. QED
      BY <2>1, <3>2, <3>3, <3>4, OneGoesOn
  <2>3. CASE home[request[r].copy] # request[r].from
    BY <1>3, <2>1, <2>3, OneEnds DEF ReadsSummary
  <2>4. QED
    BY <2>2, <2>3
<1>4. CASE Replaces(r)
  <2> DEFINE q == request[r]
             new == [q.read EXCEPT !.title = q.title]
             reply == [copy |-> q.copy, title |-> q.title, previous |-> q.read.title]
  <2>1. /\ q.copy \in Copies /\ q.read \in Summaries /\ q.read.cwd \in Paths
        /\ q.title \in Nat
    BY <1>4 DEF Replaces, TypeOK, Held, Following, Follows
  <2>2. new \in Summaries /\ new.cwd = q.read.cwd
    BY <2>1 DEF Summaries
  <2>3. reply \in [copy: Copies, title: Nat, previous: Nat]
    BY <2>1 DEF Summaries
  <2>4. /\ summary' = [summary EXCEPT ![q.copy] = new] /\ renamed' = renamed \union {reply}
        /\ Ends(r) /\ UNCHANGED <<at, home, binding, ran, writes>>
    BY <1>4 DEF Replaces
  <2> HIDE DEF new, reply
  <2>5. TypeOK'
    BY <2>1, <2>2, <2>3, <2>4, IdleFollows DEF TypeOK, Ends
  <2>6. Placed' /\ RanPinned'
    BY <2>1, <2>2, <2>4 DEF TypeOK, Placed, RanPinned
  <2>7. Following'
    <3> SUFFICES ASSUME NEW s \in Requests PROVE Follows(request[s])'
      BY DEF Following
    <3>1. request'[s] = Idle \/ request'[s] = request[s]
      BY <2>4 DEF TypeOK, Ends
    <3>2. Follows(request'[s])
      BY <3>1, IdleFollows DEF Following
    <3>3. QED
      BY <2>4, <3>2 DEF Follows, SameFile
  <2>8. QED
    BY <2>5, <2>6, <2>7
<1>5. CASE RenameFails(r)
  BY <1>5, OneEnds DEF RenameFails
<1>6. QED
  BY <1>1, <1>2, <1>3, <1>4, <1>5

(* The daemon ends and the next one starts.                                 *)
LEMMA RestartStep == DirectoryInv /\ Restart => DirectoryInv'
<1> SUFFICES ASSUME DirectoryInv, Restart PROVE DirectoryInv'
  OBVIOUS
<1> USE DEF DirectoryInv
<1>1. TypeOK' /\ Placed'
  BY IdleFollows DEF TypeOK, Placed, Restart, store
<1>2. RanPinned'
  BY DEF RanPinned, Restart
<1>3. Following'
  BY HoldingFields DEF Following, Follows, Restart, Steps
<1>4. QED
  BY <1>1, <1>2, <1>3

LEMMA DirectoryInit == Init => DirectoryInv
<1> SUFFICES ASSUME Init PROVE DirectoryInv
  OBVIOUS
<1>1. [cwd |-> None, title |-> 0, stamp |-> 0] \in Summaries
  BY DEF Summaries
<1>2. TypeOK
  BY <1>1, IdleFollows DEF TypeOK, Init, Homes
<1>3. Placed /\ RanPinned
  BY DEF Init, Placed, RanPinned
<1>4. Following
  BY HoldingFields DEF Init, Following, Follows, Steps
<1>5. QED
  BY <1>2, <1>3, <1>4 DEF DirectoryInv

LEMMA DirectoryStep == DirectoryInv /\ [Next]_vars => DirectoryInv'
<1> SUFFICES ASSUME DirectoryInv, [Next]_vars PROVE DirectoryInv'
  OBVIOUS
<1>1. CASE UNCHANGED vars
  <2>1. TypeOK' /\ Placed' /\ RanPinned'
    BY <1>1 DEF DirectoryInv, TypeOK, Placed, RanPinned, vars
  <2>2. Following'
    BY <1>1, NoneGoesOn DEF DirectoryInv, vars
  <2>3. QED
    BY <2>1, <2>2 DEF DirectoryInv
<1>2. QED
  BY <1>1, OutsideStep, ResolveStep, CaptureStep, WorkspaceStep, RenameStep, RestartStep
  DEF Next

(* The types of the model, and that a request which has resolved the        *)
(* session has the hub's binding (hub/sessions.go:73-139).                  *)
THEOREM SessionsTypeCorrect == Spec => []DirectoryInv
<1>1. Init => DirectoryInv
  BY DirectoryInit
<1>2. DirectoryInv /\ [Next]_vars => DirectoryInv'
  BY DirectoryStep
<1>3. QED
  BY <1>1, <1>2, PTL DEF Spec

(* Where no two directories have one number, all file operations of a       *)
(* session happen in one directory while the daemon runs (fsapi/root.go).   *)
THEOREM SessionKeepsDirectory ==
    ASSUME \A d, e \in Directories: InodeOf[d] = InodeOf[e] => d = e
    PROVE  Spec => []OneDirectory
<1>1. ASSUME DirectoryInv PROVE OneDirectory
  <2>1. \A d, e \in ran: d = e
    BY <1>1 DEF DirectoryInv, TypeOK, RanPinned
  <2>2. CASE ran = {}
    BY <2>2, FS_EmptySet DEF OneDirectory
  <2>3. CASE ran # {}
    <3>1. PICK d \in ran: ran = {d}
      BY <2>1, <2>3
    <3>2. Cardinality({d}) = 1
      BY FS_Singleton
    <3>3. QED
      BY <3>1, <3>2 DEF OneDirectory
  <2>4. QED
    BY <2>2, <2>3
<1>2. QED
  BY <1>1, SessionsTypeCorrect, PTL

-----------------------------------------------------------------------------
(* A rename that is under way has a title nobody has seen; what it has read *)
(* is still the latest title that a rename may replace.                     *)

Renaming(q) == q.step \in {"find", "lock", "replace"}

TitlesKnown ==
    /\ \A c \in Copies: summary[c].title <= writes
    /\ \A x \in renamed: x.previous <= writes /\ x.previous # summary[x.copy].title

TitlesNew ==
    \A r \in Requests: Renaming(request[r]) =>
        /\ request[r].title <= writes
        /\ \A c \in Copies: summary[c].title # request[r].title
        /\ \A x \in renamed: x.previous # request[r].title
        /\ \A s \in Requests:
               /\ Renaming(request[s]) /\ s # r => request[s].title # request[r].title
               /\ request[s].step = "replace" => request[s].read.title # request[r].title

ReadsLatest ==
    \A r \in Requests: request[r].step = "replace" =>
        /\ request[r].read.title <= writes
        /\ \A x \in renamed: x.copy = request[r].copy => x.previous # request[r].read.title
        /\ \A s \in Requests: request[s].step = "replace" => s = r

TitleInv == DirectoryInv /\ TitlesKnown /\ TitlesNew /\ ReadsLatest /\ RenamesChain

(* Steps that change no title: a request that renames goes on with its own, *)
(* or stops.                                                                *)
LEMMA TitlesStay ==
    ASSUME TitleInv, DirectoryInv', UNCHANGED <<summary, renamed>>, writes' >= writes,
           \A r \in Requests:
               \/ ~Renaming(request'[r])
               \/ request'[r] = request[r]
               \/ /\ Renaming(request[r]) /\ request'[r].title = request[r].title
                  /\ request'[r].step # "replace"
    PROVE  TitleInv'
<1> USE DEF TitleInv, DirectoryInv
<1>1. TitlesKnown'
  BY DEF TitlesKnown, TypeOK, Summaries
<1>2. \A r \in Requests: request'[r].step = "replace" => request'[r] = request[r]
  BY DEF Renaming
<1>3. ReadsLatest'
  BY <1>2 DEF ReadsLatest, TypeOK, Held, Summaries, Following, Follows
<1>4. \A r \in Requests: Renaming(request'[r]) =>
          Renaming(request[r]) /\ request'[r].title = request[r].title
  OBVIOUS
<1>5. \A r \in Requests: Renaming(request'[r]) => request'[r].title <= writes'
  BY <1>4 DEF TitlesNew, TypeOK, Held
<1>6. TitlesNew'
  BY <1>2, <1>4, <1>5 DEF TitlesNew
<1>7. RenamesChain'
  BY DEF RenamesChain
<1>8. QED
  BY <1>1, <1>3, <1>6, <1>7

(* The agent gives a copy of the session a title of its own.                *)
LEMMA AgentTitles ==
    ASSUME TitleInv, DirectoryInv', NEW c \in Copies,
           AgentWrites(c) \/ \E p \in Paths: AgentCreates(c, p)
    PROVE  TitleInv'
<1> USE DEF TitleInv, DirectoryInv
<1>1. /\ writes' = writes + 1 /\ writes \in Nat
      /\ UNCHANGED <<request, renamed>>
  BY DEF AgentWrites, AgentCreates, daemon, TypeOK
<1>2. \A d \in Copies: /\ summary[d].title \in Nat
                       /\ \/ summary'[d] = summary[d]
                          \/ summary'[d].title = writes + 1
  BY DEF AgentWrites, AgentCreates, TypeOK, Summaries
<1>3. TitlesKnown'
  BY <1>1, <1>2 DEF TitlesKnown, TypeOK
<1>4. TitlesNew'
  BY <1>1, <1>2 DEF TitlesNew, TypeOK, Held
<1>5. ReadsLatest' /\ RenamesChain'
  BY <1>1 DEF ReadsLatest, RenamesChain, TypeOK, Held, Summaries, Following, Follows
<1>6. QED
  BY <1>3, <1>4, <1>5

(* A client asks for a title that nobody has used.                          *)
LEMMA TitleAsked ==
    ASSUME TitleInv, DirectoryInv', NEW r \in Requests, AsksRename(r)
    PROVE  TitleInv'
<1> USE DEF TitleInv, DirectoryInv
<1>1. /\ writes' = writes + 1 /\ writes \in Nat /\ UNCHANGED <<summary, renamed>>
      /\ request'[r].step = "find" /\ request'[r].title = writes + 1
      /\ \A s \in Requests \ {r}: request'[s] = request[s]
  <2> DEFINE q == Holding([step |-> "find", title |-> writes + 1])
  <2>1. writes \in Nat /\ writes + 1 \in Nat
    BY DEF TypeOK
  <2>2. q.step = "find" /\ q.title = writes + 1
    BY <2>1, HoldingFields DEF Steps
  <2>3. /\ writes' = writes + 1 /\ UNCHANGED <<summary, renamed>>
        /\ request' = [request EXCEPT ![r] = q]
    BY DEF AsksRename, Goes
  <2> HIDE DEF q
  <2>4. QED
    BY <2>1, <2>2, <2>3 DEF TypeOK
<1>2. \A c \in Copies: summary[c].title \in Nat
  BY DEF TypeOK, Summaries
<1>3. \A s \in Requests: request[s].step = "replace" =>
          request[s].read.title \in Nat /\ request'[s] = request[s]
  <2>1. request[r].step = "idle"
    BY DEF AsksRename
  <2>2. \A s \in Requests: request[s].step = "replace" => request[s].read \in Summaries
    BY DEF Following, Follows
  <2>3. QED
    BY <1>1, <2>1, <2>2 DEF Summaries
<1>4. TitlesKnown' /\ RenamesChain'
  BY <1>1, <1>2 DEF TitlesKnown, RenamesChain, TypeOK
<1>5. ReadsLatest'
  BY <1>1, <1>3 DEF ReadsLatest
<1>6. TitlesNew'
  <2> SUFFICES ASSUME NEW s \in Requests, Renaming(request'[s])
               PROVE  /\ request'[s].title <= writes'
                      /\ \A c \in Copies: summary'[c].title # request'[s].title
                      /\ \A x \in renamed': x.previous # request'[s].title
                      /\ \A o \in Requests:
                             /\ Renaming(request'[o]) /\ o # s =>
                                    request'[o].title # request'[s].title
                             /\ request'[o].step = "replace" =>
                                    request'[o].read.title # request'[s].title
    BY DEF TitlesNew
  <2>1. \A o \in Requests: Renaming(request[o]) =>
            request[o].title \in Nat /\ request[o].title <= writes
    BY DEF TitlesNew, TypeOK, Held
  <2>2. CASE s = r
    BY <1>1, <1>2, <1>3, <2>1, <2>2 DEF TitlesKnown, ReadsLatest, TypeOK
  <2>3. CASE s # r
    <3>1. request'[s] = request[s] /\ Renaming(request[s])
      BY <1>1, <2>3
    <3>2. request[s].title # writes + 1
      BY <1>1, <2>1, <3>1
    <3>3. \A o \in Requests: request'[o].step = "replace" => request[o].step = "replace"
      BY <1>1
    <3>4. QED
      BY <1>1, <1>3, <2>1, <3>1, <3>2, <3>3 DEF TitlesNew
  <2>4. QED
    BY <2>2, <2>3
<1>7. QED
  BY <1>4, <1>5, <1>6

(* A rename reads the summary, alone.                                       *)
LEMMA TitleRead ==
    ASSUME TitleInv, DirectoryInv', NEW r \in Requests, ReadsSummary(r)
    PROVE  TitleInv'
<1> USE DEF TitleInv, DirectoryInv
<1>1. CASE home[request[r].copy] # request[r].from
  <2>1. \A s \in Requests: ~Renaming(request'[s]) \/ request'[s] = request[s]
    BY <1>1, HoldingFields DEF ReadsSummary, Ends, Renaming, TypeOK, Steps
  <2>2. UNCHANGED <<summary, renamed, writes>>
    BY DEF ReadsSummary, store
  <2>3. QED
    BY <2>1, <2>2, TitlesStay DEF TypeOK
<1>2. CASE home[request[r].copy] = request[r].from
  <2> DEFINE q == [request[r] EXCEPT !.step = "replace",
     !.read = summary[request[r].copy]]
  <2>1. request' = [request EXCEPT ![r] = q]
    BY <1>2 DEF ReadsSummary, TypeOK
  <2>2. /\ q.step = "replace" /\ q.read = summary[request[r].copy]
        /\ q.copy = request[r].copy /\ q.title = request[r].title
    BY DEF TypeOK, Held
  <2> HIDE DEF q
  <2>3. /\ request[r].step = "lock" /\ request[r].copy \in Copies
        /\ UNCHANGED <<summary, renamed, writes>>
        /\ \A s \in Requests: request[s].step # "replace"
    BY DEF ReadsSummary, RenameIsFree, Following, Follows, store
  <2>4. /\ request'[r] = q
        /\ \A s \in Requests \ {r}: request'[s] = request[s] /\ request'[s].step # "replace"
    BY <2>1, <2>3 DEF TypeOK
  <2>5. TitlesKnown' /\ RenamesChain'
    BY <2>3 DEF TitlesKnown, RenamesChain
  <2>6. ReadsLatest'
    BY <2>2, <2>3, <2>4 DEF ReadsLatest, TitlesKnown
  <2>7. \A s \in Requests: Renaming(request'[s]) =>
            Renaming(request[s]) /\ request'[s].title = request[s].title
    BY <2>2, <2>3, <2>4 DEF Renaming
  <2>8. \A s \in Requests: request'[s].step = "replace" =>
            s = r /\ request'[s].read.title = summary[request[r].copy].title
    BY <2>2, <2>4
  <2>9. TitlesNew'
    BY <2>3, <2>7, <2>8 DEF TitlesNew
  <2>10. QED
    BY <2>5, <2>6, <2>9
<1>3. QED
  BY <1>1, <1>2

(* A rename replaces the title it has read.                                 *)
LEMMA TitleReplaced ==
    ASSUME TitleInv, DirectoryInv', NEW r \in Requests, Replaces(r)
    PROVE  TitleInv'
<1> USE DEF TitleInv, DirectoryInv
<1> DEFINE q == request[r]
           reply == [copy |-> q.copy, title |-> q.title, previous |-> q.read.title]
<1>1. /\ q.step = "replace" /\ q.copy \in Copies /\ q.read \in Summaries
      /\ q.title \in Nat /\ q.read.title \in Nat
  BY DEF Replaces, TypeOK, Held, Following, Follows, Summaries
<1>2. /\ renamed' = renamed \union {reply} /\ writes' = writes /\ writes \in Nat
      /\ summary'[q.copy].title = q.title
      /\ \A c \in Copies \ {q.copy}: summary'[c] = summary[c]
  BY <1>1 DEF Replaces, TypeOK, Summaries
<1>3. /\ request'[r].step = "idle"
      /\ \A s \in Requests \ {r}: request'[s] = request[s]
  BY HoldingFields DEF Replaces, Ends, TypeOK, Steps
<1>4. \A s \in Requests \ {r}: request[s].step # "replace"
  BY <1>1 DEF ReadsLatest
<1>5. Renaming(q)
  BY <1>1 DEF Renaming
<1>6. /\ q.title <= writes /\ q.read.title <= writes /\ q.read.title # q.title
      /\ \A x \in renamed: x.previous # q.title
  BY <1>1, <1>5 DEF TitlesNew, ReadsLatest
<1>7. TitlesKnown'
  <2>1. \A c \in Copies: summary'[c].title <= writes'
    BY <1>2, <1>6 DEF TitlesKnown
  <2>2. \A x \in renamed': x.previous <= writes' /\ x.previous # summary'[x.copy].title
    BY <1>1, <1>2, <1>6 DEF TitlesKnown, TypeOK
  <2>3. QED
    BY <2>1, <2>2 DEF TitlesKnown
<1>8. ReadsLatest'
  BY <1>3, <1>4 DEF ReadsLatest
<1>9. TitlesNew'
  <2> SUFFICES ASSUME NEW s \in Requests \ {r}, Renaming(request[s])
               PROVE  /\ request[s].title <= writes
                      /\ \A c \in Copies: summary'[c].title # request[s].title
                      /\ \A x \in renamed': x.previous # request[s].title
                      /\ \A o \in Requests \ {r}: Renaming(request[o]) /\ o # s =>
                             request[o].title # request[s].title
    <3>1. \A o \in Requests: request'[o].step # "replace"
      BY <1>3, <1>4
    <3>2. \A o \in Requests: Renaming(request'[o]) => o # r /\ request'[o] = request[o]
      BY <1>3 DEF Renaming
    <3>3. QED
      BY <1>2, <1>3, <3>1, <3>2 DEF TitlesNew
  <2>1. request[s].title # q.title /\ request[s].title # q.read.title
    BY <1>1, <1>5 DEF TitlesNew
  <2>2. QED
    BY <1>2, <2>1 DEF TitlesNew
<1>10. RenamesChain'
  <2>1. \A x \in renamed: x.copy = reply.copy => x.previous # reply.previous
    BY <1>1 DEF ReadsLatest
  <2> HIDE DEF reply
  <2>2. QED
    BY <1>2, <2>1 DEF RenamesChain
<1>11. QED
  BY <1>7, <1>8, <1>9, <1>10

LEMMA TitleStep == TitleInv /\ [Next]_vars => TitleInv'
<1> SUFFICES ASSUME TitleInv, [Next]_vars PROVE TitleInv'
  OBVIOUS
<1>1. DirectoryInv'
  BY DirectoryStep DEF TitleInv
<1>2. TypeOK /\ writes \in Nat
  BY DEF TitleInv, DirectoryInv, TypeOK
<1>3. CASE UNCHANGED <<summary, renamed, writes, request>>
  BY <1>1, <1>2, <1>3, TitlesStay
<1>4. CASE \/ UNCHANGED vars
           \/ \E p \in Paths, entry \in Directories \union Paths \union {None}: Swap(p, entry)
           \/ \E p \in Paths: Captures(p)
  BY <1>3, <1>4 DEF vars, Swap, Captures, daemon, store
<1>5. ASSUME NEW c \in Copies, AgentMoves(c) PROVE TitleInv'
  BY <1>1, <1>2, <1>5, TitlesStay DEF AgentMoves, daemon
<1>6. ASSUME NEW r \in Requests,
             \/ Asks(r) \/ AsksCatalog(r) \/ Canonical(r) \/ Pins(r) \/ Binds(r)
             \/ Validates(r) \/ Opens(r) \/ Operates(r) \/ RenameFails(r)
      PROVE  TitleInv'
  <2>1. UNCHANGED <<summary, renamed, writes>>
    BY <1>6 DEF Asks, AsksCatalog, Canonical, Pins, Binds, Validates, Opens, Operates,
       RenameFails, store
  <2>2. \A s \in Requests \ {r}: request'[s] = request[s]
    BY <1>2, <1>6 DEF TypeOK, Goes, Ends, Asks, AsksCatalog, Canonical, Pins, Binds,
       Validates, Opens, Operates, RenameFails
  <2>3. ~Renaming(request'[r])
    <3>1. Idle.step = "idle"
      BY HoldingFields DEF Steps
    <3>2. CASE RenameFails(r) \/ Operates(r)
      BY <1>2, <3>1, <3>2 DEF TypeOK, RenameFails, Operates, Ends, Renaming
    <3>3. CASE Asks(r) \/ AsksCatalog(r) \/ Canonical(r) \/ Pins(r) \/ Binds(r) \/ Opens(r)
      <4>1. CASE Asks(r)
        BY <1>2, <4>1 DEF TypeOK, Asks, Goes, Holding, Idle, Renaming
      <4>2. CASE AsksCatalog(r)
        BY <1>2, <3>1, <4>2 DEF TypeOK, AsksCatalog, Goes, Ends, Holding, Idle, Renaming
      <4>3. CASE Pins(r)
        BY <1>2, <3>1, <4>3 DEF TypeOK, Pins, Goes, Ends, Holding, Idle, Renaming
      <4>4. CASE Binds(r)
        BY <1>2, <4>4 DEF TypeOK, Binds, Goes, Holding, Idle, Renaming
      <4>5. CASE Opens(r)
        BY <1>2, <3>1, <4>5 DEF TypeOK, Opens, Goes, Ends, Holding, Idle, Renaming
      <4>6. CASE Canonical(r)
        BY <1>2, <3>1, <4>6 DEF TypeOK, Canonical, Goes, Ends, Holding, Idle, Renaming
      <4>7. QED
        BY <3>3, <4>1, <4>2, <4>3, <4>4, <4>5, <4>6
    <3>4. CASE Validates(r)
      BY <1>2, <3>1, <3>4 DEF TypeOK, Held, Validates, AfterValidate, Ends, Renaming
    <3>5. QED
      BY <1>6, <3>2, <3>3, <3>4
  <2>4. QED
    BY <1>1, <1>2, <2>1, <2>2, <2>3, TitlesStay
<1>7. ASSUME NEW r \in Requests, FindsCopy(r) PROVE TitleInv'
  <2>1. UNCHANGED <<summary, renamed, writes>>
    BY <1>7 DEF FindsCopy, store
  <2>2. \A s \in Requests \ {r}: request'[s] = request[s]
    BY <1>2, <1>7 DEF TypeOK, FindsCopy, Goes, Ends
  <2>3. \/ ~Renaming(request'[r])
        \/ /\ Renaming(request[r]) /\ request'[r].title = request[r].title
           /\ request'[r].step # "replace"
    <3>1. CASE Ends(r)
      BY <1>2, <3>1, HoldingFields DEF TypeOK, Ends, Renaming, Steps
    <3>2. ASSUME NEW copy \in ResolveSession,
                 Goes(r, [step |-> "lock", title |-> request[r].title,
                          copy |-> copy, from |-> home[copy]])
          PROVE  Renaming(request[r]) /\ request'[r].title = request[r].title
                 /\ request'[r].step # "replace"
      BY <1>2, <1>7, <3>2 DEF TypeOK, FindsCopy, Goes, Holding, Idle, Renaming
    <3>3. QED
      BY <1>7, <3>1, <3>2 DEF FindsCopy
  <2>4. QED
    BY <1>1, <1>2, <2>1, <2>2, <2>3, TitlesStay
<1>8. CASE Restart
  <2>1. \A r \in Requests: ~Renaming(request'[r])
    BY <1>8, HoldingFields DEF Restart, Renaming, Steps
  <2>2. QED
    BY <1>1, <1>2, <1>8, <2>1, TitlesStay DEF Restart, store
<1>9. QED
  BY <1>1, <1>4, <1>5, <1>6, <1>7, <1>8, AgentTitles, TitleAsked, TitleRead, TitleReplaced
  DEF Next

(* The title a rename reports as the previous one is the one it replaced    *)
(* (provider/grok/sessioncatalog.go:120-169).                               *)
THEOREM SessionRenamesChain == Spec => []RenamesChain
<1>1. Init => TitleInv
  <2> SUFFICES ASSUME Init PROVE TitleInv
    OBVIOUS
  <2>1. \A r \in Requests: ~Renaming(request[r]) /\ request[r].step # "replace"
    BY HoldingFields DEF Init, Renaming, Steps
  <2>2. QED
    BY <2>1, DirectoryInit
    DEF Init, TitleInv, TitlesKnown, TitlesNew, ReadsLatest, RenamesChain
<1>2. TitleInv /\ [Next]_vars => TitleInv'
  BY TitleStep
<1>3. TitleInv => RenamesChain
  BY DEF TitleInv
<1>4. QED
  BY <1>1, <1>2, <1>3, PTL DEF Spec

-----------------------------------------------------------------------------
(* Induction over the natural numbers, for a set of them.                   *)
LEMMA Induct ==
    ASSUME NEW G \in SUBSET Nat, 0 \in G, \A n \in G: n + 1 \in G
    PROVE G = Nat
<1> DEFINE R == OpToRel(<, Nat)
           T == Nat \ G
<1>1. IsWellFoundedOn(R, Nat)
  BY NatLessThanWellFounded, Zenon
<1>2. SUFFICES ASSUME T # {} PROVE FALSE
  OBVIOUS
<1>3. \E x \in T: \A y \in T: <<y, x>> \notin R
  <2> HIDE DEF R
  <2>1. QED
    BY <1>1, <1>2, WFMin
<1>4. PICK x \in T: \A y \in T: <<y, x>> \notin R
  BY <1>3
<1>5. x - 1 \in Nat /\ x - 1 < x /\ x = x - 1 + 1
  OBVIOUS
<1>6. <<x - 1, x>> \in R
  BY <1>5 DEF OpToRel
<1>7. QED
  BY <1>4, <1>5, <1>6

-----------------------------------------------------------------------------
(* What an interaction says. A key is the decimal of one number, and of one *)
(* that is written without leading zeros there is no other key.             *)
ValueTable(f, key) ==
    f = [n \in 0..Len(key) |-> IF n = 0 THEN 0 ELSE 10 * f[n - 1] + key[n]]

PartTable(f, key, m) ==
    f = [n \in 0..m |-> IF n = 0 THEN 0 ELSE 10 * f[n - 1] + key[n]]

LEMMA ValueTableExists ==
    ASSUME NEW key \in Seq(0..NotADigit)
    PROVE \E f: ValueTable(f, key)
<1> DEFINE G == {m \in Nat: \E f: PartTable(f, key, m)}
<1>1. 0 \in G
  <2>1. PartTable([n \in 0..0 |-> 0], key, 0)
    BY DEF PartTable
  <2>2. QED
    BY <2>1
<1>2. ASSUME NEW m \in G PROVE m + 1 \in G
  <2>1. PICK f: PartTable(f, key, m)
    OBVIOUS
  <2> DEFINE e == 10 * f[m] + key[m + 1]
             g == [n \in 0..(m + 1) |-> IF n = m + 1 THEN e ELSE f[n]]
  <2>2. ASSUME NEW n \in 0..(m + 1)
        PROVE g[n] = IF n = 0 THEN 0 ELSE 10 * g[n - 1] + key[n]
    <3>1. CASE n = m + 1
      <4>1. n # 0 /\ n - 1 = m /\ g[n] = e /\ g[n - 1] = f[m]
        BY <3>1
      <4> HIDE DEF g
      <4>2. QED
        BY <3>1, <4>1
    <3>2. CASE n # m + 1
      <4>1. n \in 0..m /\ g[n] = f[n] /\ (n # 0 => g[n - 1] = f[n - 1])
        BY <3>2
      <4>2. f[n] = IF n = 0 THEN 0 ELSE 10 * f[n - 1] + key[n]
        BY <2>1, <4>1 DEF PartTable
      <4> HIDE DEF g
      <4>3. QED
        BY <4>1, <4>2
    <3>3. QED
      BY <3>1, <3>2
  <2>3. PartTable(g, key, m + 1)
    <3>1. g = [n \in 0..(m + 1) |-> g[n]]
      OBVIOUS
    <3> HIDE DEF g
    <3>2. QED
      BY <2>2, <3>1 DEF PartTable
  <2>4. QED
    BY <2>3
<1>3. G = Nat
  <2> HIDE DEF G
  <2>1. G \in SUBSET Nat
    BY DEF G
  <2>2. QED
    BY <1>1, <1>2, <2>1, Induct
<1>4. Len(key) \in G
  <2> HIDE DEF G
  <2>1. QED
    BY <1>3
<1>5. QED
  BY <1>4 DEF PartTable, ValueTable

(* The values of a key's beginnings.                                        *)
Counts(f, key) ==
    /\ Len(key) \in Nat \ {0} /\ f[0] = 0
    /\ \A n \in 1..Len(key): key[n] \in 0..9 /\ f[n] = 10 * f[n - 1] + key[n]
    /\ \A n \in 0..Len(key): f[n] \in Nat
    /\ Len(key) # 1 => key[1] # 0

LEMMA KeyCounts ==
    ASSUME NEW key \in Seq(0..NotADigit), IsIndex(key)
    PROVE \E f: Counts(f, key) /\ IndexOf(key) = f[Len(key)]
<1> DEFINE f == CHOOSE f: ValueTable(f, key)
<1>1. ValueTable(f, key)
  <2>1. \E ff: ValueTable(ff, key)
    BY ValueTableExists
  <2>2. QED
    BY <2>1, Zenon
<1>2. IndexOf(key) = f[Len(key)]
  BY DEF IndexOf, ValueTable
<1> HIDE DEF f
<1>3. /\ Len(key) \in Nat \ {0} /\ \A n \in 1..Len(key): key[n] \in 0..9
      /\ Len(key) # 1 => key[1] # 0
  BY DEF IsIndex
<1>4. \A n \in 0..Len(key): f[n] = IF n = 0 THEN 0 ELSE 10 * f[n - 1] + key[n]
  BY <1>1 DEF ValueTable
<1>5. f[0] = 0
  BY <1>3, <1>4
<1>6. \A n \in 1..Len(key): f[n] = 10 * f[n - 1] + key[n]
  <2> TAKE n \in 1..Len(key)
  <2>1. n \in 0..Len(key) /\ n # 0
    BY <1>3
  <2>2. QED
    BY <1>4, <2>1
<1> DEFINE G == {n \in Nat: n <= Len(key) => f[n] \in Nat}
<1>7. 0 \in G
  BY <1>5
<1>8. ASSUME NEW n \in G PROVE n + 1 \in G
  <2> SUFFICES ASSUME n + 1 <= Len(key) PROVE f[n + 1] \in Nat
    OBVIOUS
  <2>1. n \in Nat /\ f[n] \in Nat /\ n + 1 \in 1..Len(key) /\ n + 1 - 1 = n
    BY <1>3
  <2>2. f[n + 1] = 10 * f[n + 1 - 1] + key[n + 1] /\ key[n + 1] \in 0..9
    BY <1>3, <1>6, <2>1
  <2>3. f[n + 1] = 10 * f[n] + key[n + 1]
    BY <2>1, <2>2
  <2> HIDE DEF G
  <2>4. PICK a \in Nat, x \in 0..9: a = f[n] /\ x = key[n + 1] /\ f[n + 1] = 10 * a + x
    BY <2>1, <2>2, <2>3
  <2>5. 10 * a + x \in Nat
    OBVIOUS
  <2>6. QED
    BY <2>4, <2>5
<1>9. G = Nat
  <2> HIDE DEF G
  <2>1. G \in SUBSET Nat
    BY DEF G
  <2>2. QED
    BY <1>7, <1>8, <2>1, Induct
<1>10. \A n \in 0..Len(key): f[n] \in Nat
  BY <1>3, <1>9
<1>11. Counts(f, key)
  BY <1>3, <1>5, <1>6, <1>10 DEF Counts
<1>12. QED
  BY <1>2, <1>11

(* No beginning of a key of two digits or more has the value 0.             *)
LEMMA CountsUp ==
    ASSUME NEW key, NEW f, Counts(f, key), Len(key) # 1
    PROVE \A n \in 1..Len(key): f[n] # 0
<1> DEFINE G == {n \in Nat: n + 1 <= Len(key) => f[n + 1] # 0}
<1>0. /\ Len(key) \in Nat /\ \A n \in 0..Len(key): f[n] \in Nat
      /\ \A n \in 1..Len(key): key[n] \in 0..9 /\ f[n] = 10 * f[n - 1] + key[n]
  BY DEF Counts
<1>1. 0 \in G
  <2>1. 1 \in 1..Len(key) /\ f[0] = 0 /\ key[1] # 0 /\ key[1] \in 0..9 /\ f[1] = 10 * f[1 - 1] + key[1]
    BY DEF Counts
  <2>2. f[1] # 0
    BY <2>1
  <2>3. QED
    BY <2>2
<1>2. ASSUME NEW n \in G PROVE n + 1 \in G
  <2> SUFFICES ASSUME n + 1 + 1 <= Len(key) PROVE f[n + 1 + 1] # 0
    OBVIOUS
  <2>1. n \in Nat /\ f[n + 1] # 0 /\ n + 1 \in 0..Len(key) /\ f[n + 1] \in Nat
    BY <1>0
  <2>2. PICK m \in 1..Len(key): m = n + 1 + 1 /\ m - 1 = n + 1
    BY <1>0, <2>1
  <2>3. f[m] = 10 * f[m - 1] + key[m] /\ key[m] \in 0..9
    BY <1>0
  <2> HIDE DEF G
  <2>4. PICK a \in Nat, x \in 0..9: a = f[m - 1] /\ a # 0 /\ x = key[m] /\ f[m] = 10 * a + x
    BY <2>1, <2>2, <2>3
  <2>5. 10 * a + x # 0
    <3>1. a # 0
      BY <2>4
    <3>2. QED
      BY <3>1
  <2>6. f[m] # 0
    BY <2>4, <2>5
  <2>7. QED
    BY <2>2, <2>6
<1>3. G = Nat
  <2> HIDE DEF G
  <2>1. G \in SUBSET Nat
    BY DEF G
  <2>2. QED
    BY <1>1, <1>2, <2>1, Induct
<1>4. QED
  <2> SUFFICES ASSUME NEW n \in 1..Len(key) PROVE f[n] # 0
    OBVIOUS
  <2>1. PICK m \in Nat: m = n - 1
    <3>1. n - 1 \in Nat
      OBVIOUS
    <3>2. QED
      BY <3>1
  <2>2. m \in G
    <3> HIDE DEF G
    <3>1. QED
      BY <1>3
  <2>3. m + 1 = n /\ n <= Len(key)
    BY <1>0, <2>1
  <2>4. QED
    BY <2>2, <2>3

LEMMA DigitsOne ==
    ASSUME NEW a \in Nat, NEW b \in Nat, NEW x \in 0..9, NEW y \in 0..9, 10 * a + x = 10 * b + y
    PROVE a = b /\ x = y
OBVIOUS

(* The last d digits agree, and so do the values before them.               *)
LastAgree(s, f, t, g, d) ==
    /\ f[Len(s) - d] = g[Len(t) - d]
    /\ \A i \in 1..d: s[Len(s) - i + 1] = t[Len(t) - i + 1]

LEMMA LastAgreeMore ==
    ASSUME NEW s, NEW f, Counts(f, s), NEW t, NEW g, Counts(g, t), NEW d \in Nat,
           d + 1 <= Len(s), d + 1 <= Len(t), LastAgree(s, f, t, g, d)
    PROVE LastAgree(s, f, t, g, d + 1)
<1>1. PICK m \in 1..Len(s): m = Len(s) - d
  <2>1. Len(s) - d \in 1..Len(s)
    BY DEF Counts
  <2>2. QED
    BY <2>1
<1>2. PICK n \in 1..Len(t): n = Len(t) - d
  <2>1. Len(t) - d \in 1..Len(t)
    BY DEF Counts
  <2>2. QED
    BY <2>1
<1>0. Len(s) \in Nat /\ Len(t) \in Nat
  BY DEF Counts
<1>3. f[m] = 10 * f[m - 1] + s[m] /\ s[m] \in 0..9 /\ f[m - 1] \in Nat
  <2>1. m - 1 \in 0..Len(s)
    BY <1>0
  <2>2. QED
    BY <2>1 DEF Counts
<1>4. g[n] = 10 * g[n - 1] + t[n] /\ t[n] \in 0..9 /\ g[n - 1] \in Nat
  <2>1. n - 1 \in 0..Len(t)
    BY <1>0
  <2>2. QED
    BY <2>1 DEF Counts
<1>5. f[m] = g[n]
  BY <1>1, <1>2 DEF LastAgree
<1>6. f[m - 1] = g[n - 1] /\ s[m] = t[n]
  <2>1. PICK a \in Nat, x \in 0..9: a = f[m - 1] /\ x = s[m]
    BY <1>3
  <2>2. PICK b \in Nat, y \in 0..9: b = g[n - 1] /\ y = t[n]
    BY <1>4
  <2>3. 10 * a + x = 10 * b + y
    BY <1>3, <1>4, <1>5, <2>1, <2>2
  <2>4. a = b /\ x = y
    BY <2>3, DigitsOne
  <2>5. QED
    BY <2>1, <2>2, <2>4
<1>7. Len(s) - (d + 1) = m - 1 /\ Len(t) - (d + 1) = n - 1
  BY <1>0, <1>1, <1>2
<1>8. ASSUME NEW i \in 1..(d + 1) PROVE s[Len(s) - i + 1] = t[Len(t) - i + 1]
  <2>1. CASE i = d + 1
    <3>1. Len(s) - i + 1 = m /\ Len(t) - i + 1 = n
      BY <1>0, <1>1, <1>2, <2>1
    <3>2. QED
      BY <1>6, <3>1
  <2>2. CASE i # d + 1
    <3>1. i \in 1..d
      BY <2>2
    <3>2. QED
      BY <3>1 DEF LastAgree
  <2>3. QED
    BY <2>1, <2>2
<1>9. QED
  BY <1>6, <1>7, <1>8 DEF LastAgree

LEMMA AgreeAlong ==
    ASSUME NEW s, NEW f, Counts(f, s), NEW t, NEW g, Counts(g, t), f[Len(s)] = g[Len(t)]
    PROVE \A d \in Nat: d <= Len(s) /\ d <= Len(t) => LastAgree(s, f, t, g, d)
<1> DEFINE G == {d \in Nat: d <= Len(s) /\ d <= Len(t) => LastAgree(s, f, t, g, d)}
<1>0. Len(s) \in Nat /\ Len(t) \in Nat
  BY DEF Counts
<1>1. 0 \in G
  <2>1. Len(s) - 0 = Len(s) /\ Len(t) - 0 = Len(t)
    BY <1>0
  <2>2. LastAgree(s, f, t, g, 0)
    BY <2>1 DEF LastAgree
  <2>3. QED
    BY <2>2
<1>2. ASSUME NEW d \in G PROVE d + 1 \in G
  <2> SUFFICES ASSUME d + 1 <= Len(s), d + 1 <= Len(t) PROVE LastAgree(s, f, t, g, d + 1)
    OBVIOUS
  <2>1. d \in Nat /\ LastAgree(s, f, t, g, d)
    BY <1>0
  <2>2. QED
    BY <2>1, LastAgreeMore
<1>3. G = Nat
  <2> HIDE DEF G
  <2>1. G \in SUBSET Nat
    BY DEF G
  <2>2. QED
    BY <1>1, <1>2, <2>1, Induct
<1>4. QED
  BY <1>3

LEMMA NotShorter ==
    ASSUME NEW s, NEW f, Counts(f, s), NEW t, NEW g, Counts(g, t), f[Len(s)] = g[Len(t)]
    PROVE ~(Len(s) < Len(t))
<1> SUFFICES ASSUME Len(s) < Len(t) PROVE FALSE
  OBVIOUS
<1>0. Len(s) \in Nat \ {0} /\ Len(t) \in Nat /\ f[0] = 0
  BY DEF Counts
<1>1. LastAgree(s, f, t, g, Len(s))
  BY <1>0, AgreeAlong
<1>2. PICK n \in 1..Len(t): n = Len(t) - Len(s)
  <2>1. Len(t) - Len(s) \in 1..Len(t)
    BY <1>0
  <2>2. QED
    BY <2>1
<1>3. Len(s) - Len(s) = 0
  <2>1. \A k \in Nat: k - k = 0
    OBVIOUS
  <2>2. QED
    BY <1>0, <2>1
<1>4. g[n] = 0
  BY <1>0, <1>1, <1>2, <1>3 DEF LastAgree
<1>5. Len(t) # 1
  <2>1. Len(s) \in Nat /\ Len(s) # 0 /\ Len(t) \in Nat
    BY <1>0
  <2>2. \A a, b \in Nat: a # 0 /\ a < b => b # 1
    OBVIOUS
  <2>3. QED
    BY <2>1, <2>2
<1>6. QED
  BY <1>4, <1>5, CountsUp

LEMMA KeysDiffer ==
    ASSUME NEW s \in Seq(0..NotADigit), IsIndex(s), NEW t \in Seq(0..NotADigit), IsIndex(t),
           IndexOf(s) = IndexOf(t)
    PROVE s = t
<1>1. PICK f: Counts(f, s) /\ IndexOf(s) = f[Len(s)]
  BY KeyCounts
<1>2. PICK g: Counts(g, t) /\ IndexOf(t) = g[Len(t)]
  BY KeyCounts
<1>3. f[Len(s)] = g[Len(t)] /\ g[Len(t)] = f[Len(s)]
  BY <1>1, <1>2
<1>4. ~(Len(s) < Len(t)) /\ ~(Len(t) < Len(s))
  BY <1>1, <1>2, <1>3, NotShorter
<1>5. Len(s) = Len(t) /\ Len(s) \in Nat
  BY <1>4
<1>6. LastAgree(s, f, t, g, Len(s))
  <2>1. Len(s) <= Len(s) /\ Len(s) <= Len(t)
    BY <1>5
  <2>2. QED
    BY <1>1, <1>2, <1>3, <1>5, <2>1, AgreeAlong
<1>7. ASSUME NEW i \in 1..Len(s) PROVE s[i] = t[i]
  <2>1. PICK j \in 1..Len(s): Len(s) - j + 1 = i
    <3>1. Len(s) - i + 1 \in 1..Len(s) /\ Len(s) - (Len(s) - i + 1) + 1 = i
      BY <1>5
    <3>2. QED
      BY <3>1
  <2>2. s[Len(s) - j + 1] = t[Len(t) - j + 1]
    BY <1>6 DEF LastAgree
  <2>3. QED
    BY <1>5, <2>1, <2>2
<1>8. QED
  BY <1>5, <1>7

LEMMA DigitKey ==
    ASSUME NEW n \in Int, <<n>> \in Seq(0..NotADigit), IsIndex(<<n>>)
    PROVE IndexOf(<<n>>) = n /\ n \in 0..9
<1>1. n \in 0..9 /\ Len(<<n>>) = 1
  BY DEF IsIndex
<1>2. PICK f: Counts(f, <<n>>) /\ IndexOf(<<n>>) = f[Len(<<n>>)]
  BY KeyCounts
<1>3. f[0] = 0 /\ f[1] = 10 * f[1 - 1] + <<n>>[1]
  BY <1>1, <1>2 DEF Counts
<1>4. f[1] = n
  BY <1>1, <1>3
<1>5. QED
  BY <1>1, <1>2, <1>4

LEMMA IndexNatural ==
    ASSUME NEW key \in Seq(0..NotADigit), IsIndex(key)
    PROVE IndexOf(key) \in Nat
<1>1. PICK f: Counts(f, key) /\ IndexOf(key) = f[Len(key)]
  BY KeyCounts
<1>2. QED
  BY <1>1 DEF Counts

-----------------------------------------------------------------------------
(* What an answer's entries become. Each key of an interaction names one    *)
(* of its questions, which have different texts.                            *)
Distinct(ask) ==
    /\ ask.questions \in Seq([question: STRING, options: Seq(STRING), multiSelect: BOOLEAN])
    /\ \A j, k \in DOMAIN ask.questions:
           ask.questions[j].question = ask.questions[k].question => j = k

Named(ask, entries) == \A key \in DOMAIN entries: NamesQuestion(ask, key)

LEMMA KeyNames ==
    ASSUME NEW ask, Distinct(ask), NEW key \in Seq(0..NotADigit),
           NamesQuestion(ask, key)
    PROVE IsIndex(key) /\ IndexOf(key) + 1 \in DOMAIN ask.questions
<1>1. IsIndex(key) /\ IndexOf(key) < Len(ask.questions)
  BY DEF NamesQuestion
<1>2. IndexOf(key) \in Nat
  BY <1>1, IndexNatural
<1>3. DOMAIN ask.questions = 1..Len(ask.questions) /\ Len(ask.questions) \in Nat
  BY DEF Distinct
<1>4. QED
  BY <1>1, <1>2, <1>3

LEMMA QuestionsDiffer ==
    ASSUME NEW ask, Distinct(ask),
           NEW s \in Seq(0..NotADigit), NamesQuestion(ask, s),
           NEW t \in Seq(0..NotADigit), NamesQuestion(ask, t),
           QuestionForIndex(ask, s) = QuestionForIndex(ask, t)
    PROVE s = t
<1>1. /\ IsIndex(s) /\ IndexOf(s) + 1 \in DOMAIN ask.questions
      /\ IsIndex(t) /\ IndexOf(t) + 1 \in DOMAIN ask.questions
  BY KeyNames
<1>2. IndexOf(s) + 1 = IndexOf(t) + 1
  BY <1>1 DEF QuestionForIndex, Distinct
<1>3. IndexOf(s) \in Nat /\ IndexOf(t) \in Nat
  BY <1>1, IndexNatural
<1>4. IndexOf(s) = IndexOf(t)
  BY <1>2, <1>3
<1>5. QED
  BY <1>1, <1>4, KeysDiffer

Arrive(ask, given, relayed) ==
    /\ Cardinality(DOMAIN relayed) = Cardinality(DOMAIN given)
    /\ \A key \in DOMAIN given: relayed[QuestionForIndex(ask, key)] = given[key]

LEMMA ByQuestionIs ==
    ASSUME NEW ask, Distinct(ask), NEW entries, IsEntries(entries),
           Named(ask, entries)
    PROVE Arrive(ask, entries, ByQuestion(ask, entries))
<1> DEFINE K == DOMAIN entries
           f == [key \in K |-> QuestionForIndex(ask, key)]
           T == {QuestionForIndex(ask, key): key \in K}
           relayed == ByQuestion(ask, entries)
<1>0. K \subseteq Seq(0..NotADigit) /\ IsFiniteSet(K)
  BY DEF IsEntries
<1>1. \A s, t \in K: QuestionForIndex(ask, s) = QuestionForIndex(ask, t) => s = t
  BY <1>0, QuestionsDiffer DEF Named
<1>2. DOMAIN relayed = T
  BY DEF ByQuestion
<1>3. Cardinality(T) = Cardinality(K)
  <2>1. f \in Surjection(K, T)
    BY DEF Surjection
  <2>2. f \in Injection(K, T)
    BY <1>1, <2>1 DEF Injection, IsInjective, Surjection
  <2> HIDE DEF f, K, T
  <2>3. QED
    BY <1>0, <2>1, <2>2, FS_Surjection
<1>4. ASSUME NEW key \in K PROVE relayed[QuestionForIndex(ask, key)] = entries[key]
  <2> DEFINE text == QuestionForIndex(ask, key)
             other == CHOOSE s \in K: QuestionForIndex(ask, s) = text
  <2>1. relayed[text] = entries[other]
    BY DEF ByQuestion
  <2>2. other \in K /\ QuestionForIndex(ask, other) = text
    OBVIOUS
  <2> HIDE DEF other, K
  <2>3. other = key
    BY <1>1, <2>2
  <2>4. QED
    BY <2>1, <2>3
<1>5. QED
  BY <1>2, <1>3, <1>4 DEF Arrive

-----------------------------------------------------------------------------
(* The client is shown what the agent's frame asks, and the agent is        *)
(* answered what the client's answer to that says.                          *)
IInv ==
    /\ interaction = Nothing \/
           (frame \in Frames /\ Normalizes(frame) /\ interaction = Normalized(frame))
    /\ frame = Nothing => interaction = Nothing /\ verdict = <<>>
    /\ \/ verdict = <<>>
       \/ verdict = <<Refusal(FALSE)>>
       \/ /\ interaction # Nothing /\ answer \in Answers
          /\ verdict = <<Relayed(interaction, answer)>>

LEMMA NotNothing == \A f: Normalized(f).given /\ Normalized(f) # Nothing
<1> SUFFICES ASSUME NEW f PROVE Normalized(f).given /\ Normalized(f) # Nothing
  OBVIOUS
<1>1. Normalized(f).given
  BY DEF Normalized
<1>2. ~Nothing.given
  BY DEF Nothing
<1>3. QED
  BY <1>1, <1>2

LEMMA IInvHolds == ISpec => []IInv
<1>1. IInit => IInv
  BY DEF IInit, IInv
<1>2. IInv /\ [INext]_ivars => IInv'
  <2> SUFFICES ASSUME IInv, [INext]_ivars PROVE IInv'
    OBVIOUS
  <2>1. ASSUME NEW f \in Frames, Asked(f) PROVE IInv'
    <3>1. frame = Nothing /\ frame' = f /\ interaction = Nothing /\ verdict = <<>> /\ f # Nothing
      BY <2>1, InteractionAssumption DEF Asked, IInv
    <3>2. CASE Normalizes(f)
      <4>1. interaction' = Normalized(f) /\ verdict' = verdict
        BY <2>1, <3>2 DEF Asked
      <4>2. QED
        BY <3>1, <3>2, <4>1 DEF IInv
    <3>3. CASE ~Normalizes(f)
      <4>1. verdict' = <<Refusal(FALSE)>> /\ interaction' = interaction
        BY <2>1, <3>3 DEF Asked
      <4>2. QED
        BY <3>1, <3>3, <4>1 DEF IInv
    <3>4. QED
      BY <3>2, <3>3
  <2>2. ASSUME NEW response \in Answers, Answered(response) PROVE IInv'
    <3>1. /\ interaction.given /\ answer' = response /\ frame' = frame
          /\ interaction' = interaction /\ verdict' = <<Relayed(interaction, response)>>
      BY <2>2 DEF Answered
    <3>2. interaction # Nothing
      BY <3>1 DEF Nothing
    <3>3. frame # Nothing
      BY <3>2 DEF IInv
    <3>4. QED
      BY <3>1, <3>2, <3>3 DEF IInv
  <2>3. CASE UNCHANGED ivars
    BY <2>3 DEF ivars, IInv
  <2>4. QED
    BY <2>1, <2>2, <2>3 DEF INext
<1>3. QED
  BY <1>1, <1>2, PTL DEF ISpec

(* What an answer of each kind of interaction says to the agent.            *)
Refuses(said) == said.form # "result"
Says(said, result) == said.form = "result" /\ said.result = result

LEMMA RefusalIs == \A told: Refuses(Refusal(told))
BY DEF Refuses, Refusal

LEMMA ResultIs == \A fields: Says(Result(fields), fields)
BY DEF Says, Result

PlanAnswered(said) ==
    \/ Refuses(said)
    \/ \E outcome \in {"approved", "abandoned"}: Says(said, [outcome |-> outcome])
    \/ \E feedback: Says(said, [outcome |-> "cancelled", feedback |-> feedback])

LEMMA PlanIs == \A response: PlanAnswered(DenormalizeExitPlan(response))
BY RefusalIs, ResultIs DEF DenormalizeExitPlan, PlanAnswered

SaysAccepted(said, answers) ==
    \E notes: Says(said, [outcome |-> "accepted", answers |-> answers, annotations |-> notes])

AskAnswered(ask, response, said) ==
    \/ Refuses(said)
    \/ Says(said, [outcome |-> "cancelled"])
    \/ /\ Named(ask, response.answers)
       /\ SaysAccepted(said, ByQuestion(ask, NotBlank(response.answers)))
    \/ /\ Named(ask, response.partialAnswers)
       /\ \E outcome \in {"chat_about_this", "skip_interview"}:
              Says(said, [outcome |-> outcome,
                          partialAnswers |-> ByQuestion(ask, response.partialAnswers)])

LEMMA AskIs ==
    ASSUME NEW ask, NEW response
    PROVE AskAnswered(ask, response, DenormalizeAsk(ask, response))
<1> DEFINE said == DenormalizeAsk(ask, response)
<1>1. CASE response.outcome = "cancelled"
  <2>1. said = Result([outcome |-> "cancelled"])
    BY <1>1 DEF DenormalizeAsk
  <2>2. QED
    BY <2>1, ResultIs DEF AskAnswered
<1>2. CASE response.outcome = "accepted"
  <2> DEFINE notes == AnnotationsOf(ask, response.annotations)
             answers == ByQuestion(ask, NotBlank(response.answers))
  <2>1. CASE /\ Named(ask, response.answers) /\ DOMAIN response.answers # {}
             /\ Named(ask, response.annotations)
    <3>1. said = Result([outcome |-> "accepted", answers |-> answers, annotations |-> notes])
      BY <1>2, <2>1, Zenon DEF DenormalizeAsk, Named
    <3>2. Says(said, [outcome |-> "accepted", answers |-> answers, annotations |-> notes])
      BY <3>1, ResultIs
    <3> HIDE DEF said, notes
    <3>3. SaysAccepted(said, answers)
      BY <3>2, Zenon DEF SaysAccepted
    <3>4. QED
      BY <2>1, <3>3 DEF AskAnswered, said
  <2>2. CASE ~(/\ Named(ask, response.answers) /\ DOMAIN response.answers # {}
               /\ Named(ask, response.annotations))
    <3>1. said = Refusal(TRUE)
      BY <1>2, <2>2 DEF DenormalizeAsk, Named
    <3>2. QED
      BY <3>1, RefusalIs DEF AskAnswered
  <2>3. QED
    BY <2>1, <2>2
<1>3. CASE response.outcome \in {"chat_about_this", "skip_interview"}
  <2>1. CASE Named(ask, response.partialAnswers)
    <3>1. said = Result([outcome |-> response.outcome,
                         partialAnswers |-> ByQuestion(ask, response.partialAnswers)])
      BY <1>3, <2>1 DEF DenormalizeAsk, Named
    <3>2. QED
      BY <1>3, <2>1, <3>1, ResultIs DEF AskAnswered
  <2>2. CASE ~Named(ask, response.partialAnswers)
    <3>1. said = Refusal(TRUE)
      BY <1>3, <2>2 DEF DenormalizeAsk, Named
    <3>2. QED
      BY <3>1, RefusalIs DEF AskAnswered
  <2>3. QED
    BY <2>1, <2>2
<1>4. CASE response.outcome \notin {"cancelled", "accepted", "chat_about_this", "skip_interview"}
  <2>1. said = Refusal(TRUE)
    BY <1>4 DEF DenormalizeAsk
  <2>2. QED
    BY <2>1, RefusalIs DEF AskAnswered
<1>5. QED
  BY <1>1, <1>2, <1>3, <1>4

(* The neutral request has the questions of the frame, in its order.        *)
LEMMA NormalizedIs ==
    ASSUME NEW f \in Frames, Normalizes(f)
    PROVE /\ f.method = "exit_plan_mode" <=> Normalized(f).kind = "exit_plan"
          /\ f.method # "exit_plan_mode" =>
                 /\ Distinct(Normalized(f))
                 /\ DOMAIN Normalized(f).questions = DOMAIN f.questions
                 /\ \A k \in DOMAIN f.questions:
                        Normalized(f).questions[k].question = f.questions[k].text
<1>1. f.method = "exit_plan_mode" <=> Normalized(f).kind = "exit_plan"
  BY DEF Normalized
<1>2. ASSUME f.method # "exit_plan_mode"
      PROVE /\ Distinct(Normalized(f))
            /\ DOMAIN Normalized(f).questions = DOMAIN f.questions
            /\ \A k \in DOMAIN f.questions:
                   Normalized(f).questions[k].question = f.questions[k].text
  <2>1. f.questions \in Seq([text: STRING, labels: Seq(STRING), multiSelect: STRING])
    BY InteractionAssumption
  <2>2. \A k \in DOMAIN f.questions: \A j \in 1..(k - 1): f.questions[j].text # f.questions[k].text
    <3>1. f.method = "ask_user_question"
      BY <1>2 DEF Normalizes
    <3>2. QED
      BY <3>1 DEF Normalizes, QuestionsValid
  <2>3. Normalized(f).questions =
            [k \in DOMAIN f.questions |->
                [question |-> f.questions[k].text, options |-> f.questions[k].labels,
                 multiSelect |-> f.questions[k].multiSelect = "true"]]
    BY <1>2 DEF Normalized
  <2> DEFINE ask == Normalized(f)
  <2> HIDE DEF ask
  <2>4. DOMAIN f.questions = 1..Len(f.questions) /\ Len(f.questions) \in Nat
    BY <2>1
  <2>5. /\ DOMAIN ask.questions = DOMAIN f.questions
        /\ \A k \in DOMAIN f.questions: ask.questions[k].question = f.questions[k].text
    BY <2>3 DEF ask
  <2>6. ask.questions \in Seq([question: STRING, options: Seq(STRING), multiSelect: BOOLEAN])
    <3>1. \A k \in 1..Len(f.questions):
              [question |-> f.questions[k].text, options |-> f.questions[k].labels,
               multiSelect |-> f.questions[k].multiSelect = "true"]
                  \in [question: STRING, options: Seq(STRING), multiSelect: BOOLEAN]
      <4> TAKE k \in 1..Len(f.questions)
      <4>1. f.questions[k] \in [text: STRING, labels: Seq(STRING), multiSelect: STRING]
        BY <2>1, ElementOfSeq, Zenon
      <4>2. f.questions[k].text \in STRING /\ f.questions[k].labels \in Seq(STRING)
        BY <4>1
      <4>3. QED
        BY <4>2
    <3>2. QED
      BY <2>3, <2>4, <3>1 DEF ask
  <2>7. ASSUME NEW j \in DOMAIN f.questions, NEW k \in DOMAIN f.questions,
               f.questions[j].text = f.questions[k].text
        PROVE j = k
    <3>1. ~(j < k) /\ ~(k < j)
      BY <2>2, <2>4, <2>7
    <3>2. QED
      BY <2>4, <3>1
  <2>8. Distinct(ask)
    BY <2>5, <2>6, <2>7 DEF Distinct
  <2>9. QED
    BY <2>5, <2>8 DEF ask
<1>3. QED
  BY <1>1, <1>2

LEMMA NotBlankEntries ==
    ASSUME NEW ask, NEW entries, IsEntries(entries), Named(ask, entries)
    PROVE IsEntries(NotBlank(entries)) /\ Named(ask, NotBlank(entries))
<1>1. DOMAIN NotBlank(entries) = DOMAIN entries
  BY DEF NotBlank
<1>2. QED
  BY <1>1 DEF IsEntries, Named

(* In the agent's frame, what is relayed for the k-th question is under its *)
(* text.                                                                    *)
LEMMA ArrivesInFrame ==
    ASSUME frame \in Frames, Normalizes(frame), frame.method # "exit_plan_mode",
           NEW given, IsEntries(given), Named(Normalized(frame), given)
    PROVE EntriesArrive(given, ByQuestion(Normalized(frame), given))
<1> DEFINE ask == Normalized(frame)
           relayed == ByQuestion(ask, given)
<1>1. /\ Distinct(ask) /\ DOMAIN ask.questions = DOMAIN frame.questions
      /\ \A k \in DOMAIN frame.questions: ask.questions[k].question = frame.questions[k].text
  BY NormalizedIs
<1>2. Arrive(ask, given, relayed)
  BY <1>1, ByQuestionIs
<1> HIDE DEF ask, relayed
<1>3. DOMAIN frame.questions \subseteq Int
  BY InteractionAssumption
<1>4. ASSUME NEW k \in DOMAIN frame.questions, Decimal(k - 1) \in DOMAIN given
      PROVE relayed[frame.questions[k].text] = given[Decimal(k - 1)]
  <2>1. k - 1 \in Int /\ k - 1 + 1 = k
    BY <1>3
  <2>2. PICK n \in Int: n = k - 1 /\ n + 1 = k
    BY <2>1
  <2>3. <<n>> \in Seq(0..NotADigit) /\ NamesQuestion(ask, <<n>>) /\ <<n>> \in DOMAIN given
    BY <1>4, <2>2 DEF IsEntries, Named, Decimal, ask
  <2>4. IndexOf(<<n>>) = n
    BY <2>3, DigitKey DEF NamesQuestion
  <2>5. QuestionForIndex(ask, <<n>>) = frame.questions[k].text
    BY <1>1, <2>2, <2>4 DEF QuestionForIndex
  <2>6. relayed[QuestionForIndex(ask, <<n>>)] = given[<<n>>]
    BY <1>2, <2>3 DEF Arrive
  <2>7. QED
    BY <2>2, <2>5, <2>6 DEF Decimal
<1>5. QED
  BY <1>2, <1>4 DEF EntriesArrive, Arrive, relayed, ask

(* Whatever a client answers to an interaction, each answer reaches the     *)
(* agent under the text of the question it was given to, none is lost, and  *)
(* the outcome is one that this kind of interaction has.                    *)
THEOREM AnswersArrive == ISpec => []AnswersReachTheirQuestions
<1>1. IInv => AnswersReachTheirQuestions
  <2> SUFFICES ASSUME IInv, verdict # <<>>, verdict[1].form = "result"
               PROVE AnswersReachTheirQuestions
    BY DEF AnswersReachTheirQuestions
  <2> DEFINE ask == Normalized(frame)
             said == Relayed(ask, answer)
  <2>0. ~(verdict = <<Refusal(FALSE)>>)
    BY DEF Refusal
  <2>1. /\ frame \in Frames /\ Normalizes(frame) /\ answer \in Answers
        /\ verdict = <<said>>
    BY <2>0 DEF IInv
  <2>2. verdict[1] = said
    BY <2>1
  <2>3. ~Refuses(said)
    BY <2>2 DEF Refuses
  <2>4. /\ answer.form = "result"
        /\ ask.kind = "exit_plan" => said = DenormalizeExitPlan(answer)
        /\ ask.kind # "exit_plan" => said = DenormalizeAsk(ask, answer)
    <3>1. answer.form # "error"
      BY <2>3, RefusalIs DEF Relayed
    <3>2. answer.form = "result"
      BY <2>3, <3>1, RefusalIs DEF Relayed
    <3>3. QED
      BY <3>1, <3>2 DEF Relayed
  <2>5. IsEntries(answer.answers) /\ IsEntries(answer.partialAnswers)
    BY <2>1, <2>4, InteractionAssumption
  <2>6. frame.method = "exit_plan_mode" <=> ask.kind = "exit_plan"
    BY <2>1, NormalizedIs
  <2> HIDE DEF said
  <2> DEFINE result == verdict[1].result
  <2>7. CASE frame.method = "exit_plan_mode"
    <3>1. PlanAnswered(said)
      BY <2>4, <2>6, <2>7, PlanIs
    <3>2. result.outcome \in {"approved", "abandoned", "cancelled"}
      <4>1. ASSUME NEW outcome, Says(said, [outcome |-> outcome]) PROVE result.outcome = outcome
        BY <2>2, <4>1 DEF Says
      <4>2. ASSUME NEW feedback, Says(said, [outcome |-> "cancelled", feedback |-> feedback])
            PROVE result.outcome = "cancelled"
        BY <2>2, <4>2 DEF Says
      <4> HIDE DEF result
      <4>3. QED
        BY <2>3, <3>1, <4>1, <4>2 DEF PlanAnswered
    <3> HIDE DEF result
    <3>3. QED
      BY <2>7, <3>2 DEF AnswersReachTheirQuestions, result
  <2>8. CASE frame.method # "exit_plan_mode"
    <3>1. AskAnswered(ask, answer, said)
      BY <2>4, <2>6, <2>8, AskIs
    <3>2. CASE Says(said, [outcome |-> "cancelled"])
      <4>1. result.outcome = "cancelled"
        BY <2>2, <3>2 DEF Says
      <4> HIDE DEF result
      <4>2. QED
        BY <2>8, <4>1 DEF AnswersReachTheirQuestions, result
    <3>3. CASE /\ Named(ask, answer.answers)
               /\ SaysAccepted(said, ByQuestion(ask, NotBlank(answer.answers)))
      <4>1. /\ result.outcome = "accepted"
            /\ result.answers = ByQuestion(ask, NotBlank(answer.answers))
        BY <2>2, <3>3 DEF Says, SaysAccepted
      <4>2. EntriesArrive(NotBlank(answer.answers), result.answers)
        BY <2>1, <2>5, <2>8, <3>3, <4>1, NotBlankEntries, ArrivesInFrame
      <4> HIDE DEF result
      <4>3. QED
        BY <2>8, <4>1, <4>2 DEF AnswersReachTheirQuestions, result
    <3>4. CASE /\ Named(ask, answer.partialAnswers)
               /\ \E outcome \in {"chat_about_this", "skip_interview"}:
                      Says(said, [outcome |-> outcome,
                                  partialAnswers |-> ByQuestion(ask, answer.partialAnswers)])
      <4>1. /\ result.outcome \in {"chat_about_this", "skip_interview"}
            /\ result.partialAnswers = ByQuestion(ask, answer.partialAnswers)
        BY <2>2, <3>4 DEF Says
      <4>2. EntriesArrive(answer.partialAnswers, result.partialAnswers)
        BY <2>1, <2>5, <2>8, <3>4, <4>1, ArrivesInFrame
      <4> HIDE DEF result
      <4>3. QED
        BY <2>8, <4>1, <4>2 DEF AnswersReachTheirQuestions, result
    <3>5. QED
      BY <2>3, <3>1, <3>2, <3>3, <3>4 DEF AskAnswered
  <2>9. QED
    BY <2>7, <2>8
<1>2. QED
  BY <1>1, IInvHolds, PTL
============================================================================
