------------------------- MODULE AgentProcess_proofs -------------------------
(***************************************************************************)
(* The agent's safety properties for any number of daemons and agents.     *)
(* AgentInv adds to them what a transaction knows at each place: that its  *)
(* daemon runs, that no other daemon does unless they overlap, and that    *)
(* nothing is owned between the look that found nothing and the save.      *)
(* The second part is about the log the agent writes to: no sensitive value *)
(* is in it, however the output is split over writes.                      *)
(***************************************************************************)
EXTENDS AgentProcess, Redactor, FiniteSetTheorems, SequenceTheorems, TLAPS

Running == {"serving", "draining", "closing", "closed"}

\* A transaction belongs to a daemon that runs; only Stop comes after Close.
TransactionsRun ==
    \A d \in Daemons :
        /\ pc[d] # "free" => stage[d] \in Running
        /\ stage[d] = "closed" => pc[d] \in {"free", "stopping", "removing"}
        /\ pc[d] \in {"stopping", "removing"} => stage[d] = "closed" /\ d \notin keeps

\* Unless daemons overlap one of them runs at a time.
Alone ==
    contested \/ \A d, e \in Daemons : stage[d] \in Running /\ stage[e] \in Running => d = e

\* From the look that found nothing owned to the save or the removal.
NothingOwned ==
    contested \/ \A d \in Daemons :
        /\ pc[d] \in {"spawning", "spawned", "cleaning", "removing"} => state \notin alive
        /\ pc[d] = "stopping" => state = target[d]

ControlInv == TypeOK /\ TransactionsRun

AgentInv == ControlInv /\ Alone /\ NothingOwned /\ Tracked

(* Before any daemon has run no agent has been spawned.                    *)
LEMMA AgentInitially == Init => AgentInv
BY ProcessAssumption
   DEF Init, AgentInv, ControlInv, TypeOK, TransactionsRun, Alone, NothingOwned, Tracked,
       InHand, Kinds, Stages, Places, Running

(* Every step keeps AgentInv.                                              *)
LEMMA AgentStep == AgentInv /\ [Next]_vars => AgentInv'
<1> SUFFICES ASSUME AgentInv, [Next]_vars
             PROVE  AgentInv'
  OBVIOUS
<1> USE ProcessAssumption DEF AgentInv, ControlInv, TypeOK, TransactionsRun, Alone,
   NothingOwned, Tracked, InHand, Goto, LetGo, Over, Moves, Owned, Foreign, Kinds,
   Stages, Places, Running, daemonVars, transactionVars, systemVars
<1>1. ASSUME NEW d \in Daemons, NEW k \in Kinds, Begin(d, k)
      PROVE  AgentInv'
  BY <1>1 DEF Begin
<1>2. ASSUME NEW d \in Daemons, Looks(d)
      PROVE  AgentInv'
  BY <1>2 DEF Looks
<1>3. ASSUME NEW d \in Daemons, Fails(d)
      PROVE  AgentInv'
  BY <1>3 DEF Fails
<1>4. ASSUME NEW d \in Daemons, AlreadyRunning(d)
      PROVE  AgentInv'
  BY <1>4 DEF AlreadyRunning
<1>5. ASSUME NEW d \in Daemons, Restarts(d)
      PROVE  AgentInv'
  BY <1>5 DEF Restarts
<1>6. ASSUME NEW d \in Daemons, Killed(d)
      PROVE  AgentInv'
  BY <1>6 DEF Killed
<1>7. ASSUME NEW d \in Daemons, KillFails(d)
      PROVE  AgentInv'
  BY <1>7 DEF KillFails
<1>8. ASSUME NEW d \in Daemons, Clear(d)
      PROVE  AgentInv'
  BY <1>8 DEF Clear
<1>9. ASSUME NEW d \in Daemons, Blocked(d)
      PROVE  AgentInv'
  BY <1>9 DEF Blocked
<1>10. ASSUME NEW d \in Daemons, Saves(d)
      PROVE  AgentInv'
  BY <1>10 DEF Saves
<1>11. ASSUME NEW d \in Daemons, SaveFails(d)
      PROVE  AgentInv'
  BY <1>11 DEF SaveFails
<1>12. ASSUME NEW d \in Daemons, Cleaned(d)
      PROVE  AgentInv'
  BY <1>12 DEF Cleaned
<1>13. ASSUME NEW d \in Daemons, CleanupFails(d)
      PROVE  AgentInv'
  BY <1>13 DEF CleanupFails
<1>14. ASSUME NEW d \in Daemons, WaitEnds(d)
      PROVE  AgentInv'
  BY <1>14 DEF WaitEnds
<1>15. ASSUME NEW d \in Daemons, NEW p \in Processes, Spawns(d, p)
      PROVE  AgentInv'
  BY <1>15 DEF Spawns
<1>16. ASSUME NEW d \in Daemons, CloseFlags(d)
      PROVE  AgentInv'
  BY <1>16 DEF CloseFlags
<1>17. ASSUME NEW d \in Daemons, ClosePasses(d)
      PROVE  AgentInv'
  BY <1>17 DEF ClosePasses
<1>18. ASSUME NEW d \in Daemons, Leaves(d)
      PROVE  AgentInv'
  BY <1>18 DEF Leaves
<1>19. ASSUME NEW d \in Daemons, Stops(d)
      PROVE  AgentInv'
  BY <1>19 DEF Stops
<1>20. ASSUME NEW d \in Daemons, StopKilled(d)
      PROVE  AgentInv'
  BY <1>20 DEF StopKilled
<1>21. ASSUME NEW d \in Daemons, StopRemoves(d)
      PROVE  AgentInv'
  BY <1>21 DEF StopRemoves
<1>22. ASSUME NEW d \in Daemons, StopFails(d)
      PROVE  AgentInv'
  BY <1>22 DEF StopFails
<1>23. ASSUME NEW d \in Daemons, Listens(d)
      PROVE  AgentInv'
  <2>1. ControlInv'
    BY <1>23 DEF Listens
  <2>2. Alone'
    <3> SUFFICES ASSUME ~contested'
                 PROVE  \A e \in Daemons : stage'[e] \in Running => e = d
      BY <1>23 DEF Listens
    <3>1. \A e \in Daemons \ {d} : stage[e] \in {"off", "stopped", "exited"}
      BY <1>23 DEF Listens
    <3>2. QED
      BY <1>23, <3>1 DEF Listens
  <2>3. NothingOwned' /\ Tracked'
    BY <1>23 DEF Listens
  <2>4. QED
    BY <2>1, <2>2, <2>3
<1>24. ASSUME NEW d \in Daemons, Shutdown(d)
      PROVE  AgentInv'
  BY <1>24 DEF Shutdown
<1>25. ASSUME NEW d \in Daemons, Crash(d)
      PROVE  AgentInv'
  BY <1>25 DEF Crash
<1>26. ASSUME NEW p \in Processes \cup {Stranger}, Binds(p)
      PROVE  AgentInv'
  BY <1>26 DEF Binds
<1>27. ASSUME NEW p \in Processes \cup {Stranger}, Ends(p)
      PROVE  AgentInv'
  BY <1>27 DEF Ends
<1>28. CASE UNCHANGED vars
  BY <1>28 DEF vars
<1>29. ASSUME NEW d \in Daemons, TransactionStep(d)
       PROVE  AgentInv'
  BY <1>2, <1>3, <1>4, <1>5, <1>6, <1>7, <1>8, <1>9, <1>10, <1>11, <1>12, <1>13,
     <1>14, <1>15, <1>29 DEF TransactionStep
<1>30. ASSUME NEW d \in Daemons, StopStep(d)
       PROVE  AgentInv'
  BY <1>16, <1>17, <1>18, <1>19, <1>20, <1>21, <1>22, <1>30 DEF StopStep
<1>31. QED
  BY <1>1, <1>23, <1>24, <1>25, <1>26, <1>27, <1>28, <1>29, <1>30 DEF Next

(* The strengthened invariant holds of every behaviour.                    *)
THEOREM AgentInvariant == Spec => []AgentInv
BY AgentInitially, AgentStep, PTL DEF Spec

(* Types, and that whoever is about to be killed or recorded was spawned.  *)
THEOREM AgentTypeCorrect == Spec => []TypeOK
<1>1. AgentInv => TypeOK
  BY DEF AgentInv, ControlInv
<1>2. QED
  BY <1>1, AgentInvariant, PTL

(* state.go:1-2: an agent that runs is named in the state file or is in    *)
(* the hands of the daemon that spawned it.                                *)
THEOREM AgentTracked == Spec => []Tracked
<1>1. AgentInv => Tracked
  BY DEF AgentInv
<1>2. QED
  BY <1>1, AgentInvariant, PTL

(* A set in which any two elements are equal has at most one.              *)
LEMMA AtMostOne ==
    ASSUME NEW S, \A p, q \in S : p = q
    PROVE  Cardinality(S) <= 1
<1>1. CASE S = {}
  BY <1>1, FS_EmptySet
<1>2. CASE S # {}
  <2>1. PICK p : p \in S
    BY <1>2
  <2>2. S = {p}
    BY <2>1
  <2>3. Cardinality({p}) = 1
    BY FS_Singleton
  <2>4. QED
    BY <2>2, <2>3
<1>3. QED
  BY <1>1, <1>2

(* inspection.go:138-140: there is one agent at a time, but for those a    *)
(* crash or a failed clean-up has left behind.                             *)
THEOREM AgentIsOne == Spec => []OneAgent
<1>1. AgentInv => OneAgent
  <2> SUFFICES ASSUME AgentInv, ~contested
               PROVE  Cardinality(alive \ lost) <= 1
    BY DEF OneAgent
  <2>1. ASSUME NEW p \in alive \ lost, NEW q \in alive \ lost
        PROVE  p = q
    <3> USE DEF AgentInv, ControlInv, Tracked, NothingOwned
    <3>1. CASE p = state /\ q = state
      BY <3>1
    <3>2. ASSUME p # state \/ q # state
          PROVE  state \notin alive
      BY <3>2 DEF InHand
    <3>3. ASSUME InHand(p), InHand(q)
          PROVE  p = q
      BY <3>3 DEF InHand, Alone, TransactionsRun
    <3>4. QED
      BY <3>1, <3>2, <3>3
  <2>2. QED
    BY <2>1, AtMostOne
<1>2. QED
  BY <1>1, AgentInvariant, PTL

(* Only a daemon that has not passed the mutex in Close spawns an agent.   *)
LEMMA SpawnStep ==
    ASSUME AgentInv, Next, NEW d \in Daemons, NEW p \in Processes,
           by'[p] = d, by[p] # d
    PROVE  stage[d] \notin {"closed", "stopped", "exited"}
<1>1. by' # by
  OBVIOUS
<1>2. PICK e \in Daemons : \E q \in Processes : Spawns(e, q)
  BY <1>1 DEF Next, TransactionStep, StopStep, Begin, Looks, Fails, AlreadyRunning,
     Restarts, Killed, KillFails, Clear, Blocked, Saves, SaveFails, Cleaned,
     CleanupFails, WaitEnds, CloseFlags, ClosePasses, Leaves, Stops, StopKilled,
     StopRemoves, StopFails, Listens, Shutdown, Crash, Binds, Ends, systemVars
<1>3. e = d /\ pc[d] = "spawning"
  BY <1>2 DEF Spawns, AgentInv, ControlInv, TypeOK
<1>4. QED
  BY <1>3 DEF AgentInv, ControlInv, TransactionsRun, Running

(* server/lifecycle.go:117-121: once Close has passed agentLifecycleMutex  *)
(* the daemon spawns no agent, even if daemons overlap.                    *)
THEOREM AgentSpawnBarrier == Spec => SpawnBarrier
<1>1. AgentInv /\ [Next]_vars =>
        [\A d \in Daemons, p \in Processes :
           by'[p] = d /\ by[p] # d => stage[d] \notin {"closed", "stopped", "exited"}]_vars
  BY SpawnStep
<1>2. QED
  BY <1>1, AgentInvariant, PTL DEF Spec, SpawnBarrier

(* A Stop is reported as successful when it removes the state file.        *)
LEMMA StopStepLeavesNone ==
    ASSUME AgentInv, Next, NEW d \in Daemons,
           stage[d] # "stopped", stage'[d] = "stopped"
    PROVE  contested \/ alive \subseteq lost
<1>1. PICK e \in Daemons : StopRemoves(e)
  BY DEF Next, TransactionStep, StopStep, Begin, Looks, Fails, AlreadyRunning, Restarts,
     Killed, KillFails, Clear, Blocked, Saves, SaveFails, Cleaned, CleanupFails, WaitEnds,
     CloseFlags, ClosePasses, Leaves, Stops, StopKilled, StopFails, Listens, Spawns,
     Shutdown, Crash, Binds, Ends, daemonVars, Moves, AgentInv, ControlInv, TypeOK
<1>2. pc[e] = "removing"
  BY <1>1 DEF StopRemoves, Over, LetGo
<1>3. ASSUME ~contested, NEW p \in alive
      PROVE  p \in lost
  <2>1. state # p
    BY <1>2, <1>3 DEF AgentInv, NothingOwned
  <2>2. ~InHand(p)
    BY <1>2, <1>3 DEF InHand, AgentInv, ControlInv, TransactionsRun, Alone
  <2>3. QED
    BY <1>3, <2>1, <2>2 DEF AgentInv, Tracked
<1>4. QED
  BY <1>3

(* lifecycle.go:102-133: a Stop that reports success leaves no agent.      *)
THEOREM AgentStopLeavesNone == Spec => StopLeavesNone
<1>1. AgentInv /\ [Next]_vars =>
        [\A d \in Daemons :
           stage[d] # "stopped" /\ stage'[d] = "stopped" => contested \/ alive \subseteq lost]_vars
  BY StopStepLeavesNone
<1>2. QED
  BY <1>1, AgentInvariant, PTL DEF Spec, StopLeavesNone

-----------------------------------------------------------------------------
(***************************************************************************)
(* The redacting writer. Flush looks ahead in the text, so what it puts    *)
(* out is followed from the end back: Downward stands for the induction.   *)
(* A text cut at a boundary no value reaches over (Safe) and then gone on  *)
(* with comes to the same as the whole text redacted at once (CutStream);  *)
(* RInv says so of everything that may still be written.                   *)
(***************************************************************************)
(* Every set of natural numbers that has one has a least.                   *)
LEMMA LeastOf ==
    ASSUME NEW T \in SUBSET Nat, T # {}
    PROVE \E x \in T: \A y \in T: x <= y
<1> DEFINE R == OpToRel(<, Nat)
<1>1. IsWellFoundedOn(R, Nat)
  BY NatLessThanWellFounded, Zenon
<1>2. \E x \in T: \A y \in T: <<y, x>> \notin R
  <2> HIDE DEF R
  <2>1. QED
    BY <1>1, WFMin
<1>3. PICK x \in T: \A y \in T: <<y, x>> \notin R
  BY <1>2
<1>4. ASSUME NEW y \in T PROVE x <= y
  <2>1. ~(y < x)
    BY <1>3 DEF OpToRel
  <2>2. QED
    BY <2>1
<1>5. QED
  BY <1>4

(* A bounded one has a greatest.                                            *)
LEMMA GreatestOf ==
    ASSUME NEW b \in Nat, NEW T \in SUBSET (0..b), T # {}
    PROVE \E x \in T: \A y \in T: y <= x
<1> DEFINE D == {b - x: x \in T}
<1>1. D \in SUBSET Nat /\ D # {}
  <2>1. \A x \in T: b - x \in Nat
    OBVIOUS
  <2>2. PICK x \in T: TRUE
    OBVIOUS
  <2>3. b - x \in D
    OBVIOUS
  <2>4. QED
    BY <2>1, <2>3
<1>2. PICK d \in D: \A e \in D: d <= e
  <2> HIDE DEF D
  <2>1. QED
    BY <1>1, LeastOf
<1>3. PICK x \in T: d = b - x
  OBVIOUS
<1>4. ASSUME NEW y \in T PROVE y <= x
  <2>1. b - y \in D
    OBVIOUS
  <2>2. b - x <= b - y /\ x \in 0..b /\ y \in 0..b
    BY <1>2, <1>3, <2>1
  <2>3. QED
    BY <2>2
<1>5. QED
  BY <1>4

(* What holds at a position when it holds at all later ones holds at all.   *)
LEMMA Downward ==
    ASSUME NEW n \in Nat, NEW G,
           \A k \in 1..(n + 1): (\A j \in (k + 1)..(n + 1): j \in G) => k \in G
    PROVE \A k \in 1..(n + 1): k \in G
<1> DEFINE T == (1..(n + 1)) \ G
<1>1. SUFFICES ASSUME T # {} PROVE FALSE
  OBVIOUS
<1>2. T \in SUBSET (0..(n + 1)) /\ n + 1 \in Nat
  OBVIOUS
<1>3. PICK x \in T: \A y \in T: y <= x
  <2> HIDE DEF T
  <2>1. QED
    BY <1>1, <1>2, GreatestOf
<1>4. \A j \in (x + 1)..(n + 1): j \in G
  BY <1>3
<1>5. QED
  BY <1>4

(* Finitely many sequences have a length that none exceeds.                 *)
LEMMA LengthsBounded ==
    ASSUME NEW T \in SUBSET Seq(Alphabet), IsFiniteSet(T)
    PROVE \E b \in Nat: \A v \in T: Len(v) <= b
<1> DEFINE Unbounded == {n \in Nat: \E U \in SUBSET T:
               /\ IsFiniteSet(U) /\ Cardinality(U) = n
               /\ ~\E b \in Nat: \A v \in U: Len(v) <= b}
<1>1. SUFFICES ASSUME Unbounded # {} PROVE FALSE
  BY FS_CardinalityType
<1>2. PICK n \in Unbounded: \A m \in Unbounded: n <= m
  <2>1. Unbounded \in SUBSET Nat
    OBVIOUS
  <2> HIDE DEF Unbounded
  <2>2. QED
    BY <1>1, <2>1, LeastOf
<1>3. PICK U \in SUBSET T: /\ IsFiniteSet(U) /\ Cardinality(U) = n
                           /\ ~\E b \in Nat: \A v \in U: Len(v) <= b
  OBVIOUS
<1>4. PICK w \in U: TRUE
  BY <1>3
<1>5. IsFiniteSet(U \ {w}) /\ Cardinality(U \ {w}) = n - 1 /\ n - 1 \in Nat
  <2>1. IsFiniteSet(U \ {w}) /\ Cardinality(U \ {w}) = n - 1
    BY <1>3, <1>4, FS_RemoveElement
  <2>2. QED
    BY <2>1, FS_CardinalityType
<1>6. n - 1 \notin Unbounded
  <2>1. n \in Nat /\ ~(n <= n - 1)
    OBVIOUS
  <2>2. QED
    BY <1>2, <2>1
<1>7. PICK b \in Nat: \A v \in U \ {w}: Len(v) <= b
  <2>1. U \ {w} \in SUBSET T
    OBVIOUS
  <2>2. QED
    BY <1>5, <1>6, <2>1
<1>8. Len(w) \in Nat
  BY <1>4
<1>9. b + Len(w) \in Nat /\ \A v \in U: Len(v) <= b + Len(w)
  <2>1. \A v \in U: Len(v) \in Nat
    OBVIOUS
  <2>2. \A v \in U: v = w \/ Len(v) <= b
    BY <1>7
  <2> HIDE DEF Unbounded
  <2>3. QED
    BY <1>8, <2>1, <2>2
<1>10. QED
  BY <1>3, <1>9

Chars == Alphabet \union {"#", "!"}

LEMMA Longest ==
    /\ MaximumValueLength \in Nat
    /\ \A v \in Values: v \in Seq(Alphabet) /\ Len(v) \in 1..MaximumValueLength
<1> DEFINE S == {Len(value): value \in Values} \union {0}
<1>1. \A v \in Values: v \in Seq(Alphabet) /\ Len(v) \in Nat /\ Len(v) # 0
  BY RedactorAssumption DEF Values
<1>2. IsFiniteSet(Values) /\ Values \in SUBSET Seq(Alphabet)
  BY RedactorAssumption, FS_Difference DEF Values
<1>3. PICK b \in Nat: \A v \in Values: Len(v) <= b
  BY <1>2, LengthsBounded
<1>4. S \in SUBSET (0..b) /\ S # {}
  BY <1>1, <1>3
<1>5. \E x \in S: \A y \in S: y <= x
  <2> HIDE DEF S
  <2>1. QED
    BY <1>4, GreatestOf
<1>6. PICK x \in S: \A y \in S: x >= y
  BY <1>4, <1>5
<1>7. MaximumValueLength = CHOOSE z \in S: \A y \in S: z >= y
  BY DEF MaximumValueLength, Max
<1>8. MaximumValueLength \in S /\ \A y \in S: MaximumValueLength >= y
  <2> HIDE DEF S
  <2>1. QED
    BY <1>6, <1>7
<1>9. MaximumValueLength \in Nat
  BY <1>4, <1>8
<1>10. \A v \in Values: Len(v) \in S
  OBVIOUS
<1>11. QED
  BY <1>1, <1>8, <1>9, <1>10

(* A value of length n stands in t at s.                                    *)
IsMatch(t, s, n) ==
    /\ s \in Nat \ {0} /\ n \in 1..MaximumValueLength /\ s + n - 1 <= Len(t)
    /\ SubSeq(t, s, s + n - 1) \in Values

LEMMA MatchesAre ==
    ASSUME NEW t \in Seq(Chars), NEW k \in Nat \ {0}
    PROVE /\ \A m \in Matches(t, k): /\ m = <<m[1], m[2]>>
                                     /\ IsMatch(t, m[1], m[2]) /\ m[1] >= k
          /\ \A s, n: IsMatch(t, s, n) /\ s >= k => <<s, n>> \in Matches(t, k)
<1>1. Len(t) \in Nat /\ MaximumValueLength \in Nat
  BY Longest
<1>2. ASSUME NEW m \in Matches(t, k)
      PROVE m = <<m[1], m[2]>> /\ IsMatch(t, m[1], m[2]) /\ m[1] >= k
  <2>1. /\ m \in (k..Len(t)) \X (1..MaximumValueLength)
        /\ m[1] + m[2] - 1 <= Len(t)
        /\ SubSeq(t, m[1], m[1] + m[2] - 1) \in Values
    BY DEF Matches
  <2>2. m = <<m[1], m[2]>> /\ m[1] \in k..Len(t) /\ m[2] \in 1..MaximumValueLength
    BY <2>1
  <2>3. m[1] \in Nat \ {0} /\ m[1] >= k
    BY <1>1, <2>2
  <2>4. QED
    BY <2>1, <2>2, <2>3 DEF IsMatch
<1>3. ASSUME NEW s, NEW n, IsMatch(t, s, n), s >= k PROVE <<s, n>> \in Matches(t, k)
  <2>1. s \in k..Len(t) /\ n \in 1..MaximumValueLength
    BY <1>1, <1>3 DEF IsMatch
  <2>2. <<s, n>>[1] = s /\ <<s, n>>[2] = n
    OBVIOUS
  <2>3. QED
    BY <1>3, <2>1, <2>2 DEF IsMatch, Matches
<1>4. QED
  BY <1>2, <1>3

(* The n characters of t from s on.                                         *)
Piece(t, s, n) == SubSeq(t, s, s + n - 1)

HasPiece(S, t, s, n) == t \in Seq(S) /\ s \in Nat \ {0} /\ n \in Nat /\ s + n - 1 <= Len(t)

IsPiece(x, S, t, s, n) == x \in Seq(S) /\ Len(x) = n /\ \A i \in 1..n: x[i] = t[s + i - 1]

LEMMA PieceIs ==
    ASSUME NEW S, NEW t, NEW s, NEW n, HasPiece(S, t, s, n)
    PROVE IsPiece(Piece(t, s, n), S, t, s, n)
<1> DEFINE e == s + n - 1
<1>1. /\ e \in Int /\ s \in Int /\ e - s + 1 = n /\ (s <= e <=> n # 0) /\ e <= Len(t)
      /\ s >= 1 /\ t \in Seq(S)
  BY DEF HasPiece
<1>0. Piece(t, s, n) = SubSeq(t, s, e)
  BY DEF Piece
<1> HIDE DEF e
<1>2. \A i \in s..e: t[i] \in S
  BY <1>1
<1>3. /\ SubSeq(t, s, e) \in Seq(S)
      /\ Len(SubSeq(t, s, e)) = IF s <= e THEN e - s + 1 ELSE 0
      /\ \A i \in 1..(e - s + 1): SubSeq(t, s, e)[i] = t[s + i - 1]
  BY <1>1, <1>2, SubSeqProperties
<1>4. QED
  BY <1>0, <1>1, <1>3 DEF IsPiece

(* Where two texts are alike the same values stand.                         *)
LEMMA MatchMoves ==
    ASSUME NEW t \in Seq(Chars), NEW u \in Seq(Chars), NEW s, NEW n, IsMatch(t, s, n),
           NEW r \in Nat \ {0}, r + n - 1 <= Len(u),
           \A i \in 0..(n - 1): t[s + i] = u[r + i]
    PROVE IsMatch(u, r, n)
<1>1. s \in Nat \ {0} /\ n \in Nat \ {0} /\ s + n - 1 <= Len(t) /\ Len(t) \in Nat /\ Len(u) \in Nat
  BY Longest DEF IsMatch
<1> DEFINE a == Piece(t, s, n)
           b == Piece(u, r, n)
<1>0. HasPiece(Chars, t, s, n) /\ HasPiece(Chars, u, r, n)
  BY <1>1 DEF HasPiece
<1>p. IsPiece(a, Chars, t, s, n) /\ IsPiece(b, Chars, u, r, n)
  BY <1>0, PieceIs
<1> HIDE DEF a, b
<1>2. /\ a \in Seq(Chars) /\ Len(a) = n
      /\ \A i \in 1..n: a[i] = t[s + i - 1]
  BY <1>p DEF IsPiece
<1>3. /\ b \in Seq(Chars) /\ Len(b) = n
      /\ \A i \in 1..n: b[i] = u[r + i - 1]
  BY <1>p DEF IsPiece
<1>4. \A i \in 1..n: a[i] = b[i]
  <2> TAKE i \in 1..n
  <2>1. i - 1 \in 0..(n - 1) /\ s + (i - 1) = s + i - 1 /\ r + (i - 1) = r + i - 1
    BY <1>1
  <2>2. t[s + (i - 1)] = u[r + (i - 1)]
    BY <2>1
  <2>3. QED
    BY <1>2, <1>3, <2>1, <2>2
<1>5. a = b
  <2>1. QED
    BY <1>2, <1>3, <1>4, SeqEqual
<1>6. QED
  BY <1>1, <1>5 DEF IsMatch, Piece, a, b

(* The first match, and the longest of those that begin with it.            *)
IsFirst(t, k, s, n) ==
    /\ IsMatch(t, s, n) /\ s >= k
    /\ \A r, l: IsMatch(t, r, l) /\ r >= k => s < r \/ (s = r /\ n >= l)

LEMMA FirstExists ==
    ASSUME NEW t \in Seq(Chars), NEW k \in Nat \ {0}, Matches(t, k) # {}
    PROVE \E s, n: IsFirst(t, k, s, n)
<1> DEFINE S == {m[1]: m \in Matches(t, k)}
<1>1. S \in SUBSET Nat /\ S # {}
  <2>1. \A m \in Matches(t, k): m[1] \in Nat
    BY MatchesAre DEF IsMatch
  <2>2. QED
    BY <2>1
<1>2. PICK s \in S: \A r \in S: s <= r
  <2> HIDE DEF S
  <2>1. QED
    BY <1>1, LeastOf
<1> DEFINE N == {n \in 0..MaximumValueLength: IsMatch(t, s, n)}
<1>3. \A r, l: IsMatch(t, r, l) /\ r >= k => r \in S
  <2> SUFFICES ASSUME NEW r, NEW l, IsMatch(t, r, l), r >= k PROVE r \in S
    OBVIOUS
  <2>1. <<r, l>> \in Matches(t, k) /\ <<r, l>>[1] = r
    BY MatchesAre
  <2>2. QED
    BY <2>1
<1>4. s >= k /\ N # {} /\ MaximumValueLength \in Nat
  <2>1. PICK m \in Matches(t, k): m[1] = s
    OBVIOUS
  <2>2. IsMatch(t, s, m[2]) /\ s >= k
    BY <2>1, MatchesAre
  <2>3. m[2] \in 0..MaximumValueLength
    BY <2>2, Longest DEF IsMatch
  <2>4. m[2] \in N
    BY <2>2, <2>3
  <2>5. QED
    BY <2>2, <2>4, Longest
<1>5. PICK n \in N: \A l \in N: l <= n
  <2>1. N \in SUBSET (0..MaximumValueLength)
    OBVIOUS
  <2> HIDE DEF N
  <2>2. QED
    BY <1>4, <2>1, GreatestOf
<1>6. ASSUME NEW r, NEW l, IsMatch(t, r, l), r >= k
      PROVE s < r \/ (s = r /\ n >= l)
  <2>1. r \in S /\ s <= r
    BY <1>2, <1>3, <1>6
  <2>2. r \in Nat /\ s \in Nat
    BY <1>1, <2>1
  <2>3. CASE s = r
    <3>1. l \in N
      BY <1>4, <1>6, <2>3 DEF IsMatch
    <3>2. l <= n /\ l \in Nat /\ n \in Nat
      BY <1>4, <1>5, <3>1
    <3>3. QED
      BY <2>3, <3>2
  <2>4. CASE s # r
    BY <2>1, <2>2, <2>4
  <2>5. QED
    BY <2>3, <2>4
<1>7. IsFirst(t, k, s, n)
  BY <1>4, <1>5, <1>6 DEF IsFirst
<1>8. QED
  BY <1>7

LEMMA FirstIsNext ==
    ASSUME NEW t \in Seq(Chars), NEW k \in Nat \ {0}, NEW s, NEW n, IsFirst(t, k, s, n)
    PROVE Matches(t, k) # {} /\ NextMatch(t, k) = <<s, n>>
<1> DEFINE First(m) == \A other \in Matches(t, k):
                           \/ m[1] < other[1]
                           \/ m[1] = other[1] /\ m[2] >= other[2]
<1>1. <<s, n>> \in Matches(t, k)
  BY MatchesAre DEF IsFirst
<1>2. First(<<s, n>>)
  <2>1. <<s, n>>[1] = s /\ <<s, n>>[2] = n
    OBVIOUS
  <2>2. \A other \in Matches(t, k): s < other[1] \/ (s = other[1] /\ n >= other[2])
    BY MatchesAre DEF IsFirst
  <2>3. QED
    BY <2>1, <2>2
<1>3. ASSUME NEW m \in Matches(t, k), First(m) PROVE m = <<s, n>>
  <2>1. m = <<m[1], m[2]>> /\ IsMatch(t, m[1], m[2])
    BY MatchesAre
  <2>2. m[1] < s \/ (m[1] = s /\ m[2] >= n)
    <3>1. <<s, n>>[1] = s /\ <<s, n>>[2] = n
      OBVIOUS
    <3>2. QED
      BY <1>1, <1>3, <3>1
  <2>3. s < m[1] \/ (s = m[1] /\ n >= m[2])
    <3>1. m[1] >= k
      BY MatchesAre
    <3>2. QED
      BY <2>1, <3>1 DEF IsFirst
  <2>4. s \in Nat /\ n \in Nat /\ m[1] \in Nat /\ m[2] \in Nat
    BY <2>1, Longest DEF IsFirst, IsMatch
  <2>5. m[1] = s /\ m[2] = n
    BY <2>2, <2>3, <2>4
  <2>6. QED
    BY <2>1, <2>5
<1>4. NextMatch(t, k) = CHOOSE m \in Matches(t, k): First(m)
  BY DEF NextMatch
<1>5. QED
  <2> HIDE DEF First
  <2>1. QED
    BY <1>1, <1>2, <1>3, <1>4

(* What flushSafe does from k on, when f says what it does from later on.   *)
CutAt(f, t, b, k) ==
    IF k > b THEN [output |-> <<>>, kept |-> k]
    ELSE IF Matches(t, k) = {} \/ NextMatch(t, k)[1] > b
    THEN [output |-> SubSeq(t, k, b), kept |-> b + 1]
    ELSE LET match == NextMatch(t, k)
             rest == f[match[1] + match[2]]
         IN  [output |-> SubSeq(t, k, match[1] - 1) \o Redacted \o rest.output,
              kept |-> rest.kept]
Cuts(f, t, b, j) == f = [k \in j..(Len(t) + 1) |-> CutAt(f, t, b, k)]
Cut(t, b) == CHOOSE f: Cuts(f, t, b, 1)

LEMMA NextOrNone ==
    ASSUME NEW t \in Seq(Chars), NEW k \in Nat \ {0}
    PROVE \/ Matches(t, k) = {} /\ \A s, n: IsMatch(t, s, n) => ~(s >= k)
          \/ \E s, n: /\ IsFirst(t, k, s, n) /\ Matches(t, k) # {}
                      /\ NextMatch(t, k) = <<s, n>>
                      /\ NextMatch(t, k)[1] = s /\ NextMatch(t, k)[2] = n
                      /\ s \in k..Len(t) /\ n \in Nat \ {0} /\ s + n \in (k + 1)..(Len(t) + 1)
<1>1. CASE Matches(t, k) = {}
  BY <1>1, MatchesAre
<1>2. CASE Matches(t, k) # {}
  <2>1. PICK s, n: IsFirst(t, k, s, n)
    BY <1>2, FirstExists
  <2>2. NextMatch(t, k) = <<s, n>>
    BY <2>1, FirstIsNext
  <2>3. s \in k..Len(t) /\ n \in Nat \ {0} /\ s + n \in (k + 1)..(Len(t) + 1)
    BY <2>1, Longest DEF IsFirst, IsMatch
  <2>4. <<s, n>>[1] = s /\ <<s, n>>[2] = n
    OBVIOUS
  <2>5. QED
    BY <1>2, <2>1, <2>2, <2>3, <2>4
<1>3. QED
  BY <1>1, <1>2

LEMMA CutLater ==
    ASSUME NEW t \in Seq(Chars), NEW b \in Int, NEW k \in Nat \ {0}, NEW f, NEW g,
           \A j \in (k + 1)..(Len(t) + 1): f[j] = g[j]
    PROVE CutAt(f, t, b, k) = CutAt(g, t, b, k)
<1>1. CASE Matches(t, k) = {}
  BY <1>1 DEF CutAt
<1>2. CASE Matches(t, k) # {}
  <2>1. PICK s, n: /\ NextMatch(t, k) = <<s, n>>
                   /\ NextMatch(t, k)[1] = s /\ NextMatch(t, k)[2] = n
                   /\ s + n \in (k + 1)..(Len(t) + 1)
    BY <1>2, NextOrNone
  <2>2. f[s + n] = g[s + n]
    BY <2>1
  <2>3. QED
    BY <2>1, <2>2 DEF CutAt
<1>3. QED
  BY <1>1, <1>2

LEMMA CutIs ==
    ASSUME NEW t \in Seq(Chars), NEW b \in Int, b <= Len(t)
    PROVE /\ Cut(t, b) = [k \in 1..(Len(t) + 1) |-> CutAt(Cut(t, b), t, b, k)]
          /\ \A k \in 1..(Len(t) + 1): Cut(t, b)[k] = CutAt(Cut(t, b), t, b, k)
<1> DEFINE L == Len(t)
           G == {j \in 1..(L + 1): \E f: Cuts(f, t, b, j)}
<1>1. L \in Nat
  OBVIOUS
<1>2. ASSUME NEW k \in 1..(L + 1), \A j \in (k + 1)..(L + 1): j \in G
      PROVE k \in G
  <2>1. \E f: \A j \in (k + 1)..(L + 1): f[j] = CutAt(f, t, b, j)
    <3>1. CASE k = L + 1
      BY <1>1, <3>1
    <3>2. CASE k # L + 1
      <4>1. k + 1 \in (k + 1)..(L + 1)
        BY <1>1, <3>2
      <4>2. PICK f: Cuts(f, t, b, k + 1)
        BY <1>2, <4>1
      <4>3. \A j \in (k + 1)..(L + 1): f[j] = CutAt(f, t, b, j)
        BY <4>2 DEF Cuts
      <4>4. QED
        BY <4>3
    <3>3. QED
      BY <3>1, <3>2
  <2>2. PICK f: \A j \in (k + 1)..(L + 1): f[j] = CutAt(f, t, b, j)
    BY <2>1
  <2> DEFINE g == [j \in k..(L + 1) |-> IF j = k THEN CutAt(f, t, b, k) ELSE f[j]]
  <2>3. g[k] = CutAt(f, t, b, k) /\ \A j \in (k + 1)..(L + 1): g[j] = f[j]
    BY <1>1
  <2>4. g = [j \in k..(L + 1) |-> g[j]]
    OBVIOUS
  <2> HIDE DEF g
  <2>5. ASSUME NEW j \in k..(L + 1) PROVE g[j] = CutAt(g, t, b, j)
    <3>1. \A i \in (j + 1)..(L + 1): f[i] = g[i]
      BY <1>1, <2>3
    <3>2. CutAt(f, t, b, j) = CutAt(g, t, b, j)
      <4>1. j \in Nat \ {0}
        BY <1>1
      <4>2. QED
        BY <3>1, <4>1, CutLater
    <3>3. CASE j = k
      BY <2>3, <3>2, <3>3
    <3>4. CASE j # k
      <4>1. j \in (k + 1)..(L + 1)
        BY <1>1, <3>4
      <4>2. QED
        BY <2>2, <2>3, <3>2, <4>1
    <3>5. QED
      BY <3>3, <3>4
  <2>6. Cuts(g, t, b, k)
    BY <2>4, <2>5 DEF Cuts
  <2>7. QED
    BY <2>6
<1>3. 1 \in G
  <2> HIDE DEF G
  <2>1. \A k \in 1..(L + 1): k \in G
    <3> HIDE DEF L
    <3>1. QED
      BY <1>1, <1>2, Downward
  <2>2. QED
    BY <1>1, <2>1
<1>4. Cuts(Cut(t, b), t, b, 1)
  <2>1. \E f: Cuts(f, t, b, 1)
    BY <1>3
  <2>2. QED
    BY <2>1, Zenon DEF Cut
<1>5. QED
  BY <1>4 DEF Cuts

LEMMA FlushIs ==
    ASSUME NEW t, NEW final
    PROVE Flush(t, final) = Cut(t, FlushBoundary(t, final))[1]
BY DEF Flush, Cut, Cuts, CutAt

CanCut(t, b, k) == t \in Seq(Chars) /\ b \in Int /\ b <= Len(t) /\ k \in 1..(Len(t) + 1)

(* What is put out for a text that is plain from k up to a value at s.      *)
RedactedAt(rest, t, k, s, n) == SubSeq(t, k, s - 1) \o Redacted \o rest[s + n].output

(* The three ways a cut goes on from k: it has come to its end, no value    *)
(* begins before that, or one does.                                         *)
Far(t, k, b) == \A s, n: IsMatch(t, s, n) /\ s >= k => s > b
CutsNone(t, b, k) == Cut(t, b)[k].output = <<>> /\ Cut(t, b)[k].kept = k
CutsPlain(t, b, k) == Cut(t, b)[k].output = SubSeq(t, k, b) /\ Cut(t, b)[k].kept = b + 1
CutsAt(t, b, k, s, n) ==
    /\ s \in k..Len(t) /\ n \in Nat \ {0} /\ s + n \in (k + 1)..(Len(t) + 1)
    /\ Cut(t, b)[k].output = RedactedAt(Cut(t, b), t, k, s, n)
    /\ Cut(t, b)[k].kept = Cut(t, b)[s + n].kept

LEMMA CutEnd ==
    ASSUME NEW t, NEW b, NEW k, CanCut(t, b, k), k > b
    PROVE CutsNone(t, b, k)
<1>1. t \in Seq(Chars) /\ b \in Int /\ b <= Len(t) /\ k \in 1..(Len(t) + 1)
  BY DEF CanCut
<1>2. Cut(t, b)[k] = CutAt(Cut(t, b), t, b, k)
  BY <1>1, CutIs
<1>3. CutAt(Cut(t, b), t, b, k) = [output |-> <<>>, kept |-> k]
  BY DEF CutAt
<1>4. QED
  BY <1>2, <1>3 DEF CutsNone

LEMMA CutPlain ==
    ASSUME NEW t, NEW b, NEW k, CanCut(t, b, k), k <= b, Far(t, k, b)
    PROVE CutsPlain(t, b, k)
<1>1. t \in Seq(Chars) /\ b \in Int /\ b <= Len(t) /\ k \in 1..(Len(t) + 1) /\ k \in Nat \ {0}
  BY DEF CanCut
<1>2. Cut(t, b)[k] = CutAt(Cut(t, b), t, b, k)
  BY <1>1, CutIs
<1>3. Matches(t, k) = {} \/ NextMatch(t, k)[1] > b
  <2>1. CASE \E s, n: IsFirst(t, k, s, n) /\ NextMatch(t, k)[1] = s
    <3>1. PICK s, n: IsFirst(t, k, s, n) /\ NextMatch(t, k)[1] = s
      BY <2>1
    <3>2. QED
      BY <3>1 DEF Far, IsFirst
  <2>2. QED
    BY <1>1, <2>1, NextOrNone
<1> DEFINE x == SubSeq(t, k, b)
<1>4. CutAt(Cut(t, b), t, b, k) = [output |-> x, kept |-> b + 1]
  <2>1. ~(k > b)
    BY <1>1
  <2>2. QED
    BY <1>3, <2>1, Zenon DEF CutAt
<1> HIDE DEF x
<1>5. Cut(t, b)[k].output = x /\ Cut(t, b)[k].kept = b + 1
  BY <1>2, <1>4
<1>6. QED
  BY <1>5 DEF CutsPlain, x

LEMMA CutMatch ==
    ASSUME NEW t, NEW b, NEW k, CanCut(t, b, k), NEW s, NEW n, IsFirst(t, k, s, n), s <= b
    PROVE CutsAt(t, b, k, s, n)
<1>1. t \in Seq(Chars) /\ b \in Int /\ b <= Len(t) /\ k \in 1..(Len(t) + 1) /\ k \in Nat \ {0}
  BY DEF CanCut
<1>2. Cut(t, b)[k] = CutAt(Cut(t, b), t, b, k)
  BY <1>1, CutIs
<1>3. /\ s \in Nat \ {0} /\ s >= k /\ n \in Nat \ {0} /\ s + n - 1 <= Len(t)
  BY Longest DEF IsFirst, IsMatch
<1>4. s \in k..Len(t) /\ s + n \in (k + 1)..(Len(t) + 1) /\ ~(k > b) /\ ~(s > b)
  BY <1>1, <1>3
<1>5. Matches(t, k) # {} /\ NextMatch(t, k)[1] = s /\ NextMatch(t, k)[2] = n
  <2>1. Matches(t, k) # {} /\ NextMatch(t, k) = <<s, n>>
    BY <1>1, FirstIsNext
  <2>2. <<s, n>>[1] = s /\ <<s, n>>[2] = n
    OBVIOUS
  <2>3. QED
    BY <2>1, <2>2
<1> DEFINE x == RedactedAt(Cut(t, b), t, k, s, n)
           y == Cut(t, b)[s + n].kept
<1>6. CutAt(Cut(t, b), t, b, k) = [output |-> x, kept |-> y]
  BY <1>4, <1>5, Zenon DEF CutAt, RedactedAt
<1> HIDE DEF x, y
<1>7. Cut(t, b)[k].output = x /\ Cut(t, b)[k].kept = y
  BY <1>2, <1>6
<1>8. QED
  BY <1>3, <1>4, <1>7 DEF CutsAt, x, y

LEMMA CutCase ==
    ASSUME NEW t, NEW b, NEW k, CanCut(t, b, k)
    PROVE \/ k > b
          \/ k <= b /\ Far(t, k, b)
          \/ \E s, n: IsFirst(t, k, s, n) /\ s <= b
<1>1. t \in Seq(Chars) /\ b \in Int /\ k \in Nat \ {0}
  BY DEF CanCut
<1>2. k > b \/ k <= b
  BY <1>1
<1>3. CASE \A s, n: IsMatch(t, s, n) => ~(s >= k)
  BY <1>2, <1>3 DEF Far
<1>4. CASE \E s, n: IsFirst(t, k, s, n)
  <2>1. PICK s, n: IsFirst(t, k, s, n)
    BY <1>4
  <2>2. s \in Nat
    BY <2>1 DEF IsFirst, IsMatch
  <2>3. CASE s > b
    <3>1. ASSUME NEW r, NEW l, IsMatch(t, r, l), r >= k PROVE r > b
      <4>1. r \in Nat /\ (s < r \/ s = r)
        BY <2>1, <3>1 DEF IsFirst, IsMatch
      <4>2. QED
        BY <1>1, <2>2, <2>3, <4>1
    <3>2. QED
      BY <1>2, <3>1 DEF Far
  <2>4. s > b \/ s <= b
    BY <1>1, <2>2
  <2>5. QED
    BY <2>1, <2>3, <2>4
<1>5. QED
  BY <1>1, <1>3, <1>4, NextOrNone

Marked == Alphabet \union {"#"}

(* The piece of t from k to e.                                              *)
LEMMA SpanIs ==
    ASSUME NEW S, NEW t \in Seq(S), NEW k \in Nat \ {0}, NEW e \in Nat, k <= e + 1, e <= Len(t)
    PROVE /\ SubSeq(t, k, e) \in Seq(S) /\ Len(SubSeq(t, k, e)) = e + 1 - k
          /\ \A i \in 1..(e + 1 - k): SubSeq(t, k, e)[i] = t[k + i - 1]
<1> DEFINE n == e + 1 - k
<1>1. n \in Nat /\ k + n - 1 = e /\ n = e + 1 - k
  OBVIOUS
<1> HIDE DEF n
<1>2. HasPiece(S, t, k, n)
  BY <1>1 DEF HasPiece
<1>3. IsPiece(Piece(t, k, n), S, t, k, n)
  BY <1>2, PieceIs
<1>4. SubSeq(t, k, e) = Piece(t, k, n)
  BY <1>1 DEF Piece
<1>5. QED
  BY <1>1, <1>3, <1>4 DEF IsPiece

LEMMA CutTypes ==
    ASSUME NEW t \in Seq(Alphabet), NEW b \in Int, b <= Len(t)
    PROVE \A k \in 1..(Len(t) + 1):
              Cut(t, b)[k].output \in Seq(Marked) /\ Cut(t, b)[k].kept \in k..(Len(t) + 1)
<1> DEFINE L == Len(t)
           G == {k \in 1..(L + 1):
                     Cut(t, b)[k].output \in Seq(Marked) /\ Cut(t, b)[k].kept \in k..(L + 1)}
<1>1. L \in Nat /\ t \in Seq(Chars) /\ t \in Seq(Marked) /\ Redacted \in Seq(Marked)
  BY SeqMonotonic DEF Chars, Marked, Redacted
<1>2. ASSUME NEW k \in 1..(L + 1), \A j \in (k + 1)..(L + 1): j \in G
      PROVE k \in G
  <2> DEFINE c == Cut(t, b)[k]
  <2>0. c.output \in Seq(Marked) /\ c.kept \in k..(L + 1) => k \in G
    OBVIOUS
  <2> HIDE DEF G, c
  <2>c. CanCut(t, b, k)
    BY <1>1 DEF CanCut
  <2>1. CASE k > b
    <3>1. c.output = <<>> /\ c.kept = k
      BY <2>1, <2>c, CutEnd DEF CutsNone, c
    <3>2. k \in k..(L + 1) /\ <<>> \in Seq(Marked)
      BY <1>1
    <3>3. QED
      BY <2>0, <3>1, <3>2
  <2>2. CASE k <= b /\ Far(t, k, b)
    <3>1. b \in Nat /\ k <= b + 1 /\ b + 1 \in k..(L + 1)
      BY <1>1, <2>2
    <3>2. SubSeq(t, k, b) \in Seq(Marked)
      BY <1>1, <3>1, SpanIs
    <3>3. CutsPlain(t, b, k)
      BY <2>2, <2>c, CutPlain
    <3>4. c.output = SubSeq(t, k, b) /\ c.kept = b + 1
      BY <3>3 DEF CutsPlain, c
    <3>5. QED
      BY <2>0, <3>1, <3>2, <3>4
  <2>3. CASE \E s, n: IsFirst(t, k, s, n) /\ s <= b
    <3>1. PICK s, n: IsFirst(t, k, s, n) /\ s <= b
      BY <2>3
    <3>2. CutsAt(t, b, k, s, n)
      BY <2>c, <3>1, CutMatch
    <3>3. /\ s \in k..L /\ s + n \in (k + 1)..(L + 1)
          /\ c.output = RedactedAt(Cut(t, b), t, k, s, n) /\ c.kept = Cut(t, b)[s + n].kept
      BY <3>2 DEF CutsAt, c
    <3>4. Cut(t, b)[s + n].output \in Seq(Marked) /\ Cut(t, b)[s + n].kept \in (s + n)..(L + 1)
      BY <1>2, <3>3 DEF G
    <3>5. s - 1 \in Nat /\ k <= s - 1 + 1 /\ s - 1 <= L
      BY <1>1, <3>3
    <3>6. SubSeq(t, k, s - 1) \in Seq(Marked)
      BY <1>1, <3>5, SpanIs
    <3>7. RedactedAt(Cut(t, b), t, k, s, n) \in Seq(Marked)
      BY <1>1, <3>4, <3>6, ConcatProperties DEF RedactedAt
    <3>8. Cut(t, b)[s + n].kept \in k..(L + 1)
      BY <1>1, <3>3, <3>4
    <3>9. QED
      BY <2>0, <3>3, <3>7, <3>8
  <2>4. QED
    BY <2>1, <2>2, <2>3, <2>c, CutCase
<1>3. \A k \in 1..(L + 1): k \in G
  <2> HIDE DEF G, L
  <2>1. QED
    BY <1>1, <1>2, Downward
<1>4. QED
  BY <1>3

(* No value stands anywhere in t.                                           *)
Clean(t) == \A s, n: ~IsMatch(t, s, n)

LEMMA CleanStart ==
    ASSUME NEW a \in Seq(Chars), NEW c \in Seq(Chars), Clean(a \o c)
    PROVE Clean(a)
<1> SUFFICES ASSUME NEW s, NEW n, IsMatch(a, s, n) PROVE FALSE
  BY DEF Clean
<1>1. /\ a \o c \in Seq(Chars) /\ Len(a \o c) = Len(a) + Len(c)
      /\ \A i \in 1..Len(a): (a \o c)[i] = a[i]
  BY ConcatProperties
<1>2. s \in Nat \ {0} /\ n \in Nat \ {0} /\ s + n - 1 <= Len(a) /\ Len(a) \in Nat /\ Len(c) \in Nat
  BY Longest DEF IsMatch
<1>3. s + n - 1 <= Len(a \o c) /\ \A i \in 0..(n - 1): a[s + i] = (a \o c)[s + i]
  BY <1>1, <1>2
<1>4. IsMatch(a \o c, s, n)
  <2> DEFINE u == a \o c
  <2> HIDE DEF u
  <2>1. u \in Seq(Chars) /\ s + n - 1 <= Len(u) /\ \A i \in 0..(n - 1): a[s + i] = u[s + i]
    BY <1>1, <1>3 DEF u
  <2>2. IsMatch(u, s, n)
    BY <1>2, <2>1, MatchMoves
  <2>3. QED
    BY <2>2 DEF u
<1>5. QED
  BY <1>4 DEF Clean

LEMMA CleanSpan ==
    ASSUME NEW t \in Seq(Chars), NEW k \in Nat \ {0}, NEW e \in Nat, k <= e + 1, e <= Len(t),
           \A s, n: IsMatch(t, s, n) /\ s >= k => s > e
    PROVE Clean(SubSeq(t, k, e))
<1> DEFINE u == SubSeq(t, k, e)
<1>1. u \in Seq(Chars) /\ Len(u) = e + 1 - k /\ \A i \in 1..(e + 1 - k): u[i] = t[k + i - 1]
  BY SpanIs
<1> HIDE DEF u
<1> SUFFICES ASSUME NEW s, NEW n, IsMatch(u, s, n) PROVE FALSE
  BY DEF Clean, u
<1>2. s \in Nat \ {0} /\ n \in Nat \ {0} /\ s + n - 1 <= Len(u)
  BY Longest DEF IsMatch
<1> DEFINE r == k + s - 1
<1>3. r \in Nat \ {0} /\ r + n - 1 <= Len(t) /\ r >= k /\ r <= e
  BY <1>1, <1>2
<1>4. \A i \in 0..(n - 1): u[s + i] = t[r + i]
  <2> TAKE i \in 0..(n - 1)
  <2>1. s + i \in 1..(e + 1 - k) /\ k + (s + i) - 1 = r + i
    BY <1>1, <1>2
  <2>2. QED
    BY <1>1, <2>1
<1> HIDE DEF r
<1>5. IsMatch(t, r, n)
  BY <1>1, <1>3, <1>4, MatchMoves
<1>6. QED
  BY <1>3, <1>5

(* A mark that is in no value keeps what is before and after it apart.      *)
LEMMA CleanApart ==
    ASSUME NEW a \in Seq(Chars), NEW c \in Seq(Chars), NEW x \in Chars \ Alphabet,
           Clean(a), Clean(c)
    PROVE Clean(a \o <<x>> \o c)
<1> DEFINE u == a \o <<x>> \o c
<1>1. /\ u \in Seq(Chars) /\ Len(u) = Len(a) + 1 + Len(c)
      /\ \A i \in 1..Len(a): u[i] = a[i]
      /\ u[Len(a) + 1] = x
      /\ \A i \in 1..Len(c): u[Len(a) + 1 + i] = c[i]
  <2>1. <<x>> \in Seq(Chars) /\ Len(<<x>>) = 1 /\ <<x>>[1] = x
    OBVIOUS
  <2> DEFINE v == a \o <<x>>
  <2>2. /\ v \in Seq(Chars) /\ Len(v) = Len(a) + 1
        /\ \A i \in 1..Len(a): v[i] = a[i]
        /\ v[Len(a) + 1] = x
    BY <2>1, ConcatProperties
  <2> HIDE DEF v
  <2>3. Len(a) \in Nat /\ Len(c) \in Nat
    OBVIOUS
  <2>4. /\ v \o c \in Seq(Chars) /\ Len(v \o c) = Len(v) + Len(c)
        /\ \A i \in 1..(Len(v) + Len(c)): (v \o c)[i] = IF i <= Len(v) THEN v[i] ELSE c[i - Len(v)]
    BY <2>2, ConcatProperties
  <2>5. \A i \in 1..Len(c): Len(a) + 1 + i - Len(v) = i /\ ~(Len(a) + 1 + i <= Len(v))
    BY <2>2, <2>3
  <2>6. u = v \o c
    BY DEF v
  <2> HIDE DEF u
  <2>7. QED
    BY <2>2, <2>3, <2>4, <2>5, <2>6
<1> HIDE DEF u
<1> SUFFICES ASSUME NEW s, NEW n, IsMatch(u, s, n) PROVE FALSE
  BY DEF Clean, u
<1>2. s \in Nat \ {0} /\ n \in Nat \ {0} /\ s + n - 1 <= Len(u) /\ Len(a) \in Nat /\ Len(c) \in Nat
  BY <1>1, Longest DEF IsMatch
<1>3. \A i \in 0..(n - 1): u[s + i] \in Alphabet
  <2> DEFINE v == Piece(u, s, n)
  <2>0. HasPiece(Chars, u, s, n)
    BY <1>1, <1>2 DEF HasPiece
  <2>p. IsPiece(v, Chars, u, s, n)
    BY <2>0, PieceIs
  <2>1. Len(v) = n /\ \A i \in 1..n: v[i] = u[s + i - 1]
    BY <2>p DEF IsPiece
  <2>2. v \in Seq(Alphabet)
    BY Longest DEF IsMatch, Piece
  <2> HIDE DEF v
  <2> TAKE i \in 0..(n - 1)
  <2>3. i + 1 \in 1..n /\ s + (i + 1) - 1 = s + i
    BY <1>2
  <2>4. v[i + 1] \in Alphabet
    BY <2>1, <2>2, <2>3
  <2>5. QED
    BY <2>1, <2>3, <2>4
<1>4. CASE s + n - 1 <= Len(a)
  <2>1. \A i \in 0..(n - 1): u[s + i] = a[s + i]
    <3> TAKE i \in 0..(n - 1)
    <3>1. s + i \in 1..Len(a)
      BY <1>2, <1>4
    <3>2. QED
      BY <1>1, <3>1
  <2>2. IsMatch(a, s, n)
    <3>1. s + n - 1 <= Len(a) /\ s \in Nat \ {0} /\ u \in Seq(Chars)
      BY <1>1, <1>2, <1>4
    <3>2. QED
      BY <2>1, <3>1, MatchMoves
  <2>3. QED
    BY <2>2 DEF Clean
<1>5. CASE s > Len(a) + 1
  <2> DEFINE r == s - (Len(a) + 1)
  <2>1. r \in Nat \ {0} /\ r + n - 1 <= Len(c)
    BY <1>1, <1>2, <1>5
  <2>2. \A i \in 0..(n - 1): u[s + i] = c[r + i]
    <3> TAKE i \in 0..(n - 1)
    <3>1. r + i \in 1..Len(c) /\ Len(a) + 1 + (r + i) = s + i
      BY <1>2, <2>1
    <3>2. QED
      BY <1>1, <3>1
  <2> HIDE DEF r
  <2>3. IsMatch(c, r, n)
    BY <1>1, <2>1, <2>2, MatchMoves
  <2>4. QED
    BY <2>3 DEF Clean
<1>6. CASE s <= Len(a) + 1 /\ s + n - 1 > Len(a)
  <2>1. Len(a) + 1 - s \in 0..(n - 1) /\ s + (Len(a) + 1 - s) = Len(a) + 1
    BY <1>2, <1>6
  <2>2. x \in Alphabet
    BY <1>1, <1>3, <2>1
  <2>3. QED
    BY <2>2
<1>7. QED
  BY <1>2, <1>4, <1>5, <1>6

(* The whole of a text leaves nothing behind, and no value in what is put out. *)
LEMMA CutClean ==
    ASSUME NEW t \in Seq(Alphabet)
    PROVE \A k \in 1..(Len(t) + 1):
              Clean(Cut(t, Len(t))[k].output) /\ Cut(t, Len(t))[k].kept = Len(t) + 1
<1> DEFINE L == Len(t)
           G == {k \in 1..(L + 1): Clean(Cut(t, L)[k].output) /\ Cut(t, L)[k].kept = L + 1}
<1>1. L \in Nat /\ L \in Int /\ t \in Seq(Chars) /\ L = Len(t)
  BY SeqMonotonic DEF Chars
<1> HIDE DEF L
<1>2. ASSUME NEW k \in 1..(L + 1), \A j \in (k + 1)..(L + 1): j \in G
      PROVE k \in G
  <2> DEFINE c == Cut(t, L)[k]
  <2>0. Clean(c.output) /\ c.kept = L + 1 => k \in G
    OBVIOUS
  <2>1. k \in Nat \ {0} /\ k \in 1..(Len(t) + 1) /\ L <= Len(t)
    BY <1>1
  <2>c. CanCut(t, L, k)
    BY <1>1, <2>1 DEF CanCut
  <2>2. CASE k > L
    <3>1. c.output = <<>> /\ c.kept = k
      BY <2>2, <2>c, CutEnd DEF CutsNone
    <3>2. k = L + 1
      BY <1>1, <2>2
    <3>3. Clean(<<>>)
      BY Longest DEF Clean, IsMatch
    <3> HIDE DEF c, G
    <3>4. QED
      BY <2>0, <3>1, <3>2, <3>3
  <2>3. CASE k <= L /\ Far(t, k, L)
    <3>1. c.output = SubSeq(t, k, L) /\ c.kept = L + 1
      BY <2>3, <2>c, CutPlain DEF CutsPlain
    <3>2. k <= L + 1
      BY <1>1
    <3>3. Clean(SubSeq(t, k, L))
      BY <1>1, <2>1, <2>3, <3>2, CleanSpan DEF Far
    <3> HIDE DEF c, G
    <3>4. QED
      BY <2>0, <3>1, <3>3
  <2>4. CASE \E s, n: IsFirst(t, k, s, n) /\ s <= L
    <3>1. PICK s, n: IsFirst(t, k, s, n) /\ s <= L
      BY <2>4
    <3>2. /\ s \in k..L /\ n \in Nat \ {0} /\ s + n \in (k + 1)..(L + 1)
          /\ c.output = RedactedAt(Cut(t, L), t, k, s, n)
          /\ c.kept = Cut(t, L)[s + n].kept
      <4>1. CutsAt(t, L, k, s, n)
        BY <2>c, <3>1, CutMatch
      <4>2. QED
        BY <1>1, <4>1 DEF CutsAt
    <3>3. Clean(Cut(t, L)[s + n].output) /\ Cut(t, L)[s + n].kept = L + 1
      BY <1>2, <3>2
    <3>4. s - 1 \in Nat /\ k <= s - 1 + 1 /\ s - 1 <= Len(t) /\ s \in Nat
      BY <1>1, <3>2
    <3>5. SubSeq(t, k, s - 1) \in Seq(Chars)
      BY <1>1, <2>1, <3>4, SpanIs
    <3>6. Clean(SubSeq(t, k, s - 1))
      <4>1. \A r, l: IsMatch(t, r, l) /\ r >= k => r > s - 1
        <5> SUFFICES ASSUME NEW r, NEW l, IsMatch(t, r, l), r >= k PROVE r > s - 1
          OBVIOUS
        <5>1. s < r \/ s = r
          BY <3>1 DEF IsFirst
        <5>2. r \in Nat
          BY DEF IsMatch
        <5>3. QED
          BY <3>4, <5>1, <5>2
      <4>2. QED
        BY <1>1, <2>1, <3>4, <4>1, CleanSpan
    <3>7. Cut(t, L)[s + n].output \in Seq(Chars)
      <4>1. Cut(t, L)[s + n].output \in Seq(Marked)
        <5>1. s + n \in 1..(Len(t) + 1)
          BY <1>1, <3>2
        <5>2. QED
          BY <1>1, <2>1, <5>1, CutTypes
      <4>2. Marked \subseteq Chars
        BY DEF Marked, Chars
      <4>3. QED
        BY <4>1, <4>2, SeqMonotonic
    <3>8. "#" \in Chars \ Alphabet
      BY RedactorAssumption DEF Chars
    <3>9. Clean(RedactedAt(Cut(t, L), t, k, s, n))
      BY <3>3, <3>5, <3>6, <3>7, <3>8, CleanApart DEF Redacted, RedactedAt
    <3> HIDE DEF c, G
    <3>10. QED
      BY <2>0, <3>2, <3>3, <3>9
  <2> HIDE DEF c, G
  <2>5. QED
    BY <2>2, <2>3, <2>4, <2>c, CutCase
<1>3. \A k \in 1..(L + 1): k \in G
  <2> HIDE DEF G
  <2>1. QED
    BY <1>1, <1>2, Downward
<1>4. QED
  BY <1>1, <1>3

(* Two pieces side by side.                                                 *)
LEMMA Glue ==
    ASSUME NEW S, NEW t \in Seq(S), NEW k \in Nat \ {0}, NEW e \in Nat, NEW f \in Nat,
           k <= e + 1, e <= f, f <= Len(t)
    PROVE SubSeq(t, k, e) \o SubSeq(t, e + 1, f) = SubSeq(t, k, f)
<1> DEFINE x == SubSeq(t, k, e)
           y == SubSeq(t, e + 1, f)
           z == SubSeq(t, k, f)
<1>1. e <= Len(t) /\ k <= f + 1 /\ e + 1 \in Nat \ {0} /\ e + 1 <= f + 1
  OBVIOUS
<1>2. /\ x \in Seq(S) /\ Len(x) = e + 1 - k
      /\ \A i \in 1..(e + 1 - k): x[i] = t[k + i - 1]
  BY <1>1, SpanIs
<1>3. /\ y \in Seq(S) /\ Len(y) = f + 1 - (e + 1)
      /\ \A i \in 1..(f + 1 - (e + 1)): y[i] = t[e + 1 + i - 1]
  BY <1>1, SpanIs
<1>4. /\ z \in Seq(S) /\ Len(z) = f + 1 - k
      /\ \A i \in 1..(f + 1 - k): z[i] = t[k + i - 1]
  BY <1>1, SpanIs
<1> HIDE DEF x, y, z
<1>5. /\ x \o y \in Seq(S) /\ Len(x \o y) = Len(x) + Len(y)
      /\ \A i \in 1..(Len(x) + Len(y)): (x \o y)[i] = IF i <= Len(x) THEN x[i] ELSE y[i - Len(x)]
  BY <1>2, <1>3, ConcatProperties
<1>6. Len(x \o y) = Len(z)
  BY <1>2, <1>3, <1>4, <1>5
<1>7. ASSUME NEW i \in 1..Len(z) PROVE (x \o y)[i] = z[i]
  <2>1. CASE i <= Len(x)
    <3>1. i \in 1..(e + 1 - k) /\ i \in 1..(f + 1 - k) /\ i \in 1..(Len(x) + Len(y))
      BY <1>2, <1>3, <1>4, <2>1
    <3>2. QED
      BY <1>2, <1>4, <1>5, <2>1, <3>1
  <2>2. CASE ~(i <= Len(x))
    <3>1. /\ i - Len(x) \in 1..(f + 1 - (e + 1)) /\ i \in 1..(f + 1 - k)
          /\ i \in 1..(Len(x) + Len(y)) /\ e + 1 + (i - Len(x)) - 1 = k + i - 1
      BY <1>2, <1>3, <1>4, <2>2
    <3>2. y[i - Len(x)] = t[k + i - 1]
      BY <1>3, <3>1
    <3>3. QED
      BY <1>4, <1>5, <2>2, <3>1, <3>2
  <2>3. QED
    BY <2>1, <2>2
<1>8. x \o y = z
  BY <1>4, <1>5, <1>6, <1>7, SeqEqual
<1>9. QED
  BY <1>8 DEF x, y, z

Alike(t, u, k, r, n) == \A i \in 0..(n - 1): t[k + i] = u[r + i]

LEMMA SamePiece ==
    ASSUME NEW t \in Seq(Chars), NEW u \in Seq(Chars), NEW k \in Nat \ {0}, NEW r \in Nat \ {0},
           NEW n \in Nat, k + n - 1 <= Len(t), r + n - 1 <= Len(u),
           Alike(t, u, k, r, n)
    PROVE Piece(t, k, n) = Piece(u, r, n)
<1> DEFINE x == Piece(t, k, n)
           y == Piece(u, r, n)
<1>0. HasPiece(Chars, t, k, n) /\ HasPiece(Chars, u, r, n)
  BY DEF HasPiece
<1>p. IsPiece(x, Chars, t, k, n) /\ IsPiece(y, Chars, u, r, n)
  BY <1>0, PieceIs
<1> HIDE DEF x, y
<1>1. /\ x \in Seq(Chars) /\ Len(x) = n
      /\ \A i \in 1..n: x[i] = t[k + i - 1]
  BY <1>p DEF IsPiece
<1>2. /\ y \in Seq(Chars) /\ Len(y) = n
      /\ \A i \in 1..n: y[i] = u[r + i - 1]
  BY <1>p DEF IsPiece
<1>3. ASSUME NEW i \in 1..n PROVE x[i] = y[i]
  <2>1. i - 1 \in 0..(n - 1) /\ k + i - 1 = k + (i - 1) /\ r + i - 1 = r + (i - 1)
    OBVIOUS
  <2>2. t[k + (i - 1)] = u[r + (i - 1)]
    BY <2>1 DEF Alike
  <2>3. QED
    BY <1>1, <1>2, <2>1, <2>2
<1>4. x = y
  BY <1>1, <1>2, <1>3, SeqEqual
<1>5. QED
  BY <1>4 DEF x, y

LEMMA FirstOrFar ==
    ASSUME NEW t \in Seq(Chars), NEW k \in Nat \ {0}
    PROVE (\E s, n: IsFirst(t, k, s, n)) \/ (\A s, n: IsMatch(t, s, n) => ~(s >= k))
BY NextOrNone

(* What is put out from k on depends on the text from k on alone.           *)
LEMMA CutShift ==
    ASSUME NEW t \in Seq(Chars), NEW u \in Seq(Chars), NEW p \in Nat \ {0},
           p <= Len(t) + 1, Len(u) = Len(t) + 1 - p,
           \A i \in 1..Len(u): u[i] = t[p + i - 1]
    PROVE \A k \in 1..(Len(u) + 1):
              Cut(u, Len(u))[k].output = Cut(t, Len(t))[k + p - 1].output
<1> DEFINE N == Len(t)
           L == Len(u)
           G == {k \in 1..(L + 1): Cut(u, L)[k].output = Cut(t, N)[k + p - 1].output}
<1>1. /\ N \in Nat /\ L \in Nat /\ p <= N + 1 /\ L = N + 1 - p
      /\ \A i \in 1..(N + 1 - p): u[i] = t[p + i - 1]
      /\ L = Len(u) /\ N = Len(t)
  OBVIOUS
<1>2. L = Len(u) /\ N = Len(t)
  OBVIOUS
<1> HIDE DEF N, L
<1>3. ASSUME NEW s, NEW n, IsMatch(u, s, n) PROVE IsMatch(t, s + p - 1, n)
  <2>1. s \in Nat \ {0} /\ n \in Nat \ {0} /\ s + n - 1 <= L
    BY <1>2, <1>3, Longest DEF IsMatch
  <2>2. s + p - 1 \in Nat \ {0} /\ s + p - 1 + n - 1 <= Len(t)
    BY <1>1, <1>2, <2>1
  <2>3. \A i \in 0..(n - 1): u[s + i] = t[s + p - 1 + i]
    <3> TAKE i \in 0..(n - 1)
    <3>1. s + i \in 1..(N + 1 - p) /\ p + (s + i) - 1 = s + p - 1 + i
      BY <1>1, <2>1
    <3>2. QED
      BY <1>1, <3>1
  <2> DEFINE r == s + p - 1
  <2> HIDE DEF r
  <2>4. r \in Nat \ {0} /\ r + n - 1 <= Len(t) /\ \A i \in 0..(n - 1): u[s + i] = t[r + i]
    BY <2>2, <2>3 DEF r
  <2>5. IsMatch(t, r, n)
    BY <1>2, <1>3, <2>4, MatchMoves
  <2>6. QED
    BY <2>5 DEF r
<1>4. ASSUME NEW r, NEW n, IsMatch(t, r, n), r >= p PROVE IsMatch(u, r - p + 1, n)
  <2>1. r \in Nat \ {0} /\ n \in Nat \ {0} /\ r + n - 1 <= N
    BY <1>2, <1>4, Longest DEF IsMatch
  <2>2. r - p + 1 \in Nat \ {0} /\ r - p + 1 + n - 1 <= L
    BY <1>1, <1>4, <2>1
  <2>3. \A i \in 0..(n - 1): t[r + i] = u[r - p + 1 + i]
    <3> TAKE i \in 0..(n - 1)
    <3>1. r - p + 1 + i \in 1..(N + 1 - p) /\ p + (r - p + 1 + i) - 1 = r + i
      BY <1>1, <1>4, <2>1
    <3>2. QED
      BY <1>1, <3>1
  <2> DEFINE s == r - p + 1
  <2> HIDE DEF s
  <2>4. s \in Nat \ {0} /\ s + n - 1 <= Len(u) /\ \A i \in 0..(n - 1): t[r + i] = u[s + i]
    BY <1>2, <2>2, <2>3 DEF s
  <2>5. IsMatch(u, s, n)
    BY <1>2, <1>4, <2>4, MatchMoves
  <2>6. QED
    BY <2>5 DEF s
<1>5. ASSUME NEW k \in 1..(L + 1), \A j \in (k + 1)..(L + 1): j \in G
      PROVE k \in G
  <2>q. PICK q \in Nat \ {0}: q = k + p - 1
    BY <1>1
  <2>0. Cut(u, L)[k].output = Cut(t, N)[q].output => k \in G
    BY <2>q
  <2>1. /\ q = k + p - 1
        /\ k \in Nat \ {0} /\ q \in Nat \ {0} /\ k \in 1..(L + 1) /\ q \in 1..(N + 1)
        /\ L \in Int /\ L <= L /\ N \in Int /\ N <= N /\ q >= p
        /\ (k > L <=> q > N) /\ (k <= L <=> q <= N) /\ L \in Nat
    BY <1>1, <2>q
  <2>c. CanCut(u, L, k) /\ CanCut(t, N, q)
    BY <1>2, <2>1 DEF CanCut
  <2>2. CASE k > L
    <3> HIDE DEF G
    <3>1. Cut(u, L)[k].output = <<>>
      BY <2>1, <2>2, <2>c, CutEnd DEF CutsNone
    <3>2. Cut(t, N)[q].output = <<>>
      BY <2>1, <2>2, <2>c, CutEnd DEF CutsNone
    <3>3. QED
      BY <2>0, <3>1, <3>2
  <2>3. CASE k <= L /\ Far(u, k, L)
    <3>1. \A r, n: IsMatch(t, r, n) /\ r >= q => FALSE
      <4> SUFFICES ASSUME NEW r, NEW n, IsMatch(t, r, n), r >= q PROVE FALSE
        OBVIOUS
      <4>1. r \in Nat
        BY DEF IsMatch
      <4>2. r >= p /\ r - p + 1 >= k
        BY <1>1, <2>1, <4>1
      <4>3. IsMatch(u, r - p + 1, n)
        BY <1>4, <4>2
      <4>4. QED
        <5>1. r - p + 1 > L
          BY <2>3, <4>2, <4>3 DEF Far
        <5>2. r <= N
          BY <1>2, Longest DEF IsMatch
        <5>3. QED
          BY <1>1, <4>1, <5>1, <5>2
    <3>2. Cut(u, L)[k].output = SubSeq(u, k, L)
      BY <2>3, <2>c, CutPlain DEF CutsPlain
    <3>3. Cut(t, N)[q].output = SubSeq(t, q, N)
      <4> HIDE DEF G
      <4>1. q <= N
        BY <2>1, <2>3
      <4>2. Far(t, q, N)
        BY <3>1 DEF Far
      <4>3. QED
        BY <2>c, <4>1, <4>2, CutPlain DEF CutsPlain
    <3>4. SubSeq(u, k, L) = SubSeq(t, q, N)
      <4>n. PICK n \in Nat: n = L + 1 - k
        <5>1. L + 1 - k \in Nat
          BY <2>1
        <5>2. QED
          BY <5>1
      <4>1. /\ k + n - 1 = L /\ q + n - 1 = N /\ n \in Nat
            /\ k + n - 1 <= Len(u) /\ q + n - 1 <= Len(t)
        BY <1>1, <1>2, <2>1, <4>n
      <4>2. Alike(u, t, k, q, n)
        <5> SUFFICES \A i \in 0..(n - 1): u[k + i] = t[q + i]
          BY DEF Alike
        <5> TAKE i \in 0..(n - 1)
        <5>1. k + i \in 1..(N + 1 - p) /\ p + (k + i) - 1 = q + i
          BY <1>1, <2>1, <4>n
        <5>2. QED
          BY <1>1, <5>1
      <4> HIDE DEF G
      <4>3. Piece(u, k, n) = Piece(t, q, n)
        <5>1. k \in Nat \ {0} /\ k + n - 1 <= Len(u) /\ q + n - 1 <= Len(t)
          BY <2>1, <4>1
        <5>2. QED
          BY <4>2, <5>1, SamePiece
      <4>4. QED
        BY <4>1, <4>3 DEF Piece
    <3> HIDE DEF G
    <3>5. QED
      BY <2>0, <3>2, <3>3, <3>4
  <2>4. CASE \E s, n: IsFirst(u, k, s, n) /\ s <= L
    <3>1. PICK s, n: IsFirst(u, k, s, n) /\ s <= L
      BY <2>4
    <3>2. s \in Nat \ {0} /\ n \in Nat \ {0} /\ s <= L /\ s >= k /\ s + n - 1 <= L
      BY <1>2, <2>1, <3>1, Longest DEF IsFirst, IsMatch
    <3> DEFINE r == s + p - 1
    <3>3. /\ r \in Nat /\ r >= q /\ r <= N /\ r - 1 \in Nat /\ s - 1 \in Nat /\ q <= r - 1 + 1
          /\ k <= s - 1 + 1
          /\ s - 1 <= L /\ r - 1 <= N /\ r - 1 - q = s - 1 - k /\ s + n + p - 1 = r + n
      BY <1>1, <2>1, <3>2
    <3>4. IsFirst(t, q, r, n)
      <4>1. IsMatch(t, r, n)
        BY <1>3, <3>1 DEF IsFirst
      <4>2. ASSUME NEW r2, NEW n2, IsMatch(t, r2, n2), r2 >= q
            PROVE r < r2 \/ (r = r2 /\ n >= n2)
        <5>1. r2 \in Nat
          BY <4>2 DEF IsMatch
        <5>2. r2 >= p /\ r2 - p + 1 >= k
          BY <1>1, <2>1, <4>2, <5>1
        <5>3. IsMatch(u, r2 - p + 1, n2)
          BY <1>4, <4>2, <5>2
        <5>4. s < r2 - p + 1 \/ (s = r2 - p + 1 /\ n >= n2)
          BY <3>1, <5>2, <5>3 DEF IsFirst
        <5>5. QED
          BY <1>1, <3>2, <5>1, <5>4
      <4> HIDE DEF r, G
      <4>3. QED
        BY <3>3, <4>1, <4>2 DEF IsFirst
    <3>5. /\ Cut(u, L)[k].output = RedactedAt(Cut(u, L), u, k, s, n)
          /\ s + n \in (k + 1)..(L + 1)
      <4>1. CutsAt(u, L, k, s, n)
        BY <2>c, <3>1, <3>2, CutMatch
      <4>2. QED
        BY <1>2, <4>1 DEF CutsAt
    <3>6. Cut(t, N)[q].output = RedactedAt(Cut(t, N), t, q, r, n)
      <4> HIDE DEF r, G
      <4>1. CutsAt(t, N, q, r, n)
        BY <2>c, <3>3, <3>4, CutMatch
      <4>2. QED
        BY <4>1 DEF CutsAt
    <3>7. Cut(u, L)[s + n].output = Cut(t, N)[r + n].output
      <4>1. Cut(u, L)[s + n].output = Cut(t, N)[s + n + p - 1].output
        BY <1>5, <3>5
      <4>2. QED
        BY <3>3, <4>1
    <3>8. SubSeq(u, k, s - 1) = SubSeq(t, q, r - 1)
      <4>m. PICK m \in Nat: m = s - k
        BY <3>2, <2>1
      <4>1. /\ k + m - 1 = s - 1 /\ q + m - 1 = r - 1 /\ m \in Nat
            /\ k + m - 1 <= Len(u) /\ q + m - 1 <= Len(t)
        BY <1>1, <1>2, <2>1, <3>2, <3>3, <4>m
      <4>2. Alike(u, t, k, q, m)
        <5> SUFFICES \A i \in 0..(m - 1): u[k + i] = t[q + i]
          BY DEF Alike
        <5> TAKE i \in 0..(m - 1)
        <5>1. i \in Int /\ 0 <= i /\ i <= s - k - 1
          BY <2>1, <3>2, <4>m
        <5>2. k + i \in 1..(N + 1 - p) /\ p + (k + i) - 1 = q + i
          BY <1>1, <2>1, <3>2, <5>1
        <5>3. QED
          BY <1>1, <5>2
      <4> HIDE DEF r, G
      <4>3. Piece(u, k, m) = Piece(t, q, m)
        <5>1. k \in Nat \ {0} /\ q \in Nat \ {0} /\ k + m - 1 <= Len(u) /\ q + m - 1 <= Len(t)
          BY <2>1, <4>1
        <5>2. QED
          BY <4>2, <5>1, SamePiece
      <4>4. QED
        BY <4>1, <4>3 DEF Piece
    <3> HIDE DEF G, r
    <3>9. QED
      BY <2>0, <3>5, <3>6, <3>7, <3>8 DEF RedactedAt
  <2> HIDE DEF G
  <2>5. QED
    BY <2>2, <2>3, <2>4, <2>c, CutCase
<1>6. \A k \in 1..(L + 1): k \in G
  <2> HIDE DEF G
  <2>1. L \in Nat
    BY <1>1, <1>2
  <2>2. QED
    BY <1>5, <2>1, Downward
<1>7. QED
  BY <1>6 DEF L, N

LEMMA NoTail ==
    ASSUME NEW S, NEW t \in Seq(S), NEW d \in Seq(S)
    PROVE /\ t \o d \in Seq(S) /\ Len(t \o d) = Len(t) + Len(d)
          /\ \A i \in 1..Len(t): (t \o d)[i] = t[i]
          /\ \A i \in 1..Len(d): (t \o d)[Len(t) + i] = d[i]
<1>1. /\ t \o d \in Seq(S) /\ Len(t \o d) = Len(t) + Len(d)
      /\ \A i \in 1..(Len(t) + Len(d)): (t \o d)[i] = IF i <= Len(t) THEN t[i] ELSE d[i - Len(t)]
  BY ConcatProperties
<1>2. Len(t) \in Nat /\ Len(d) \in Nat
  OBVIOUS
<1>3. \A i \in 1..Len(t): (t \o d)[i] = t[i]
  BY <1>1, <1>2
<1>4. ASSUME NEW i \in 1..Len(d) PROVE (t \o d)[Len(t) + i] = d[i]
  <2>1. Len(t) + i \in 1..(Len(t) + Len(d)) /\ ~(Len(t) + i <= Len(t)) /\ Len(t) + i - Len(t) = i
    BY <1>2
  <2>2. QED
    BY <1>1, <2>1
<1>5. QED
  BY <1>1, <1>3, <1>4

LEMMA Associates ==
    ASSUME NEW a \in Seq(Chars), NEW x \in Seq(Chars), NEW d \in Seq(Chars)
    PROVE (a \o x) \o d = a \o (x \o d)
BY ConcatAssociative

LEMMA Joined ==
    ASSUME NEW a \in Seq(Chars), NEW c \in Seq(Chars), NEW d \in Seq(Chars)
    PROVE /\ (a \o Redacted \o c) \o d = a \o Redacted \o (c \o d)
          /\ a \o (c \o Redacted \o d) = (a \o c) \o Redacted \o d
<1>1. Redacted \in Seq(Chars)
  BY DEF Redacted, Chars
<1> HIDE DEF Redacted
<1>2. (a \o Redacted \o c) \o d = a \o Redacted \o (c \o d)
  <2> DEFINE x == a \o Redacted
  <2>1. x \in Seq(Chars)
    BY <1>1, ConcatProperties
  <2> HIDE DEF x
  <2>2. (x \o c) \o d = x \o (c \o d)
    BY <2>1, Associates
  <2>3. QED
    BY <2>2 DEF x
<1>3. a \o (c \o Redacted \o d) = (a \o c) \o Redacted \o d
  <2> DEFINE x == c \o Redacted
  <2>1. x \in Seq(Chars)
    BY <1>1, ConcatProperties
  <2>2. (a \o c) \o Redacted = a \o x
    BY <1>1, Associates
  <2> HIDE DEF x
  <2>3. (a \o x) \o d = a \o (x \o d)
    BY <2>1, Associates
  <2>4. a \o (x \o d) = ((a \o c) \o Redacted) \o d
    BY <2>2, <2>3
  <2>5. QED
    BY <2>4 DEF x
<1>4. QED
  BY <1>2, <1>3

(* u begins with t.                                                         *)
Starts(t, u) == Len(t) <= Len(u) /\ \A i \in 1..Len(t): t[i] = u[i]

(* A boundary that no value can reach over.                                 *)
Safe(t, b) == b <= Len(t) /\ \A n \in 1..MaximumValueLength: b + n - 1 <= Len(t)

LEMMA StartMatches ==
    ASSUME NEW t \in Seq(Chars), NEW u \in Seq(Chars), Starts(t, u), NEW b \in Int, Safe(t, b)
    PROVE /\ \A s, n: IsMatch(t, s, n) => IsMatch(u, s, n)
          /\ \A s, n: IsMatch(u, s, n) /\ s <= b => IsMatch(t, s, n)
<1>0. Len(t) \in Nat /\ Len(u) \in Nat /\ Len(t) <= Len(u) /\ b <= Len(t)
  BY DEF Starts, Safe
<1>1. ASSUME NEW s, NEW n, IsMatch(t, s, n) PROVE IsMatch(u, s, n)
  <2>1. s \in Nat \ {0} /\ n \in Nat \ {0} /\ s + n - 1 <= Len(t)
    BY <1>1, Longest DEF IsMatch
  <2>2. s + n - 1 <= Len(u)
    BY <1>0, <2>1
  <2>3. \A i \in 0..(n - 1): t[s + i] = u[s + i]
    <3> TAKE i \in 0..(n - 1)
    <3>1. s + i \in 1..Len(t)
      BY <1>0, <2>1
    <3>2. QED
      BY <3>1 DEF Starts
  <2>4. QED
    BY <1>1, <2>1, <2>2, <2>3, MatchMoves
<1>2. ASSUME NEW s, NEW n, IsMatch(u, s, n), s <= b PROVE IsMatch(t, s, n)
  <2>1. s \in Nat \ {0} /\ n \in Nat \ {0} /\ n \in 1..MaximumValueLength
    BY <1>2, Longest DEF IsMatch
  <2>2. b + n - 1 <= Len(t)
    BY <2>1 DEF Safe
  <2>3. s + n - 1 <= Len(t)
    BY <1>0, <1>2, <2>1, <2>2
  <2>4. \A i \in 0..(n - 1): u[s + i] = t[s + i]
    <3> TAKE i \in 0..(n - 1)
    <3>1. s + i \in 1..Len(t)
      BY <1>0, <2>1, <2>3
    <3>2. QED
      BY <3>1 DEF Starts
  <2>5. QED
    BY <1>2, <2>1, <2>3, <2>4, MatchMoves
<1>3. QED
  BY <1>1, <1>2

IsSpan(t, k, e) == k \in Nat \ {0} /\ e \in Nat /\ k <= e + 1 /\ e <= Len(t)
SameSpan(t, u, k, e) == SubSeq(t, k, e) = SubSeq(u, k, e)

LEMMA StartPiece ==
    ASSUME NEW t \in Seq(Chars), NEW u \in Seq(Chars), Starts(t, u),
           NEW k, NEW e, IsSpan(t, k, e)
    PROVE SameSpan(t, u, k, e)
<1>0. k \in Nat \ {0} /\ e \in Nat /\ k <= e + 1 /\ e <= Len(t)
  BY DEF IsSpan
<1>n. PICK n \in Nat: n = e + 1 - k
  <2>1. e + 1 - k \in Nat
    BY <1>0
  <2>2. QED
    BY <2>1
<1>1. k + n - 1 = e /\ k + n - 1 <= Len(t) /\ k + n - 1 <= Len(u)
  BY <1>0, <1>n DEF Starts
<1>2. Alike(t, u, k, k, n)
  <2> SUFFICES ASSUME NEW i \in 0..(n - 1) PROVE t[k + i] = u[k + i]
    BY DEF Alike
  <2>1. k + i \in 1..Len(t)
    BY <1>0, <1>1
  <2>2. QED
    BY <2>1 DEF Starts
<1>3. Piece(t, k, n) = Piece(u, k, n)
  BY <1>0, <1>1, <1>2, SamePiece
<1>4. QED
  BY <1>1, <1>3 DEF Piece, SameSpan

LEMMA FirstEarlier ==
    ASSUME NEW t \in Seq(Chars), NEW k \in Nat \ {0}, NEW p \in Nat, k <= p,
           NEW s, NEW n, IsFirst(t, p, s, n), \A r, l: IsMatch(t, r, l) /\ r >= k => r >= p
    PROVE IsFirst(t, k, s, n)
<1>1. IsMatch(t, s, n) /\ s >= p /\ s \in Nat
  BY DEF IsFirst, IsMatch
<1>2. s >= k
  BY <1>1
<1>3. QED
  BY <1>1, <1>2 DEF IsFirst

(* What is put out of t, and then of what it keeps and what follows, is     *)
(* what is put out of both at once.                                         *)
LEMMA CutStream ==
    ASSUME NEW t \in Seq(Alphabet), NEW u \in Seq(Alphabet), Starts(t, u), NEW b \in Int, Safe(t, b)
    PROVE \A k \in 1..(Len(t) + 1):
              Cut(u, Len(u))[k].output =
                  Cut(t, b)[k].output \o Cut(u, Len(u))[Cut(t, b)[k].kept].output
<1> DEFINE N == Len(t)
           L == Len(u)
           G == {k \in 1..(N + 1):
                     Cut(u, L)[k].output = Cut(t, b)[k].output \o Cut(u, L)[Cut(t, b)[k].kept].output}
<1>1. /\ N \in Nat /\ L \in Nat /\ N <= L /\ b <= N /\ L = Len(u) /\ N = Len(t)
      /\ t \in Seq(Chars) /\ u \in Seq(Chars) /\ L <= Len(u)
  BY SeqMonotonic DEF Starts, Safe, Chars
<1>t. /\ \A j \in 1..(N + 1): Cut(t, b)[j].output \in Seq(Chars) /\ Cut(t, b)[j].kept \in j..(N + 1)
      /\ \A j \in 1..(L + 1): Cut(u, L)[j].output \in Seq(Chars)
  <2>1. Marked \subseteq Chars
    BY DEF Marked, Chars
  <2>2. Seq(Marked) \subseteq Seq(Chars)
    BY <2>1, SeqMonotonic
  <2>3. ASSUME NEW j \in 1..(N + 1)
        PROVE Cut(t, b)[j].output \in Seq(Chars) /\ Cut(t, b)[j].kept \in j..(N + 1)
    <3>1. Cut(t, b)[j].output \in Seq(Marked) /\ Cut(t, b)[j].kept \in j..(Len(t) + 1)
      BY <1>1, CutTypes
    <3>2. QED
      BY <1>1, <2>2, <3>1
  <2>4. ASSUME NEW j \in 1..(L + 1) PROVE Cut(u, L)[j].output \in Seq(Chars)
    <3>1. Cut(u, L)[j].output \in Seq(Marked)
      BY <1>1, CutTypes
    <3>2. QED
      BY <2>2, <3>1
  <2>5. QED
    BY <2>3, <2>4
<1> HIDE DEF N, L
<1>2. ASSUME NEW k \in 1..(N + 1), \A j \in (k + 1)..(N + 1): j \in G
      PROVE k \in G
  <2>0. (Cut(u, L)[k].output = Cut(t, b)[k].output \o Cut(u, L)[Cut(t, b)[k].kept].output) => k \in G
    OBVIOUS
  <2>1. k \in Nat \ {0} /\ k \in 1..(Len(t) + 1) /\ k \in 1..(L + 1) /\ k \in 1..(Len(u) + 1)
    BY <1>1
  <2> HIDE DEF G
  <2>c. CanCut(t, b, k) /\ CanCut(u, L, k)
    BY <1>1, <2>1 DEF CanCut
  <2>2. CASE k > b
    <3>1. Cut(t, b)[k].output = <<>> /\ Cut(t, b)[k].kept = k
      BY <2>2, <2>c, CutEnd DEF CutsNone
    <3>2. <<>> \o Cut(u, L)[k].output = Cut(u, L)[k].output
      BY <1>t, <2>1, ConcatEmptySeq
    <3>3. QED
      BY <2>0, <3>1, <3>2
  <2>3. CASE k <= b /\ Far(t, k, b)
    <3>1. Cut(t, b)[k].output = SubSeq(t, k, b) /\ Cut(t, b)[k].kept = b + 1
      BY <2>3, <2>c, CutPlain DEF CutsPlain
    <3>2. b \in Nat \ {0} /\ k <= b + 1 /\ b <= N /\ b <= L /\ b + 1 \in Nat \ {0}
          /\ b + 1 \in 1..(L + 1) /\ b + 1 \in 1..(Len(u) + 1) /\ k <= b + 1 /\ k <= L
      BY <1>1, <2>1, <2>3
    <3>c. CanCut(u, L, b + 1)
      BY <1>1, <3>2 DEF CanCut
    <3>3. \A s, n: IsMatch(u, s, n) /\ s >= k => s >= b + 1 /\ s \in Nat
      <4> SUFFICES ASSUME NEW s, NEW n, IsMatch(u, s, n), s >= k PROVE s >= b + 1 /\ s \in Nat
        OBVIOUS
      <4>1. s \in Nat
        BY DEF IsMatch
      <4>2. ~(s <= b)
        <5>1. SUFFICES ASSUME s <= b PROVE FALSE
          OBVIOUS
        <5>2. IsMatch(t, s, n)
          BY <1>1, <5>1, StartMatches
        <5>3. s > b
          BY <2>3, <5>2 DEF Far
        <5>4. QED
          BY <4>1, <5>1, <5>3
      <4>3. QED
        BY <4>1, <4>2
    <3>4. SubSeq(t, k, b) = SubSeq(u, k, b)
      <4>1. IsSpan(t, k, b)
        BY <1>1, <2>1, <3>2 DEF IsSpan
      <4>2. QED
        <5>1. SameSpan(t, u, k, b)
          BY <1>1, <4>1, StartPiece
        <5>2. QED
          BY <5>1 DEF SameSpan
    <3>5. CASE \A s, n: IsMatch(u, s, n) => ~(s >= b + 1)
      <4>1. Far(u, k, L)
        BY <3>3, <3>5 DEF Far
      <4>2. Cut(u, L)[k].output = SubSeq(u, k, L)
        BY <2>c, <3>2, <4>1, CutPlain DEF CutsPlain
      <4>3. Cut(u, L)[b + 1].output = SubSeq(u, b + 1, L)
        <5>1. CASE b = L
          <6>1. b + 1 > L
            BY <1>1, <5>1
          <6>2. Cut(u, L)[b + 1].output = <<>>
            BY <3>c, <6>1, CutEnd DEF CutsNone
          <6>3. SubSeq(u, b + 1, L) = <<>>
            BY <1>1, <3>2, <5>1, SubSeqEmpty
          <6>4. QED
            BY <6>2, <6>3
        <5>2. CASE b # L
          <6> DEFINE p == b + 1
          <6>1. /\ p <= L /\ p \in 1..(Len(u) + 1) /\ L \in Int /\ L <= Len(u) /\ u \in Seq(Chars)
                /\ p = b + 1 /\ CanCut(u, L, p)
            BY <1>1, <3>2, <3>c, <5>2
          <6>2. Far(u, p, L)
            BY <3>5 DEF Far
          <6> HIDE DEF p
          <6>3. Cut(u, L)[p].output = SubSeq(u, p, L)
            BY <6>1, <6>2, CutPlain DEF CutsPlain
          <6>4. QED
            BY <6>1, <6>3
        <5>3. QED
          BY <5>1, <5>2
      <4>4. SubSeq(u, k, b) \o SubSeq(u, b + 1, L) = SubSeq(u, k, L)
        BY <1>1, <2>1, <3>2, Glue
      <4>5. QED
        BY <2>0, <3>1, <3>4, <4>2, <4>3, <4>4
    <3>6. CASE \E s, n: IsFirst(u, b + 1, s, n)
      <4>1. PICK s, n: IsFirst(u, b + 1, s, n)
        BY <3>6
      <4>2. s \in Nat \ {0} /\ n \in Nat \ {0} /\ s >= b + 1 /\ s + n - 1 <= L
        BY <1>1, <4>1, Longest DEF IsFirst, IsMatch
      <4>3. IsFirst(u, k, s, n)
        BY <1>1, <2>1, <3>2, <3>3, <4>1, FirstEarlier
      <4>4. s <= L /\ s - 1 \in Nat /\ b <= s - 1 /\ s - 1 <= Len(u) /\ b + 1 <= s - 1 + 1
            /\ s + n \in 1..(L + 1)
        BY <1>1, <3>2, <4>2
      <4>5. Cut(u, L)[k].output = RedactedAt(Cut(u, L), u, k, s, n)
        <5>1. CutsAt(u, L, k, s, n)
          BY <2>c, <4>3, <4>4, CutMatch
        <5>2. QED
          BY <5>1 DEF CutsAt
      <4>6. Cut(u, L)[b + 1].output = RedactedAt(Cut(u, L), u, b + 1, s, n)
        <5>1. CutsAt(u, L, b + 1, s, n)
          BY <3>c, <4>1, <4>4, CutMatch
        <5>2. QED
          BY <5>1 DEF CutsAt
      <4>7. SubSeq(u, k, b) \o SubSeq(u, b + 1, s - 1) = SubSeq(u, k, s - 1)
        BY <1>1, <2>1, <3>2, <4>4, Glue
      <4> DEFINE x == SubSeq(u, k, b)
                 y == SubSeq(u, b + 1, s - 1)
                 z == Cut(u, L)[s + n].output
      <4>8. x \in Seq(Chars) /\ y \in Seq(Chars) /\ z \in Seq(Chars)
        BY <1>1, <1>t, <2>1, <3>2, <4>4, SpanIs
      <4>9. RedactedAt(Cut(u, L), u, k, s, n) = (x \o y) \o Redacted \o z
        BY <4>7 DEF RedactedAt
      <4>10. RedactedAt(Cut(u, L), u, b + 1, s, n) = y \o Redacted \o z
        BY DEF RedactedAt
      <4>11. Cut(t, b)[k].output = x
        BY <3>1, <3>4
      <4> HIDE DEF x, y, z
      <4>12. x \o (y \o Redacted \o z) = (x \o y) \o Redacted \o z
        BY <4>8, Joined
      <4>13. QED
        BY <2>0, <3>1, <4>5, <4>6, <4>9, <4>10, <4>11, <4>12
    <3>7. QED
      BY <1>1, <3>2, <3>5, <3>6, FirstOrFar
  <2>4. CASE \E s, n: IsFirst(t, k, s, n) /\ s <= b
    <3>1. PICK s, n: IsFirst(t, k, s, n) /\ s <= b
      BY <2>4
    <3>2. s \in Nat \ {0} /\ n \in Nat \ {0} /\ s >= k /\ s + n - 1 <= N
      BY <1>1, <3>1, Longest DEF IsFirst, IsMatch
    <3>3. /\ s + n \in (k + 1)..(N + 1) /\ s <= L /\ s - 1 \in Nat /\ k <= s - 1 + 1 /\ s - 1 <= Len(t)
          /\ s + n \in 1..(N + 1)
      BY <1>1, <2>1, <3>1, <3>2
    <3>4. IsFirst(u, k, s, n)
      <4>1. IsMatch(u, s, n)
        BY <1>1, <3>1, StartMatches DEF IsFirst
      <4>2. ASSUME NEW r, NEW l, IsMatch(u, r, l), r >= k
            PROVE s < r \/ (s = r /\ n >= l)
        <5>1. r \in Nat
          BY <4>2 DEF IsMatch
        <5>2. CASE r <= b
          <6>1. IsMatch(t, r, l)
            BY <1>1, <4>2, <5>2, StartMatches
          <6>2. QED
            BY <3>1, <4>2, <6>1 DEF IsFirst
        <5>3. CASE ~(r <= b)
          BY <3>1, <3>2, <5>1, <5>3
        <5>4. QED
          BY <5>2, <5>3
      <4>3. QED
        BY <3>2, <4>1, <4>2 DEF IsFirst
    <3>5. /\ Cut(t, b)[k].output = RedactedAt(Cut(t, b), t, k, s, n)
          /\ Cut(t, b)[k].kept = Cut(t, b)[s + n].kept
      <4>1. CutsAt(t, b, k, s, n)
        BY <2>c, <3>1, CutMatch
      <4>2. QED
        BY <4>1 DEF CutsAt
    <3>6. Cut(u, L)[k].output = RedactedAt(Cut(u, L), u, k, s, n)
      <4>1. CutsAt(u, L, k, s, n)
        BY <2>c, <3>3, <3>4, CutMatch
      <4>2. QED
        BY <4>1 DEF CutsAt
    <3>7. SubSeq(t, k, s - 1) = SubSeq(u, k, s - 1)
      <4>1. IsSpan(t, k, s - 1)
        BY <1>1, <2>1, <3>3 DEF IsSpan
      <4>2. QED
        <5>1. SameSpan(t, u, k, s - 1)
          BY <1>1, <4>1, StartPiece
        <5>2. QED
          BY <5>1 DEF SameSpan
    <3>8. Cut(u, L)[s + n].output =
              Cut(t, b)[s + n].output \o Cut(u, L)[Cut(t, b)[s + n].kept].output
      BY <1>2, <3>3 DEF G
    <3>9. SubSeq(t, k, s - 1) \in Seq(Chars)
      BY <1>1, <2>1, <3>3, SpanIs
    <3>10. Cut(t, b)[s + n].output \in Seq(Chars)
      BY <1>t, <3>3
    <3>11. Cut(u, L)[Cut(t, b)[s + n].kept].output \in Seq(Chars)
      <4>1. Cut(t, b)[s + n].kept \in (s + n)..(N + 1)
        BY <1>t, <3>3
      <4>2. Cut(t, b)[s + n].kept \in 1..(L + 1)
        BY <1>1, <3>3, <4>1
      <4>3. QED
        BY <1>t, <4>2
    <3> DEFINE x == SubSeq(t, k, s - 1)
               y == Cut(t, b)[s + n].output
               z == Cut(u, L)[Cut(t, b)[s + n].kept].output
    <3>12. RedactedAt(Cut(t, b), t, k, s, n) = x \o Redacted \o y
      BY DEF RedactedAt
    <3>13. RedactedAt(Cut(u, L), u, k, s, n) = x \o Redacted \o (y \o z)
      BY <3>7, <3>8 DEF RedactedAt
    <3>14. Cut(u, L)[Cut(t, b)[k].kept].output = z
      BY <3>5
    <3> HIDE DEF x, y, z
    <3>15. (x \o Redacted \o y) \o z = x \o Redacted \o (y \o z)
      BY <3>9, <3>10, <3>11, Joined DEF x, y, z
    <3>16. QED
      BY <2>0, <3>5, <3>6, <3>12, <3>13, <3>14, <3>15
  <2>5. QED
    BY <2>2, <2>3, <2>4, <2>c, CutCase
<1>3. \A k \in 1..(N + 1): k \in G
  <2> HIDE DEF G
  <2>1. QED
    BY <1>1, <1>2, Downward
<1>4. QED
  BY <1>3 DEF N, L

(* A whole text redacted at once.                                           *)
Whole(t) == Cut(t, Len(t))[1].output

LEMMA WholeIs ==
    ASSUME NEW t \in Seq(Alphabet)
    PROVE /\ Flush(t, TRUE).output = Whole(t) /\ Flush(t, TRUE).kept = Len(t) + 1
          /\ Whole(t) \in Seq(Chars) /\ Clean(Whole(t))
<1>1. Flush(t, TRUE) = Cut(t, Len(t))[1]
  <2>1. FlushBoundary(t, TRUE) = Len(t)
    BY DEF FlushBoundary
  <2>2. QED
    BY <2>1, FlushIs
<1>2. 1 \in 1..(Len(t) + 1) /\ Len(t) \in Int /\ Len(t) <= Len(t)
  OBVIOUS
<1>3. Clean(Cut(t, Len(t))[1].output) /\ Cut(t, Len(t))[1].kept = Len(t) + 1
  BY <1>2, CutClean
<1>4. Cut(t, Len(t))[1].output \in Seq(Marked)
  BY <1>2, CutTypes
<1>5. Marked \subseteq Chars
  BY DEF Marked, Chars
<1>6. QED
  BY <1>1, <1>3, <1>4, <1>5, SeqMonotonic DEF Whole

LEMMA StepIs ==
    ASSUME NEW t \in Seq(Alphabet)
    PROVE /\ Flush(t, FALSE).output \in Seq(Chars)
          /\ SubSeq(t, Flush(t, FALSE).kept, Len(t)) \in Seq(Alphabet)
          /\ \A d \in Seq(Alphabet):
                 Whole(t \o d) = Flush(t, FALSE).output
                                     \o Whole(SubSeq(t, Flush(t, FALSE).kept, Len(t)) \o d)
<1> DEFINE b == FlushBoundary(t, FALSE)
           o == Cut(t, b)[1].output
           p == Cut(t, b)[1].kept
           v == SubSeq(t, p, Len(t))
<1>1. Flush(t, FALSE).output = o /\ Flush(t, FALSE).kept = p
  BY FlushIs
<1>2. b \in Int /\ Safe(t, b) /\ b <= Len(t)
  BY Longest DEF FlushBoundary, Safe
<1> HIDE DEF b
<1>3. Len(t) \in Nat /\ 1 \in 1..(Len(t) + 1)
  OBVIOUS
<1>4. o \in Seq(Marked) /\ p \in 1..(Len(t) + 1)
  BY <1>2, <1>3, CutTypes
<1>5. Marked \subseteq Chars
  BY DEF Marked, Chars
<1>6. o \in Seq(Chars)
  BY <1>4, <1>5, SeqMonotonic
<1>7. /\ v \in Seq(Alphabet) /\ Len(v) = Len(t) + 1 - p
      /\ \A i \in 1..(Len(t) + 1 - p): v[i] = t[p + i - 1]
  <2> HIDE DEF o, p
  <2>1. p \in Nat \ {0} /\ p <= Len(t) + 1
    BY <1>3, <1>4
  <2>2. QED
    BY <1>3, <2>1, SpanIs
<1>8. ASSUME NEW d \in Seq(Alphabet) PROVE Whole(t \o d) = o \o Whole(v \o d)
  <2> DEFINE u == t \o d
             w == v \o d
  <2>1. u \in Seq(Alphabet) /\ Len(u) = Len(t) + Len(d)
        /\ \A i \in 1..(Len(t) + Len(d)): u[i] = IF i <= Len(t) THEN t[i] ELSE d[i - Len(t)]
    BY ConcatProperties
  <2> HIDE DEF v, o, p
  <2>a. v \in Seq(Alphabet)
    BY <1>7
  <2>2. w \in Seq(Alphabet) /\ Len(w) = Len(v) + Len(d)
        /\ \A i \in 1..(Len(v) + Len(d)): w[i] = IF i <= Len(v) THEN v[i] ELSE d[i - Len(v)]
    BY <2>a, ConcatProperties
  <2> HIDE DEF u, w
  <2>3. Len(d) \in Nat /\ Len(v) \in Nat /\ p \in Nat \ {0} /\ p <= Len(t) + 1
    BY <1>3, <1>4, <1>7
  <2>4. Starts(t, u)
    BY <1>3, <2>1, <2>3 DEF Starts
  <2>5. Cut(u, Len(u))[1].output = o \o Cut(u, Len(u))[p].output
    <3>1. Cut(u, Len(u))[1].output
              = Cut(t, b)[1].output \o Cut(u, Len(u))[Cut(t, b)[1].kept].output
      BY <1>2, <1>3, <2>1, <2>4, CutStream
    <3>2. QED
      BY <3>1 DEF o, p
  <2>6. /\ p <= Len(u) + 1 /\ Len(w) = Len(u) + 1 - p /\ Len(w) \in Nat
        /\ 1 \in 1..(Len(w) + 1) /\ 1 + p - 1 = p
    BY <1>3, <1>7, <2>1, <2>2, <2>3
  <2>7. ASSUME NEW i \in 1..Len(w) PROVE w[i] = u[p + i - 1]
    <3>1. CASE i <= Len(v)
      <4>1. /\ i \in 1..(Len(v) + Len(d)) /\ p + i - 1 \in 1..(Len(t) + Len(d))
            /\ p + i - 1 <= Len(t) /\ i \in 1..(Len(t) + 1 - p)
        BY <1>3, <1>7, <2>2, <2>3, <3>1
      <4>2. w[i] = v[i] /\ u[p + i - 1] = t[p + i - 1]
        BY <2>1, <2>2, <3>1, <4>1
      <4>3. QED
        BY <1>7, <4>1, <4>2
    <3>2. CASE ~(i <= Len(v))
      <4>1. /\ i \in 1..(Len(v) + Len(d)) /\ p + i - 1 \in 1..(Len(t) + Len(d))
            /\ ~(p + i - 1 <= Len(t)) /\ p + i - 1 - Len(t) = i - Len(v)
        BY <1>3, <1>7, <2>2, <2>3, <3>2
      <4>2. w[i] = d[i - Len(v)]
        BY <2>2, <3>2, <4>1
      <4> DEFINE q == p + i - 1
      <4>3. q \in 1..(Len(t) + Len(d)) /\ ~(q <= Len(t)) /\ q - Len(t) = i - Len(v) /\ q = p + i - 1
        BY <1>3, <1>7, <2>2, <2>3, <3>2, <4>1
      <4> HIDE DEF q
      <4>4. u[q] = d[q - Len(t)]
        BY <2>1, <4>3
      <4>5. QED
        BY <4>2, <4>3, <4>4
    <3>3. QED
      BY <3>1, <3>2
  <2>8. Cut(w, Len(w))[1].output = Cut(u, Len(u))[p].output
    <3>1. u \in Seq(Chars) /\ w \in Seq(Chars)
      BY <2>1, <2>2, SeqMonotonic DEF Chars
    <3>2. Cut(w, Len(w))[1].output = Cut(u, Len(u))[1 + p - 1].output
      BY <2>3, <2>6, <2>7, <3>1, CutShift
    <3>3. QED
      BY <2>6, <3>2
  <2>9. QED
    BY <2>5, <2>8 DEF Whole, u, w
<1>9. QED
  <2> HIDE DEF o, p
  <2>1. QED
    BY <1>1, <1>6, <1>7, <1>8

(* A log that was cut short by a failed write.                              *)
LEMMA PartIs ==
    ASSUME NEW l \in Seq(Chars), NEW o \in Seq(Chars), Clean(l \o o), NEW n \in 0..(Len(o) - 1)
    PROVE \E a \in Seq(Chars): Clean(a) /\ l \o SubSeq(o, 1, n) \o Restart = a \o Restart
<1> DEFINE part == SubSeq(o, 1, n)
           rest == SubSeq(o, n + 1, Len(o))
           a == l \o part
<1>1. Len(o) \in Nat /\ n \in Nat /\ n <= Len(o) /\ 1 <= n + 1 /\ n + 1 <= Len(o) + 1 /\ n + 1 \in Nat \ {0}
      /\ Len(o) <= Len(o)
  OBVIOUS
<1>2. part \in Seq(Chars) /\ rest \in Seq(Chars)
  BY <1>1, SpanIs
<1>3. part \o rest = o
  <2>1. part \o rest = SubSeq(o, 1, Len(o))
    BY <1>1, Glue
  <2>2. QED
    BY <2>1, SubSeqFull
<1> HIDE DEF part, rest
<1>4. a \in Seq(Chars)
  BY <1>2, ConcatProperties
<1>5. a \o rest = l \o o
  BY <1>2, <1>3, Associates
<1> HIDE DEF a
<1>6. Clean(a)
  BY <1>2, <1>4, <1>5, CleanStart
<1>7. l \o SubSeq(o, 1, n) \o Restart = a \o Restart
  BY DEF a, part
<1>8. QED
  BY <1>4, <1>6, <1>7

LEMMA RestartIs ==
    ASSUME NEW a \in Seq(Chars), Clean(a), NEW c \in Seq(Alphabet)
    PROVE /\ a \o Restart \in Seq(Chars) /\ Clean(a \o Restart) /\ "!" \in ToSet(a \o Restart)
          /\ LET l == (a \o Restart) \o Whole(c)
             IN  l \in Seq(Chars) /\ Clean(l) /\ "!" \in ToSet(l)
<1> DEFINE r == a \o Restart
           w == Whole(c)
           l == r \o w
<1>1. "!" \in Chars \ Alphabet /\ Restart \in Seq(Chars) /\ Len(Restart) = 1 /\ Restart[1] = "!"
  BY RedactorAssumption DEF Chars, Restart
<1>2. r \in Seq(Chars) /\ Len(r) = Len(a) + 1 /\ r[Len(a) + 1] = "!"
  <2> HIDE DEF Restart
  <2>1. /\ r \in Seq(Chars) /\ Len(r) = Len(a) + Len(Restart)
        /\ \A i \in 1..(Len(a) + Len(Restart)):
               r[i] = IF i <= Len(a) THEN a[i] ELSE Restart[i - Len(a)]
    BY <1>1, ConcatProperties
  <2> HIDE DEF r
  <2>2. /\ Len(a) \in Nat /\ Len(a) + 1 \in 1..(Len(a) + Len(Restart))
        /\ ~(Len(a) + 1 <= Len(a)) /\ Len(a) + 1 - Len(a) = 1
    BY <1>1
  <2>3. QED
    BY <1>1, <2>1, <2>2
<1>3. w \in Seq(Chars) /\ Clean(w)
  BY WholeIs
<1>4. Clean(l)
  <2> HIDE DEF w
  <2>1. Clean(a \o <<"!">> \o w)
    BY <1>1, <1>3, CleanApart
  <2>2. QED
    BY <2>1 DEF Restart
<1> HIDE DEF r, w
<1>5. l \in Seq(Chars) /\ Len(l) = Len(r) + Len(w) /\ \A i \in 1..Len(r): l[i] = r[i]
  BY <1>2, <1>3, NoTail
<1>6. Len(a) + 1 \in 1..Len(r) /\ Len(a) + 1 \in 1..Len(l)
  BY <1>2, <1>3, <1>5
<1>7. "!" \in ToSet(r)
  BY <1>2, <1>6 DEF ToSet
<1>8. "!" \in ToSet(l)
  <2> HIDE DEF l
  <2>1. l[Len(a) + 1] = "!"
    BY <1>2, <1>5, <1>6
  <2>2. QED
    BY <1>5, <1>6, <2>1 DEF ToSet
<1>9. Clean(r)
  BY <1>2, <1>3, <1>4, CleanStart
<1>10. QED
  BY <1>2, <1>4, <1>5, <1>7, <1>8, <1>9 DEF r, l, w

Ahead(wrote, put, held) ==
    \A d \in Seq(Alphabet): Whole(wrote \o d) = put \o Whole(held \o d)

RInv ==
    /\ written \in Seq(Alphabet) /\ pending \in Seq(Alphabet) /\ log \in Seq(Chars)
    /\ writer \in {"open", "failed", "closed"}
    /\ Clean(log)
    /\ writer = "open" => Ahead(written, log, pending)
    /\ writer = "failed" => \E a \in Seq(Chars): log = a \o Restart /\ Clean(a)
    /\ writer = "closed" => "!" \in ToSet(log) \/ log \o Whole(pending) = Whole(written)

LEMMA AheadNow ==
    ASSUME NEW w \in Seq(Alphabet), NEW l \in Seq(Chars), NEW h \in Seq(Alphabet), Ahead(w, l, h)
    PROVE Whole(w) = l \o Whole(h) /\ Clean(l \o Whole(h)) /\ Clean(l)
<1>1. <<>> \in Seq(Alphabet) /\ w \o <<>> = w /\ h \o <<>> = h
  BY ConcatEmptySeq
<1>2. Whole(w) = l \o Whole(h)
  <2>1. Whole(w \o <<>>) = l \o Whole(h \o <<>>)
    BY <1>1 DEF Ahead
  <2>2. QED
    BY <1>1, <2>1
<1>3. Clean(Whole(w)) /\ Whole(h) \in Seq(Chars)
  BY WholeIs
<1>4. QED
  BY <1>2, <1>3, CleanStart

LEMMA RInvHolds == RSpec => []RInv
<1>1. RInit => RInv
  <2> SUFFICES ASSUME RInit PROVE RInv
    OBVIOUS
  <2>1. written = <<>> /\ pending = <<>> /\ log = <<>> /\ writer = "open"
    BY DEF RInit
  <2>2. Clean(<<>>)
    BY Longest DEF Clean, IsMatch
  <2>3. Ahead(<<>>, <<>>, <<>>)
    <3> SUFFICES ASSUME NEW d \in Seq(Alphabet) PROVE Whole(<<>> \o d) = <<>> \o Whole(<<>> \o d)
      BY DEF Ahead
    <3>1. <<>> \o d = d /\ Whole(d) \in Seq(Chars)
      BY WholeIs, ConcatEmptySeq
    <3>2. <<>> \o Whole(d) = Whole(d)
      BY <3>1, ConcatEmptySeq
    <3>3. QED
      BY <3>1, <3>2
  <2>4. QED
    BY <2>1, <2>2, <2>3 DEF RInv
<1>2. RInv /\ [RNext]_rvars => RInv'
  <2> SUFFICES ASSUME RInv, [RNext]_rvars PROVE RInv'
    OBVIOUS
  <2>0. /\ written \in Seq(Alphabet) /\ pending \in Seq(Alphabet) /\ log \in Seq(Chars)
        /\ Clean(log)
    BY DEF RInv
  <2>1. ASSUME NEW data \in Writes, Write(data) PROVE RInv'
    <3> DEFINE text == pending \o data
               o == Flush(text, FALSE).output
               held == SubSeq(text, Flush(text, FALSE).kept, Len(text))
               wrote == written \o data
    <3>1. data \in Seq(Alphabet)
      BY DEF Writes
    <3>2. text \in Seq(Alphabet) /\ wrote \in Seq(Alphabet)
      BY <2>0, <3>1, ConcatProperties
    <3>3. writer = "open" /\ Ahead(written, log, pending) /\ written' = wrote
      BY <2>1 DEF Write, RInv
    <3>4. \/ log' = log \o o /\ pending' = held /\ writer' = "open"
          \/ /\ \E n \in 0..(Len(o) - 1): log' = log \o SubSeq(o, 1, n) \o Restart
             /\ pending' = text /\ writer' = "failed"
      BY <2>1 DEF Write, Takes, TakesPart
    <3>5. o \in Seq(Chars) /\ held \in Seq(Alphabet)
          /\ \A d \in Seq(Alphabet): Whole(text \o d) = o \o Whole(held \o d)
      <4> HIDE DEF text
      <4>1. QED
        BY <3>2, StepIs
    <3> HIDE DEF o, held
    <3>6. Ahead(wrote, log \o o, held)
      <4> SUFFICES ASSUME NEW d \in Seq(Alphabet)
                   PROVE Whole(wrote \o d) = (log \o o) \o Whole(held \o d)
        BY DEF Ahead
      <4>1. data \o d \in Seq(Alphabet)
        BY <3>1, ConcatProperties
      <4>2. wrote \o d = written \o (data \o d) /\ text \o d = pending \o (data \o d)
        <5>1. Seq(Alphabet) \subseteq Seq(Chars)
          BY SeqMonotonic DEF Chars
        <5>2. written \in Seq(Chars) /\ pending \in Seq(Chars) /\ data \in Seq(Chars) /\ d \in Seq(Chars)
          BY <2>0, <3>1, <5>1
        <5>3. (written \o data) \o d = written \o (data \o d)
          BY <5>2, Associates
        <5>4. (pending \o data) \o d = pending \o (data \o d)
          BY <5>2, Associates
        <5>5. QED
          BY <5>3, <5>4
      <4>3. Whole(written \o (data \o d)) = log \o Whole(pending \o (data \o d))
        BY <3>3, <4>1 DEF Ahead
      <4>4. Whole(held \o d) \in Seq(Chars)
        <5>1. held \o d \in Seq(Alphabet)
          BY <3>5, ConcatProperties
        <5>2. QED
          BY <5>1, WholeIs
      <4> HIDE DEF wrote, text
      <4>5. Whole(wrote \o d) = log \o (o \o Whole(held \o d))
        BY <3>5, <4>2, <4>3
      <4>6. (log \o o) \o Whole(held \o d) = log \o (o \o Whole(held \o d))
        BY <2>0, <3>5, <4>4, Associates
      <4>7. QED
        BY <4>5, <4>6
    <3> HIDE DEF wrote, text
    <3>7. log \o o \in Seq(Chars)
      BY <2>0, <3>5, ConcatProperties
    <3>8. Clean(log \o o)
      BY <3>2, <3>5, <3>6, <3>7, AheadNow
    <3>9. CASE log' = log \o o /\ pending' = held /\ writer' = "open"
      BY <3>2, <3>3, <3>5, <3>6, <3>7, <3>8, <3>9 DEF RInv
    <3>10. CASE /\ \E n \in 0..(Len(o) - 1): log' = log \o SubSeq(o, 1, n) \o Restart
                /\ pending' = text /\ writer' = "failed"
      <4>1. PICK a \in Seq(Chars): Clean(a) /\ log' = a \o Restart
        <5>1. PICK n \in 0..(Len(o) - 1): log' = log \o SubSeq(o, 1, n) \o Restart
          BY <3>10
        <5>2. \E a \in Seq(Chars): Clean(a) /\ log \o SubSeq(o, 1, n) \o Restart = a \o Restart
          BY <2>0, <3>5, <3>8, PartIs
        <5>3. QED
          BY <5>1, <5>2
      <4>2. <<>> \in Seq(Alphabet)
        OBVIOUS
      <4>3. log' \in Seq(Chars) /\ Clean(log')
        BY <4>1, <4>2, RestartIs
      <4>4. QED
        BY <3>2, <3>3, <3>10, <4>1, <4>3 DEF RInv, Clean
    <3>11. QED
      BY <3>4, <3>9, <3>10
  <2>2. ASSUME Close PROVE RInv'
    <3> DEFINE o == Whole(pending)
    <3>1. writer # "closed" /\ writer' = "closed" /\ written' = written
      BY <2>2 DEF Close
    <3>2. Flush(pending, TRUE).output = o /\ Flush(pending, TRUE).kept = Len(pending) + 1
          /\ o \in Seq(Chars)
      BY <2>0, WholeIs
    <3>3. \/ log' = log \o o /\ pending' = SubSeq(pending, Len(pending) + 1, Len(pending))
          \/ /\ \E n \in 0..(Len(o) - 1): log' = log \o SubSeq(o, 1, n) \o Restart
             /\ pending' = pending
      <4> HIDE DEF o
      <4>1. QED
        BY <2>2, <3>2 DEF Close, Takes, TakesPart
    <3> HIDE DEF o
    <3>4. log \o o \in Seq(Chars)
      BY <2>0, <3>2, ConcatProperties
    <3>5. /\ Clean(log \o o)
          /\ (writer = "open" /\ log \o o = Whole(written)) \/ "!" \in ToSet(log \o o)
      <4>1. CASE writer = "open"
        <5>1. Ahead(written, log, pending)
          BY <4>1 DEF RInv
        <5>2. QED
          BY <2>0, <4>1, <5>1, AheadNow DEF o
      <4>2. CASE writer = "failed"
        <5>1. PICK a \in Seq(Chars): log = a \o Restart /\ Clean(a)
          BY <4>2 DEF RInv
        <5>2. QED
          BY <2>0, <5>1, RestartIs DEF o
      <4>3. QED
        BY <3>1, <4>1, <4>2 DEF RInv
    <3>6. CASE log' = log \o o /\ pending' = SubSeq(pending, Len(pending) + 1, Len(pending))
      <4>1. pending' = <<>>
        BY <2>0, <3>6, SubSeqEmpty
      <4>2. Whole(<<>>) = <<>>
        <5> DEFINE none == <<>>
        <5>1. /\ none \in Seq(Chars) /\ Len(none) = 0 /\ 0 \in Int /\ 0 <= Len(none)
              /\ CanCut(none, 0, 1) /\ 1 > 0 /\ none = <<>>
          BY DEF CanCut
        <5> HIDE DEF none
        <5>2. Cut(none, 0)[1].output = <<>>
          BY <5>1, CutEnd DEF CutsNone
        <5>3. QED
          BY <5>1, <5>2 DEF Whole
      <4>3. log' \o Whole(pending') = log \o o
        BY <3>4, <3>6, <4>1, <4>2, ConcatEmptySeq
      <4>4. "!" \in ToSet(log') \/ log' \o Whole(pending') = Whole(written')
        BY <3>1, <3>5, <3>6, <4>3
      <4>5. pending' \in Seq(Alphabet)
        BY <4>1
      <4>6. QED
        BY <2>0, <3>1, <3>4, <3>5, <3>6, <4>4, <4>5 DEF RInv, Clean
    <3>7. CASE /\ \E n \in 0..(Len(o) - 1): log' = log \o SubSeq(o, 1, n) \o Restart
               /\ pending' = pending
      <4>1. PICK a \in Seq(Chars): Clean(a) /\ log' = a \o Restart
        <5>1. PICK n \in 0..(Len(o) - 1): log' = log \o SubSeq(o, 1, n) \o Restart
          BY <3>7
        <5>2. \E a \in Seq(Chars): Clean(a) /\ log \o SubSeq(o, 1, n) \o Restart = a \o Restart
          BY <2>0, <3>2, <3>5, PartIs
        <5>3. QED
          BY <5>1, <5>2
      <4>2. <<>> \in Seq(Alphabet)
        OBVIOUS
      <4>3. log' \in Seq(Chars) /\ Clean(log') /\ "!" \in ToSet(log')
        BY <4>1, <4>2, RestartIs
      <4>4. QED
        BY <2>0, <3>1, <3>7, <4>3 DEF RInv, Clean
    <3>8. QED
      BY <3>3, <3>6, <3>7
  <2>3. CASE UNCHANGED rvars
    BY <2>3 DEF RInv, rvars, Clean, Ahead
  <2>4. QED
    BY <2>1, <2>2, <2>3 DEF RNext
<1>3. QED
  BY <1>1, <1>2, PTL DEF RSpec

THEOREM LogGivesNothingAway == RSpec => []NoValueLogged
<1>1. RInv => NoValueLogged
  <2> SUFFICES ASSUME RInv PROVE NoValueLogged
    OBVIOUS
  <2>1. /\ written \in Seq(Alphabet) /\ pending \in Seq(Alphabet) /\ log \in Seq(Chars)
        /\ Clean(log) /\ writer \in {"open", "failed", "closed"}
    BY DEF RInv
  <2>2. Matches(log, 1) = {}
    <3>1. \A m \in Matches(log, 1): IsMatch(log, m[1], m[2])
      BY <2>1, MatchesAre
    <3>2. QED
      BY <2>1, <3>1 DEF Clean
  <2>3. "!" \in ToSet(log) \/ log \o Whole(pending) = Whole(written)
    <3>1. CASE writer = "open"
      <4>1. Ahead(written, log, pending)
        BY <3>1 DEF RInv
      <4>2. QED
        BY <2>1, <4>1, AheadNow
    <3>2. CASE writer = "failed"
      <4>1. PICK a \in Seq(Chars): log = a \o Restart /\ Clean(a)
        BY <3>2 DEF RInv
      <4>2. <<>> \in Seq(Alphabet)
        OBVIOUS
      <4>3. QED
        BY <4>1, <4>2, RestartIs
    <3>3. CASE writer = "closed"
      BY <3>3 DEF RInv
    <3>4. QED
      BY <2>1, <3>1, <3>2, <3>3
  <2>4. Flush(pending, TRUE).output = Whole(pending) /\ Flush(written, TRUE).output = Whole(written)
    BY <2>1, WholeIs
  <2>5. QED
    BY <2>2, <2>3, <2>4 DEF NoValueLogged
<1>2. QED
  BY <1>1, RInvHolds, PTL
=============================================================================
