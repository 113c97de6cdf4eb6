---------------------------- MODULE Loops_proofs ----------------------------
(***************************************************************************)
(* The scheduler's safety properties for any number of jobs, any sessions  *)
(* and any limit.  LoopInv adds to them that a loaded table holds what is  *)
(* owed, which needs the limit: a store that passed it would lose jobs     *)
(* when it is loaded.                                                      *)
(***************************************************************************)
EXTENDS Loops, FiniteSetTheorems, TLAPS

\* Only identifiers that were drawn are in use, and none is drawn twice.
DrawnOnly == jobs \cup disk \cup tasks \cup cancelled \cup expired \subseteq drawn

\* What is owed has not expired, and a daemon that has loaded it holds it.
OwedHeld == owed \cap expired = {} /\ (stage # "down" => owed \subseteq jobs)

\* No goroutine exists before Start.
NoneBeforeStart ==
    stage \in {"down", "loaded"} => tasks = {} /\ cancelled = {} /\ pc = Nobody

TableInv ==
    /\ TypeOK /\ DrawnOnly /\ OwedHeld /\ NoneBeforeStart
    /\ AckedDurable /\ RefusedLeavesNothing /\ JobsRun /\ CloseBarrier

LoopInv == TableInv /\ LimitHolds

(* A subset of the jobs is finite, and has at most as many elements as a   *)
(* set it is part of, and fewer unless it is that set.                     *)
LEMMA Counted ==
    ASSUME NEW S \in SUBSET Jobs, NEW T \in SUBSET S
    PROVE  /\ IsFiniteSet(S) /\ Cardinality(S) \in Nat /\ Cardinality(T) \in Nat
           /\ Cardinality(T) <= Cardinality(S)
           /\ Cardinality(T) = Cardinality(S) => T = S
<1>1. IsFiniteSet(S)
  BY LoopAssumption, FS_Subset
<1>2. IsFiniteSet(T) /\ Cardinality(T) <= Cardinality(S)
      /\ (Cardinality(T) = Cardinality(S) => T = S)
  BY <1>1, FS_Subset
<1>3. Cardinality(S) \in Nat /\ Cardinality(T) \in Nat
  BY <1>1, <1>2, FS_CardinalityType
<1>4. QED
  BY <1>1, <1>2, <1>3

(* One more job in a table with room for it.                               *)
LEMMA RoomForOne ==
    ASSUME NEW S \in SUBSET Jobs, NEW j \in Jobs, Cardinality(S) < MaxJobs
    PROVE  Cardinality(S \cup {j}) <= MaxJobs
<1>1. IsFiniteSet(S) /\ Cardinality(S) \in Nat
  BY Counted
<1>2. Cardinality(S \cup {j}) = IF j \in S THEN Cardinality(S) ELSE Cardinality(S) + 1
  BY <1>1, FS_AddElement
<1>3. QED
  BY <1>1, <1>2, LoopAssumption

(* Every step keeps the limit.                                            *)
LEMMA LimitStep == TypeOK /\ LimitHolds /\ [Next]_vars => LimitHolds'
<1> SUFFICES ASSUME TypeOK /\ LimitHolds, [Next]_vars
             PROVE  LimitHolds'
  OBVIOUS
<1> USE LoopAssumption DEF TypeOK, LimitHolds, Nobody, managerVars, historyVars
<1>0. \A T : T \subseteq jobs \/ T \subseteq disk => Cardinality(T) <= MaxJobs
  <2> SUFFICES ASSUME NEW S \in SUBSET Jobs, Cardinality(S) <= MaxJobs,
                      NEW T \in SUBSET S
               PROVE  Cardinality(T) <= MaxJobs
    OBVIOUS
  <2>1. QED
    BY Counted
<1>1. CASE Load
  BY <1>1 DEF Load, Keeps
<1>2. CASE Crash
  BY <1>2, <1>0 DEF Crash, Die
<1>3. CASE StartFails
  BY <1>3, <1>0 DEF StartFails, Die
<1>4. CASE Start
  BY <1>4, <1>0 DEF Start, Saved, Unsaved
<1>5. CASE RunCancelled
  BY <1>5 DEF RunCancelled
<1>6. CASE Close
  BY <1>6 DEF Close
<1>7. CASE CloseReturns
  BY <1>7 DEF CloseReturns
<1>8. ASSUME NEW j \in Jobs, Create(j)
      PROVE  LimitHolds'
  BY <1>8, RoomForOne DEF Create, Launch, Room, Saved
<1>9. ASSUME NEW j \in Jobs, CreateRefused(j)
      PROVE  LimitHolds'
  BY <1>9 DEF CreateRefused, Room
<1>10. ASSUME NEW j \in Jobs, CrashInCreate(j)
      PROVE  LimitHolds'
  BY <1>10, <1>0, RoomForOne DEF CrashInCreate, Die, Saved
<1>11. ASSUME NEW j \in Jobs, Stop(j)
      PROVE  LimitHolds'
  BY <1>11, <1>0 DEF Stop, Removes, Serving, Saved, Unsaved
<1>12. ASSUME NEW j \in Jobs, TimePasses(j)
      PROVE  LimitHolds'
  BY <1>12 DEF TimePasses
<1>13. ASSUME NEW j \in Jobs, Wakes(j)
      PROVE  LimitHolds'
  BY <1>13 DEF Wakes, Moves
<1>14. ASSUME NEW j \in Jobs, Quits(j)
      PROVE  LimitHolds'
  BY <1>14 DEF Quits, Moves
<1>15. ASSUME NEW j \in Jobs, LooksGone(j)
      PROVE  LimitHolds'
  BY <1>15 DEF LooksGone, Moves
<1>16. ASSUME NEW j \in Jobs, LooksExpired(j)
      PROVE  LimitHolds'
  BY <1>16, <1>0 DEF LooksExpired, Moves, Saved, Unsaved
<1>17. ASSUME NEW j \in Jobs, LooksDue(j)
      PROVE  LimitHolds'
  BY <1>17 DEF LooksDue, Moves
<1>18. ASSUME NEW j \in Jobs, FireReturns(j)
      PROVE  LimitHolds'
  BY <1>18 DEF FireReturns, Moves
<1>19. ASSUME NEW j \in Jobs, Records(j)
      PROVE  LimitHolds'
  BY <1>19 DEF Records, Moves, Saved, Unsaved
<1>20. ASSUME NEW j \in Jobs, RecordsNothing(j)
      PROVE  LimitHolds'
  BY <1>20 DEF RecordsNothing, Moves
<1>21. ASSUME NEW j \in Jobs, Ends(j)
      PROVE  LimitHolds'
  BY <1>21 DEF Ends, Moves
<1>22. ASSUME NEW s \in Sessions, StopSession(s)
      PROVE  LimitHolds'
  BY <1>22, <1>0 DEF StopSession, Removes, Serving, Saved, Unsaved
<1>23. ASSUME NEW js \in SUBSET Jobs, CrashInStop(js)
      PROVE  LimitHolds'
  BY <1>23, <1>0 DEF CrashInStop, Die, Saved
<1>24. CASE UNCHANGED vars
  BY <1>24 DEF vars
<1>25. QED
  BY <1>1, <1>2, <1>3, <1>4, <1>5, <1>6, <1>7, <1>8, <1>9, <1>10, <1>11, <1>12,
     <1>13, <1>14, <1>15, <1>16, <1>17, <1>18, <1>19, <1>20, <1>21, <1>22,
     <1>23, <1>24
     DEF Next, RunStep

(* Every step keeps the rest, given the limit.                              *)
LEMMA TableStep == LoopInv /\ [Next]_vars => TableInv'
<1> SUFFICES ASSUME LoopInv, [Next]_vars
             PROVE  TableInv'
  OBVIOUS
<1> USE LoopAssumption DEF LoopInv, TableInv, TypeOK, DrawnOnly, OwedHeld,
   NoneBeforeStart, AckedDurable, RefusedLeavesNothing, JobsRun, CloseBarrier, Serving,
   Nobody, managerVars, historyVars
<1>1. CASE Load
  <2>1. PICK js \in SUBSET Jobs : Keeps(js) /\ jobs' = js
    BY <1>1 DEF Load
  <2>2. js = disk
    BY <2>1, Counted DEF Keeps, LimitHolds
  <2>3. QED
    BY <1>1, <2>1, <2>2 DEF Load
<1>2. CASE Crash
  <2>1. stage' = "down" /\ jobs' = {} /\ tasks' = {} /\ cancelled' = {} /\ pc' = Nobody
        /\ over' = FALSE
    BY <1>2 DEF Crash, Die
  <2>2. stage # "down" /\ UNCHANGED <<expired, disk, drawn, owed, refused>>
    BY <1>2 DEF Crash, Saved
  <2>3. TypeOK'
    BY <2>1, <2>2
  <2>4. DrawnOnly' /\ OwedHeld' /\ AckedDurable' /\ RefusedLeavesNothing'
    BY <2>1, <2>2
  <2>5. NoneBeforeStart' /\ JobsRun' /\ CloseBarrier'
    BY <2>1
  <2>6. QED
    BY <2>3, <2>4, <2>5
<1>3. CASE StartFails
  <2>1. stage' = "down" /\ jobs' = {} /\ tasks' = {} /\ cancelled' = {} /\ pc' = Nobody
        /\ over' = FALSE
    BY <1>3 DEF StartFails, Die
  <2>2. stage # "down" /\ UNCHANGED <<expired, disk, drawn, owed, refused>>
    BY <1>3 DEF StartFails, Saved
  <2>3. TypeOK'
    BY <2>1, <2>2
  <2>4. DrawnOnly' /\ OwedHeld' /\ AckedDurable' /\ RefusedLeavesNothing'
    BY <2>1, <2>2
  <2>5. NoneBeforeStart' /\ JobsRun' /\ CloseBarrier'
    BY <2>1
  <2>6. QED
    BY <2>3, <2>4, <2>5
<1>4. CASE Start
  BY <1>4 DEF Start, Saved, Unsaved
<1>5. CASE RunCancelled
  BY <1>5 DEF RunCancelled
<1>6. CASE Close
  BY <1>6 DEF Close
<1>7. CASE CloseReturns
  BY <1>7 DEF CloseReturns
<1>8. ASSUME NEW j \in Jobs, Create(j)
      PROVE  TableInv'
  BY <1>8 DEF Create, Launch, Room, Saved
<1>9. ASSUME NEW j \in Jobs, CreateRefused(j)
      PROVE  TableInv'
  BY <1>9 DEF CreateRefused, Room
<1>10. ASSUME NEW j \in Jobs, CrashInCreate(j)
      PROVE  TableInv'
  <2>1. stage' = "down" /\ jobs' = {} /\ tasks' = {} /\ cancelled' = {} /\ pc' = Nobody
        /\ over' = FALSE
    BY <1>10 DEF CrashInCreate, Die
  <2>2. /\ stage # "down" /\ j \notin drawn /\ drawn' = drawn \cup {j}
        /\ disk' = jobs \cup {j} /\ UNCHANGED <<expired, owed, refused>>
    BY <1>10 DEF CrashInCreate, Saved
  <2>3. TypeOK'
    <3>1. pc' \in [Jobs -> {"none"}] /\ \A i \in Jobs : pc'[i] = "none"
      BY <2>1
    <3>2. drawn' \in SUBSET Jobs /\ disk' \in SUBSET Jobs /\ expired' \in SUBSET Jobs
          /\ owed' \in SUBSET drawn' /\ refused' \in SUBSET drawn'
      BY <2>2
    <3>3. QED
      BY <2>1, <3>1, <3>2
  <2>4. DrawnOnly' /\ OwedHeld' /\ AckedDurable' /\ RefusedLeavesNothing'
    BY <2>1, <2>2
  <2>5. NoneBeforeStart' /\ JobsRun' /\ CloseBarrier'
    BY <2>1
  <2>6. QED
    BY <2>3, <2>4, <2>5
<1>11. ASSUME NEW j \in Jobs, Stop(j)
      PROVE  TableInv'
  BY <1>11 DEF Stop, Removes, Serving, Saved, Unsaved
<1>12. ASSUME NEW j \in Jobs, TimePasses(j)
      PROVE  TableInv'
  BY <1>12 DEF TimePasses
<1>13. ASSUME NEW j \in Jobs, Wakes(j)
      PROVE  TableInv'
  BY <1>13 DEF Wakes, Moves
<1>14. ASSUME NEW j \in Jobs, Quits(j)
      PROVE  TableInv'
  BY <1>14 DEF Quits, Moves
<1>15. ASSUME NEW j \in Jobs, LooksGone(j)
      PROVE  TableInv'
  BY <1>15 DEF LooksGone, Moves
<1>16. ASSUME NEW j \in Jobs, LooksExpired(j)
      PROVE  TableInv'
  BY <1>16 DEF LooksExpired, Moves, Saved, Unsaved
<1>17. ASSUME NEW j \in Jobs, LooksDue(j)
      PROVE  TableInv'
  BY <1>17 DEF LooksDue, Moves
<1>18. ASSUME NEW j \in Jobs, FireReturns(j)
      PROVE  TableInv'
  BY <1>18 DEF FireReturns, Moves
<1>19. ASSUME NEW j \in Jobs, Records(j)
      PROVE  TableInv'
  BY <1>19 DEF Records, Moves, Saved, Unsaved
<1>20. ASSUME NEW j \in Jobs, RecordsNothing(j)
      PROVE  TableInv'
  BY <1>20 DEF RecordsNothing, Moves
<1>21. ASSUME NEW j \in Jobs, Ends(j)
      PROVE  TableInv'
  BY <1>21 DEF Ends, Moves
<1>22. ASSUME NEW s \in Sessions, StopSession(s)
      PROVE  TableInv'
  BY <1>22 DEF StopSession, Removes, Serving, Saved, Unsaved
<1>23. ASSUME NEW js \in SUBSET Jobs, CrashInStop(js)
      PROVE  TableInv'
  <2>1. stage' = "down" /\ jobs' = {} /\ tasks' = {} /\ cancelled' = {} /\ pc' = Nobody
        /\ over' = FALSE
    BY <1>23 DEF CrashInStop, Die
  <2>2. /\ stage # "down" /\ owed' = owed \ js /\ disk' = jobs \ js
        /\ UNCHANGED <<expired, drawn, refused>>
    BY <1>23 DEF CrashInStop, Saved
  <2>3. TypeOK'
    BY <2>1, <2>2
  <2>4. DrawnOnly' /\ OwedHeld' /\ AckedDurable' /\ RefusedLeavesNothing'
    BY <2>1, <2>2
  <2>5. NoneBeforeStart' /\ JobsRun' /\ CloseBarrier'
    BY <2>1
  <2>6. QED
    BY <2>3, <2>4, <2>5
<1>24. CASE UNCHANGED vars
  BY <1>24 DEF vars
<1>25. QED
  BY <1>1, <1>2, <1>3, <1>4, <1>5, <1>6, <1>7, <1>8, <1>9, <1>10, <1>11, <1>12,
     <1>13, <1>14, <1>15, <1>16, <1>17, <1>18, <1>19, <1>20, <1>21, <1>22,
     <1>23, <1>24
     DEF Next, RunStep

LEMMA LoopInitially == Init => LoopInv
<1> SUFFICES ASSUME Init
             PROVE  LoopInv
  OBVIOUS
<1>1. Cardinality({}) = 0
  BY FS_EmptySet
<1>2. LimitHolds
  BY <1>1, LoopAssumption DEF Init, LimitHolds
<1>3. TableInv
  BY DEF Init, TableInv, TypeOK, DrawnOnly, OwedHeld, NoneBeforeStart,
         AckedDurable, RefusedLeavesNothing, JobsRun, CloseBarrier, Nobody
<1>4. QED
  BY <1>2, <1>3 DEF LoopInv

(* The table, the tasks and the store of loops.go, job.go, scheduler.go and *)
(* store.go agree as LoopInv says in every reachable state.                 *)
THEOREM LoopInvariant == Spec => []LoopInv
<1>1. LoopInv /\ [Next]_vars => LoopInv'
  <2> SUFFICES ASSUME LoopInv, [Next]_vars
               PROVE  LoopInv'
    OBVIOUS
  <2>1. LimitHolds'
    BY LimitStep DEF LoopInv, TableInv
  <2>2. TableInv'
    BY TableStep
  <2>3. QED
    BY <2>1, <2>2 DEF LoopInv
<1>2. QED
  BY <1>1, LoopInitially, PTL DEF Spec

(* The types, and with them that every goroutine's cancel function is either *)
(* registered in Manager.tasks or has been called (scheduler.go:13-28).      *)
THEOREM LoopTypeCorrect == Spec => []TypeOK
<1>1. LoopInv => TypeOK
  BY DEF LoopInv, TableInv
<1>2. QED
  BY <1>1, LoopInvariant, PTL

(* A job whose Create answered (job.go:85-94) stays in the store through     *)
(* crashes, restarts and failed saves until it expires or a stop is asked.   *)
THEOREM LoopAckedDurable == Spec => []AckedDurable
<1>1. LoopInv => AckedDurable
  BY DEF LoopInv, TableInv
<1>2. QED
  BY <1>1, LoopInvariant, PTL

(* A job whose Create failed (job.go:86-89) is nowhere, and never comes back. *)
THEOREM LoopRefusedLeavesNothing == Spec => []RefusedLeavesNothing
<1>1. LoopInv => RefusedLeavesNothing
  BY DEF LoopInv, TableInv
<1>2. QED
  BY <1>1, LoopInvariant, PTL

(* policy.MaxJobs (job.go:67) bounds the table and the store, so the cut that *)
(* load makes (store.go:36) never drops a job.                                *)
THEOREM LoopLimitHolds == Spec => []LimitHolds
<1>1. LoopInv => LimitHolds
  BY DEF LoopInv, TableInv
<1>2. QED
  BY <1>1, LoopInvariant, PTL

(* A job of a running manager has a goroutine that will look at it, and a     *)
(* cancel function that Stop and Close reach (job.go:90, loops.go:82-88).     *)
THEOREM LoopJobsRun == Spec => []JobsRun
<1>1. LoopInv => JobsRun
  BY DEF LoopInv, TableInv
<1>2. QED
  BY <1>1, LoopInvariant, PTL

(* After Close (loops.go:96-111) no goroutine is left and none is started.    *)
THEOREM LoopCloseBarrier == Spec => []CloseBarrier
<1>1. LoopInv => CloseBarrier
  BY DEF LoopInv, TableInv
<1>2. QED
  BY <1>1, LoopInvariant, PTL
=============================================================================
