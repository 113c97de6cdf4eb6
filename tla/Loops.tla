-------------------------------- MODULE Loops --------------------------------
(***************************************************************************)
(* The loop scheduler (backend/internal/loops): recurring prompts, one     *)
(* goroutine per job, and a store that is rewritten atomically under       *)
(* Manager.mutex, across crashes and restarts of the daemon.               *)
(*                                                                         *)
(* Identifiers are drawn at random by newIDLocked; here each one is drawn  *)
(* once, so its session can be fixed beforehand by SessionOf.              *)
(***************************************************************************)
EXTENDS Naturals, FiniteSets

CONSTANTS
    Jobs,        \* identifiers
    Sessions,
    SessionOf,   \* [Jobs -> Sessions]
    MaxJobs      \* policy.MaxJobs

ASSUME LoopAssumption ==
    /\ IsFiniteSet(Jobs) /\ SessionOf \in [Jobs -> Sessions]
    /\ MaxJobs \in Nat \ {0}

VARIABLES
    stage,       \* of the daemon: "down", "loaded", "running", "closing", "closed"
    over,        \* the context of Run has been cancelled
    jobs,        \* keys of Manager.jobs
    tasks,       \* keys of Manager.tasks
    cancelled,   \* jobs whose task context has been cancelled
    pc,          \* per job: where its goroutine stands
    expired,     \* jobs whose ExpiresAt has passed
    disk,        \* the jobs in the store
    drawn,       \* identifiers drawn so far
    owed,        \* jobs acknowledged, not expired, that nobody asked to stop
    refused      \* jobs whose Create returned an error

managerVars == <<jobs, tasks, cancelled, pc>>
historyVars == <<drawn, owed, refused>>
vars == <<stage, over, managerVars, expired, disk, historyVars>>

TypeOK ==
    /\ stage \in {"down", "loaded", "running", "closing", "closed"}
    /\ over \in BOOLEAN
    /\ jobs \in SUBSET Jobs
    /\ tasks \in SUBSET Jobs
    /\ cancelled \in SUBSET Jobs
    /\ pc \in [Jobs -> {"none", "sleeping", "looking", "firing", "fired", "ending"}]
    /\ expired \in SUBSET Jobs
    /\ disk \in SUBSET Jobs
    /\ drawn \in SUBSET Jobs
    /\ owed \in SUBSET drawn /\ refused \in SUBSET drawn
    \* A goroutine's cancel function is registered until the goroutine ends,
    \* unless Stop has called it and dropped it.
    /\ \A j \in Jobs : pc[j] # "none" => j \in tasks \cup cancelled

Nobody == [j \in Jobs |-> "none"]

Init ==
    /\ stage = "down" /\ over = FALSE
    /\ jobs = {}
    /\ tasks = {} /\ cancelled = {} /\ pc = Nobody
    /\ expired = {}
    /\ disk = {}
    /\ drawn = {} /\ owed = {} /\ refused = {}

-----------------------------------------------------------------------------
(* store.go.  What is written is the whole table; a failed write leaves    *)
(* the old file, for renameio replaces it only when all of it is written.  *)
(* Nobody looks at the error of the scheduler's own saves.                 *)

Saved(js) == disk' = js
Unsaved == UNCHANGED disk

\* Mutant: one job less is loaded.
KeepsFewer(js) == js \subseteq disk /\ Cardinality(js) < MaxJobs
                   /\ (js = disk \/ Cardinality(js) = MaxJobs - 1)

\* load: at most MaxJobs of the stored jobs.
Keeps(js) == js \subseteq disk /\ Cardinality(js) <= MaxJobs
              /\ (js = disk \/ Cardinality(js) = MaxJobs)

Load ==
    /\ stage = "down" /\ stage' = "loaded"
    /\ \E js \in SUBSET Jobs : Keeps(js) /\ jobs' = js
    /\ UNCHANGED <<over, tasks, cancelled, pc, expired, disk, historyVars>>

Die ==
    /\ stage' = "down" /\ over' = FALSE
    /\ jobs' = {}
    /\ tasks' = {} /\ cancelled' = {} /\ pc' = Nobody

Crash ==
    /\ stage # "down" /\ Die
    /\ UNCHANGED <<expired, disk, historyVars>>

\* The daemon dies after a store has been replaced and before the request
\* that replaced it is answered.
CrashInCreate(j) ==
    /\ stage # "down" /\ Die
    /\ j \notin drawn /\ Cardinality(jobs) < MaxJobs
    /\ drawn' = drawn \cup {j}
    /\ Saved(jobs \cup {j})
    /\ UNCHANGED <<expired, owed, refused>>

CrashInStop(js) ==
    /\ stage # "down" /\ Die
    /\ js \subseteq jobs /\ js # {}
    /\ owed' = owed \ js
    /\ Saved(jobs \ js)
    /\ UNCHANGED <<expired, drawn, refused>>

TimePasses(j) ==
    /\ j \in (jobs \cup disk) \ expired
    /\ expired' = expired \cup {j}
    /\ owed' = owed \ {j}
    /\ UNCHANGED <<stage, over, managerVars, disk, drawn, refused>>

-----------------------------------------------------------------------------
(* loops.go: Start and Close, as Run and Server.Close call them. *)

\* A failed save ends Run, and the daemon with it.
StartFails ==
    /\ stage = "loaded" /\ jobs \cap expired # {} /\ Die
    /\ UNCHANGED <<expired, disk, historyVars>>

Start ==
    /\ stage = "loaded" /\ stage' = "running"
    /\ jobs' = jobs \ expired
    /\ tasks' = jobs'
    /\ pc' = [j \in Jobs |-> IF j \in jobs' THEN "sleeping" ELSE "none"]
    /\ IF jobs' = jobs THEN Unsaved ELSE Saved(jobs')
    /\ UNCHANGED <<over, cancelled, expired, historyVars>>

\* The context of Run is cancelled: every task's context is derived from it.
RunCancelled ==
    /\ stage = "running" /\ ~over
    /\ over' = TRUE
    /\ cancelled' = cancelled \cup tasks
    /\ UNCHANGED <<stage, jobs, tasks, pc, expired, disk, historyVars>>

\* Mutant: the tasks' own contexts are not cancelled.
CloseUncancelled ==
    /\ stage = "running" /\ stage' = "closing"
    /\ UNCHANGED <<over, managerVars, expired, disk, historyVars>>

Close ==
    /\ stage = "running" /\ stage' = "closing"
    /\ cancelled' = cancelled \cup tasks
    /\ UNCHANGED <<over, jobs, tasks, pc, expired, disk, historyVars>>

CloseReturns ==
    /\ stage = "closing" /\ pc = Nobody /\ stage' = "closed"
    /\ UNCHANGED <<over, managerVars, expired, disk, historyVars>>

-----------------------------------------------------------------------------
(* job.go: requests, each of them one critical section. *)

Serving == stage # "down"

\* startLocked; a context derived from a cancelled one is born cancelled.
Launch(j) ==
    IF stage = "running"
    THEN /\ tasks' = tasks \cup {j}
         /\ pc' = [pc EXCEPT ![j] = "looking"]
         /\ cancelled' = IF over THEN cancelled \cup {j} ELSE cancelled
    ELSE UNCHANGED <<tasks, pc, cancelled>>

Room == Cardinality(jobs) < MaxJobs

Create(j) ==
    /\ Serving /\ j \notin drawn /\ Room
    /\ drawn' = drawn \cup {j}
    /\ jobs' = jobs \cup {j}
    /\ Saved(jobs')
    /\ owed' = owed \cup {j}
    /\ Launch(j)
    /\ UNCHANGED <<stage, over, expired, refused>>

\* Mutant: the job stays in the table when the save fails.
CreateNotUndone(j) ==
    /\ Serving /\ j \notin drawn /\ Room
    /\ drawn' = drawn \cup {j} /\ refused' = refused \cup {j}
    /\ jobs' = jobs \cup {j}
    /\ UNCHANGED <<stage, over, tasks, cancelled, pc, expired, disk, owed>>

CreateRefused(j) ==
    /\ Serving /\ j \notin drawn /\ Room
    /\ drawn' = drawn \cup {j} /\ refused' = refused \cup {j}
    /\ UNCHANGED <<stage, over, managerVars, expired, disk, owed>>

\* The table is changed, and the tasks cancelled, whether or not the save
\* that follows succeeds; nothing is saved when nothing was removed.
Removes(js) ==
    /\ Serving
    /\ owed' = owed \ js
    /\ jobs' = jobs \ js
    /\ cancelled' = cancelled \cup (js \cap jobs \cap tasks)
    /\ tasks' = tasks \ (js \cap jobs)
    /\ \/ Unsaved
       \/ js \cap jobs # {} /\ Saved(jobs')
    /\ UNCHANGED <<stage, over, pc, expired, drawn, refused>>

Stop(j) == j \in drawn /\ Removes({j})

StopSession(s) == Removes({j \in Jobs : SessionOf[j] = s})

-----------------------------------------------------------------------------
(* scheduler.go: run.  The two selects wait for a timer or for the context *)
(* and take either when both are ready.                                    *)

Moves(j, from, to) == pc[j] = from /\ pc' = [pc EXCEPT ![j] = to]

Wakes(j) ==
    /\ Moves(j, "sleeping", "looking")
    /\ UNCHANGED <<stage, over, jobs, tasks, cancelled, expired, disk, historyVars>>

Quits(j) ==
    /\ j \in cancelled
    /\ Moves(j, "sleeping", "ending")
    /\ UNCHANGED <<stage, over, jobs, tasks, cancelled, expired, disk, historyVars>>

LooksGone(j) ==
    /\ j \notin jobs
    /\ Moves(j, "looking", "ending")
    /\ UNCHANGED <<stage, over, jobs, tasks, cancelled, expired, disk, historyVars>>

LooksExpired(j) ==
    /\ j \in jobs \cap expired
    /\ Moves(j, "looking", "ending")
    /\ jobs' = jobs \ {j}
    /\ Saved(jobs') \/ Unsaved
    /\ UNCHANGED <<stage, over, tasks, cancelled, expired, historyVars>>

LooksDue(j) ==
    /\ j \in jobs \ expired
    /\ Moves(j, "looking", "firing")
    /\ UNCHANGED <<stage, over, jobs, tasks, cancelled, expired, disk, historyVars>>

\* CallRPC returns: an answer, an error, FireTimeout or a cancelled context.
FireReturns(j) ==
    /\ Moves(j, "firing", "fired")
    /\ UNCHANGED <<stage, over, jobs, tasks, cancelled, expired, disk, historyVars>>

\* Mutant: the goroutine gives up after a fire.
GivesUp(j) ==
    /\ Moves(j, "fired", "ending")
    /\ UNCHANGED <<stage, over, jobs, tasks, cancelled, expired, disk, historyVars>>

\* Fires, LastFire and LastError are updated and the table is saved.
Records(j) ==
    /\ j \in jobs
    /\ Moves(j, "fired", "sleeping")
    /\ Saved(jobs) \/ Unsaved
    /\ UNCHANGED <<stage, over, jobs, tasks, cancelled, expired, historyVars>>

RecordsNothing(j) ==
    /\ j \notin jobs
    /\ Moves(j, "fired", "ending")
    /\ UNCHANGED <<stage, over, jobs, tasks, cancelled, expired, disk, historyVars>>

\* The deferred calls: the task is dropped, then the wait group is told.
Ends(j) ==
    /\ Moves(j, "ending", "none")
    /\ tasks' = tasks \ {j}
    /\ cancelled' = cancelled \ {j}
    /\ UNCHANGED <<stage, over, jobs, expired, disk, historyVars>>

RunStep(j) ==
    \/ Wakes(j) \/ Quits(j) \/ LooksGone(j) \/ LooksExpired(j) \/ LooksDue(j)
    \/ FireReturns(j) \/ Records(j) \/ RecordsNothing(j) \/ Ends(j)

Next ==
    \/ Load \/ Crash \/ StartFails \/ Start \/ RunCancelled \/ Close \/ CloseReturns
    \/ \E j \in Jobs :
         \/ Create(j) \/ CreateRefused(j) \/ CrashInCreate(j) \/ Stop(j)
         \/ TimePasses(j) \/ RunStep(j)
    \/ \E s \in Sessions : StopSession(s)
    \/ \E js \in SUBSET Jobs : CrashInStop(js)

Spec == Init /\ [][Next]_vars

\* The goroutines run; a timer that is set fires, and a call returns by
\* FireTimeout.  Of a timer and a cancelled context select may take the timer,
\* but not for ever.
Fairness ==
    /\ \A j \in Jobs : WF_vars(RunStep(j)) /\ SF_vars(Quits(j))
    /\ WF_vars(CloseReturns)

FairSpec == Spec /\ Fairness

-----------------------------------------------------------------------------
(* job.go:85-89, store.go:1-2: a job whose creation was acknowledged is in  *)
(* the store, through crashes, restarts, failed saves and the saves of      *)
(* other jobs, until it expires or somebody asks to stop it.                *)
AckedDurable == owed \subseteq disk

(* job.go:86-89: a refused creation leaves nothing behind: its job is in    *)
(* neither table nor store, and so can neither fire nor come back.          *)
RefusedLeavesNothing == refused \cap (jobs \cup disk) = {}

(* job.go:67, store.go:36: the limit holds in memory and in the store, and  *)
(* so no restart has to drop a job.                                         *)
LimitHolds == Cardinality(jobs) <= MaxJobs /\ Cardinality(disk) <= MaxJobs

(* job.go:90, loops.go:82-88, scheduler.go:22-98: while the manager runs no *)
(* job is left without a goroutine that will fire it and that Stop and      *)
(* Close can cancel.                                                        *)
JobsRun ==
    stage = "running" /\ ~over =>
        \A j \in jobs : pc[j] \notin {"none", "ending"} /\ j \in tasks \ cancelled

(* loops.go:96-111: after Close has returned no goroutine fires a prompt    *)
(* into the hub that is closed next, whatever requests still come in.       *)
CloseBarrier == stage = "closed" => pc = Nobody

(* loops.go:110: Close returns although its jobs neither expire nor are      *)
(* stopped.                                                                 *)
CloseEnds == stage = "closing" ~> stage \in {"closed", "down"}
=============================================================================
