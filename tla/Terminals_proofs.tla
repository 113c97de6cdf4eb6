--------------------------- MODULE Terminals_proofs ---------------------------
(***************************************************************************)
(* The daemon's terminals, for any number of operations, terminals and     *)
(* sessions: types, custody of the processes, Close and exit statuses.     *)
(***************************************************************************)
EXTENDS Terminals, TLAPS

-----------------------------------------------------------------------------
(* The inductive invariant.                                                *)

\* What the process table, the wait goroutine and the stored status have to do
\* with each other.
Accounts ==
    \A t \in Terminals :
        /\ wait[t] = "none" => alive[t] = {} /\ end[t] = "running"
        /\ wait[t] = "none" => t \notin entries \cup doomed
        /\ wait[t] \in {"reaped", "done"} => alive[t] = {}
        /\ wait[t] # "none" => ("leader" \in alive[t] <=> end[t] = "running")
        /\ wait[t] = "done" => status[t] = end[t]
        /\ told[t] # {} => wait[t] = "done"

\* A terminal whose exit is not yet recorded is in the table, or in the hands of
\* someone who waits for it: whoever kills a terminal returns when it is done.
Awaited(t) ==
    \/ t \in entries \cup doomed
    \/ \E k \in Killing : target[k] = t /\ pc[k] \in {"found", "signalling", "awaiting"}

Custody == \A t \in Terminals : wait[t] \in {"waiting", "reaped"} => Awaited(t)

\* Hub.Close: the flags go up before the table is taken, what was taken is
\* killed before Close waits, and nothing starts in between.
Barrier ==
    /\ closing # "open" => hubClosed
    /\ closing \in {"stored", "taken", "killed", "done"} => closed
    /\ closing \in {"taken", "killed", "done"} => entries = {}
    /\ closing # "taken" => doomed = {} /\ pc[Closer] = "idle"
    /\ closing = "done" => Working = {}

Inv == TypeOK /\ Accounts /\ Custody /\ Barrier /\ NoOrphan /\ StatusIsTrue

(* Initially there is no terminal and nobody works on one.                 *)
LEMMA InvInitially == Init => Inv
<1> SUFFICES ASSUME Init PROVE Inv
  OBVIOUS
<1> USE TerminalAssumption
<1>1. TypeOK
  BY DEF Init, TypeOK, Killers, Closer, Ends
<1>2. Accounts /\ Custody /\ NoOrphan /\ StatusIsTrue
  BY DEF Init, Accounts, Custody, NoOrphan, StatusIsTrue
<1>3. Barrier
  BY DEF Init, Barrier, Working, Killers, Closer
<1>4. QED
  BY <1>1, <1>2, <1>3 DEF Inv

\* Whoever has to end a terminal, and those of them who have not signalled yet.
Hands(t) == {k \in Killing : target[k] = t /\ pc[k] \in {"found", "signalling", "awaiting"}}
ArmedHands(t) == {k \in Killing : target[k] = t /\ pc[k] \in {"found", "signalling"}}

(* A step that moves no process and takes no terminal out of anyone's hands *)
(* keeps what is known of the processes.                                    *)
LEMMA HandsKept ==
    ASSUME Inv, UNCHANGED <<processVars, told, entries, doomed, closing>>,
           \A t \in Terminals : Hands(t) \subseteq Hands(t)',
           \A t \in Terminals : ArmedHands(t) \subseteq ArmedHands(t)'
    PROVE  Accounts' /\ Custody' /\ NoOrphan' /\ StatusIsTrue'
<1> USE DEF Inv, processVars
<1>1. Accounts' /\ StatusIsTrue'
  BY DEF Accounts, StatusIsTrue
<1>2. ASSUME NEW t \in Terminals, Awaited(t)
      PROVE  Awaited(t)'
  BY <1>2 DEF Awaited, Hands
<1>3. ASSUME NEW t \in Terminals, BeingKilled(t)
      PROVE  BeingKilled(t)'
  BY <1>3 DEF BeingKilled, ArmedHands
<1>4. QED
  BY <1>1, <1>2, <1>3 DEF Custody, NoOrphan

(* An operation that has not found its terminal yet holds none.            *)
LEMMA OthersKeepHands ==
    ASSUME Inv, NEW o \in Operations,
           pc[o] \in {"idle", "started", "opened"} \/ kind[o] \in {"output", "wait"},
           \A k \in Killers \ {o} : pc'[k] = pc[k] /\ target'[k] = target[k],
           \A q \in Operations \ {o} : kind'[q] = kind[q]
    PROVE  \A t \in Terminals :
               Hands(t) \subseteq Hands(t)' /\ ArmedHands(t) \subseteq ArmedHands(t)'
BY TerminalAssumption DEF Inv, TypeOK, Hands, ArmedHands, Killing, Of, Killers, Closer

(* The steps of an operation until it has found its terminal, and those of *)
(* one that only reads.                                                    *)
LEMMA OperationKeeps ==
    ASSUME Inv, NEW o \in Operations, OperationStep(o)
    PROVE  Inv'
<1> USE TerminalAssumption DEF Inv, TypeOK, Killers, closeVars, processVars
<1>1. CASE Skipped(o) \/ CreateFails(o) \/ Unknown(o)
  <2>1. /\ pc[o] \in {"started", "opened"} /\ Ended(o, pc[o])
        /\ UNCHANGED <<closeVars, entries, owner, processVars, told>>
    BY <1>1 DEF Skipped, CreateFails, Unknown, Ended
  <2>2. Accounts' /\ Custody' /\ NoOrphan' /\ StatusIsTrue'
    BY <2>1, OthersKeepHands, HandsKept DEF Ended
  <2>3. TypeOK'
    BY <2>1 DEF Ended
  <2>4. Barrier'
    BY <2>1 DEF Ended, Barrier, Working
  <2>5. QED
    BY <2>2, <2>3, <2>4
<1>2. CASE CreateChecks(o) \/ Finds(o)
  <2>1. /\ pc[o] = "started"
        /\ UNCHANGED <<closeVars, over, kind, session, target, entries, owner, processVars, told>>
        /\ pc' = [pc EXCEPT ![o] = "opened"] \/ (Mine(o) /\ pc' = [pc EXCEPT ![o] = "found"])
    BY <1>2 DEF CreateChecks, Finds, Goto
  <2>2. Accounts' /\ Custody' /\ NoOrphan' /\ StatusIsTrue'
    BY <2>1, OthersKeepHands, HandsKept
  <2>3. TypeOK'
    BY <2>1 DEF Mine, Accounts
  <2>4. Barrier'
    BY <2>1 DEF Barrier, Working
  <2>5. QED
    BY <2>2, <2>3, <2>4
<1>3. CASE Releases(o)
  <2> DEFINE s == target[o]
  <2>1. /\ pc[o] = "started" /\ kind[o] = "release" /\ s \in entries /\ entries' = entries \ {s}
        /\ UNCHANGED <<closeVars, over, kind, session, target, owner, processVars, told>>
        /\ pc' = [pc EXCEPT ![o] = "found"]
    BY <1>3 DEF Releases, Goto, Mine
  <2>2. TypeOK'
    BY <2>1 DEF Accounts
  <2>3. Accounts' /\ StatusIsTrue'
    BY <2>1 DEF Accounts, StatusIsTrue
  <2>4. Barrier'
    BY <2>1 DEF Barrier, Working
  <2>5. o \in Killing' /\ target'[o] = s /\ pc'[o] = "found"
    BY <2>1 DEF Killing, Of
  <2>6. \A t \in Terminals : Hands(t) \subseteq Hands(t)' /\ ArmedHands(t) \subseteq ArmedHands(t)'
    BY <2>1, OthersKeepHands
  <2>7. ASSUME NEW t \in Terminals, Awaited(t)
        PROVE  Awaited(t)'
    BY <2>1, <2>5, <2>6, <2>7 DEF Awaited, Hands
  <2>8. ASSUME NEW t \in Terminals, t \in entries \/ BeingKilled(t)
        PROVE  t \in entries' \/ BeingKilled(t)'
    BY <2>1, <2>5, <2>6, <2>8 DEF BeingKilled, ArmedHands
  <2>9. Custody' /\ NoOrphan'
    BY <2>1, <2>7, <2>8 DEF Custody, NoOrphan, Barrier
  <2>10. QED
    BY <2>2, <2>3, <2>4, <2>9
<1>4. CASE OutputReplies(o) \/ WaitReplies(o)
  <2> DEFINE s == target[o]
  <2>1. /\ kind[o] \in {"output", "wait"} /\ Ended(o, "found") /\ s \in Terminals
        /\ UNCHANGED <<closeVars, entries, owner, processVars>>
        /\ Tells(o) \/ told' = told
    BY <1>4 DEF OutputReplies, WaitReplies, Ended
  <2>2. TypeOK'
    BY <2>1 DEF Ended, Tells
  <2>3. Accounts' /\ StatusIsTrue'
    BY <2>1 DEF Accounts, StatusIsTrue, Tells
  <2>4. Barrier'
    BY <2>1 DEF Ended, Barrier, Working
  <2>5. \A t \in Terminals : Hands(t) \subseteq Hands(t)' /\ ArmedHands(t) \subseteq ArmedHands(t)'
    BY <2>1, OthersKeepHands DEF Ended
  <2>6. Custody' /\ NoOrphan'
    BY <2>1, <2>5 DEF Custody, NoOrphan, Awaited, Hands, BeingKilled, ArmedHands
  <2>7. QED
    BY <2>2, <2>3, <2>4, <2>6
<1>5. ASSUME NEW t \in Terminals, CreateStarts(o, t)
      PROVE  Inv'
  <2>1. /\ ~closed /\ Ended(o, "opened") /\ wait[t] = "none"
        /\ entries' = entries \cup {t} /\ owner' = [owner EXCEPT ![t] = session[o]]
        /\ alive' = [alive EXCEPT ![t] = {"leader"}]
        /\ wait' = [wait EXCEPT ![t] = "waiting"]
        /\ UNCHANGED <<closeVars, end, status, told>>
    BY <1>5 DEF CreateStarts, CreateProcess
  <2>2. TypeOK'
    BY <2>1 DEF Ended
  <2>3. Accounts' /\ StatusIsTrue'
    BY <2>1 DEF Accounts, StatusIsTrue
  <2>4. Barrier'
    BY <2>1 DEF Ended, Barrier, Working
  <2>5. \A u \in Terminals : Hands(u) \subseteq Hands(u)' /\ ArmedHands(u) \subseteq ArmedHands(u)'
    BY <2>1, OthersKeepHands DEF Ended
  <2>6. closing \in {"open", "flagged"}
    BY <2>1 DEF Barrier
  <2>7. Custody' /\ NoOrphan'
    BY <2>1, <2>5, <2>6 DEF Custody, NoOrphan, Awaited, Hands, BeingKilled, ArmedHands
  <2>8. QED
    BY <2>2, <2>3, <2>4, <2>7
<1>6. QED
  BY <1>1, <1>2, <1>3, <1>4, <1>5 DEF OperationStep

(* An operation starts only while the hub is open.                         *)
LEMMA StartKeeps ==
    ASSUME Inv, NEW o \in Operations, NEW k \in Kinds, NEW s \in Sessions, NEW t \in Terminals,
           Starts(o, k, s, t)
    PROVE  Inv'
<1> USE TerminalAssumption DEF Inv, TypeOK, Killers, closeVars, processVars, Starts
<1>1. Accounts' /\ Custody' /\ NoOrphan' /\ StatusIsTrue'
  BY OthersKeepHands, HandsKept
<1>2. TypeOK'
  OBVIOUS
<1>3. Barrier'
  BY DEF Barrier, Working, Closer
<1>4. QED
  BY <1>1, <1>2, <1>3

(* kill lets go of a terminal only once its exit is recorded, and of its   *)
(* process group only once it has been signalled.                          *)
LEMMA KillKeeps ==
    ASSUME Inv, NEW k \in Killers, KillStep(k)
    PROVE  Inv'
<1> USE TerminalAssumption DEF Inv, TypeOK, closeVars, processVars
<1> DEFINE s == target[k]
<1>1. CASE KillReturns(k, "found") \/ KillReturns(k, "awaiting")
  <2>0. UNCHANGED <<closeVars, entries, owner, processVars>>
    BY <1>1 DEF KillStep, KillReturns, KillChecks, KillSignals, KillAwaits, Ended, Goto
  <2>1. /\ Ended(k, "found") \/ Ended(k, "awaiting")
        /\ wait[s] = "done" /\ s \in Terminals /\ told' = told
    BY <1>1 DEF KillReturns, Ended
  <2>2. TypeOK'
    BY <2>0, <2>1 DEF Ended, Killers
  <2>3. Accounts' /\ StatusIsTrue'
    BY <2>0, <2>1 DEF Accounts, StatusIsTrue
  <2>4. Barrier'
    BY <2>0, <2>1 DEF Ended, Barrier, Working, Closer, Killers
  <2>5. ASSUME NEW t \in Terminals, t # s
        PROVE  Hands(t) \subseteq Hands(t)' /\ ArmedHands(t) \subseteq ArmedHands(t)'
    BY <2>1, <2>5 DEF Ended, Hands, ArmedHands, Killing, Of, Killers
  <2>6. alive[s] = {} /\ wait'[s] = "done" /\ alive'[s] = {}
    BY <2>0, <2>1 DEF Accounts
  <2>7. ASSUME NEW t \in Terminals, t # s
        PROVE  /\ Awaited(t) => Awaited(t)'
               /\ BeingKilled(t) => BeingKilled(t)'
    BY <2>0, <2>5, <2>7 DEF Awaited, Hands, BeingKilled, ArmedHands
  <2>8. Custody' /\ NoOrphan'
    BY <2>0, <2>6, <2>7 DEF Custody, NoOrphan
  <2>9. QED
    BY <2>2, <2>3, <2>4, <2>8
<1>2. CASE Goto(k, "found", "signalling")
  <2>1. /\ UNCHANGED <<closeVars, entries, owner, processVars, told>>
        /\ pc[k] = "found" /\ pc' = [pc EXCEPT ![k] = "signalling"]
        /\ UNCHANGED <<over, kind, session, target>>
    BY <1>2 DEF KillStep, KillChecks, KillSignals, KillAwaits, KillReturns, Ended, Goto
  <2>2. \A t \in Terminals : Hands(t) \subseteq Hands(t)' /\ ArmedHands(t) \subseteq ArmedHands(t)'
    BY <2>1 DEF Hands, ArmedHands, Killing, Of, Killers
  <2>3. Accounts' /\ Custody' /\ NoOrphan' /\ StatusIsTrue'
    BY <2>1, <2>2, HandsKept
  <2>4. TypeOK'
    BY <2>1
  <2>5. Barrier'
    BY <2>1 DEF Barrier, Working, Killers
  <2>6. QED
    BY <2>3, <2>4, <2>5
<1>3. CASE KillSignals(k)
  <2>1. /\ pc[k] = "signalling" /\ pc' = [pc EXCEPT ![k] = "awaiting"] /\ s \in Terminals
        /\ alive' = [alive EXCEPT ![s] = @ \ {"leader", "child"}]
        /\ end' = [end EXCEPT ![s] = IF "leader" \in alive[s] THEN "killed" ELSE @]
        /\ UNCHANGED <<over, kind, session, target, closeVars, entries, owner, wait, status, told>>
    BY <1>3 DEF KillSignals, Goto
  <2>2. TypeOK'
    BY <2>1 DEF Ends
  <2>3. Accounts' /\ StatusIsTrue'
    BY <2>1 DEF Accounts, StatusIsTrue
  <2>4. Barrier'
    BY <2>1 DEF Barrier, Working, Killers
  <2>5. \A t \in Terminals : /\ Hands(t) \subseteq Hands(t)'
                             /\ t # s => ArmedHands(t) \subseteq ArmedHands(t)'
    BY <2>1 DEF Hands, ArmedHands, Killing, Of, Killers
  <2>6. alive'[s] \cap {"leader", "child"} = {} /\ \A t \in Terminals \ {s} : alive'[t] = alive[t]
    BY <2>1
  <2>7. \A t \in Terminals : /\ Awaited(t) => Awaited(t)'
                             /\ t # s /\ BeingKilled(t) => BeingKilled(t)'
    BY <2>1, <2>5 DEF Awaited, Hands, BeingKilled, ArmedHands
  <2>8. Custody' /\ NoOrphan'
    BY <2>1, <2>6, <2>7 DEF Custody, NoOrphan
  <2>9. QED
    BY <2>2, <2>3, <2>4, <2>8
<1>4. QED
  BY <1>1, <1>2, <1>3 DEF KillStep, KillChecks, KillAwaits

(* Processes fork and exit; the wait goroutine records an exit once no     *)
(* process is left.                                                        *)
LEMMA ProcessKeeps ==
    ASSUME Inv, NEW t \in Terminals,
           WaitStep(t) \/ \E p \in {"leader", "child", "escaped"} : Forks(t, p) \/ Exits(t, p)
    PROVE  Inv'
<1> USE TerminalAssumption DEF Inv, TypeOK, closeVars, operationVars, processVars
<1>1. /\ UNCHANGED <<closeVars, operationVars, entries, owner, told>>
      /\ \A u \in Terminals \ {t} : alive'[u] = alive[u] /\ wait'[u] = wait[u]
      /\ wait'[t] \in {"waiting", "reaped"} => wait[t] \in {"waiting", "reaped"}
      /\ wait'[t] = "none" => wait[t] = "none"
      /\ alive'[t] \cap {"leader", "child"} # {} => alive[t] \cap {"leader", "child"} # {}
  BY DEF WaitStep, WaitReturns, StoresStatus, Forks, Exits
<1>2. \A u \in Terminals : (Awaited(u) => Awaited(u)') /\ (BeingKilled(u) => BeingKilled(u)')
  BY <1>1 DEF Awaited, BeingKilled, Killing, Of
<1>3. Custody' /\ NoOrphan'
  BY <1>1, <1>2 DEF Custody, NoOrphan
<1>4. Barrier'
  BY <1>1 DEF Barrier, Working
<1>5. CASE WaitReturns(t)
  <2>1. TypeOK'
    BY <1>5 DEF WaitReturns
  <2>2. Accounts' /\ StatusIsTrue'
    BY <1>5 DEF WaitReturns, Accounts, StatusIsTrue
  <2>3. QED
    BY <1>3, <1>4, <2>1, <2>2
<1>6. CASE StoresStatus(t)
  <2>1. TypeOK'
    BY <1>6 DEF StoresStatus
  <2>2. Accounts' /\ StatusIsTrue'
    BY <1>6 DEF StoresStatus, Accounts, StatusIsTrue
  <2>3. QED
    BY <1>3, <1>4, <2>1, <2>2
<1>7. ASSUME NEW p \in {"leader", "child", "escaped"}, Forks(t, p)
      PROVE  Inv'
  <2>1. TypeOK'
    BY <1>7 DEF Forks
  <2>2. Accounts' /\ StatusIsTrue'
    BY <1>7 DEF Forks, Accounts, StatusIsTrue
  <2>3. QED
    BY <1>3, <1>4, <2>1, <2>2
<1>8. ASSUME NEW p \in {"leader", "child", "escaped"}, Exits(t, p)
      PROVE  Inv'
  <2>1. TypeOK'
    BY <1>8 DEF Exits, Ends
  <2>2. Accounts' /\ StatusIsTrue'
    BY <1>8 DEF Exits, Accounts, StatusIsTrue
  <2>3. QED
    BY <1>3, <1>4, <2>1, <2>2
<1>9. QED
  BY <1>5, <1>6, <1>7, <1>8 DEF WaitStep

(* Hub.Close, and the loss of the agent.                                   *)
LEMMA CloseKeeps ==
    ASSUME Inv, CloseStep \/ CloseFlags \/ AgentGoes
    PROVE  Inv'
<1> USE TerminalAssumption DEF Inv, TypeOK, Killers, closeVars, operationVars, processVars
<1>1. CASE AgentGoes
  <2>1. TypeOK' /\ Barrier'
    BY <1>1 DEF AgentGoes, Working, Barrier
  <2>2. Accounts' /\ Custody' /\ NoOrphan' /\ StatusIsTrue'
    BY <1>1, HandsKept DEF AgentGoes, Hands, ArmedHands, Killing, Of
  <2>3. QED
    BY <2>1, <2>2
<1>2. CASE CloseFlags \/ CloseStores \/ CloseHasKilled \/ CloseWaits
  <2>1. UNCHANGED <<kind, target, pc, entries, processVars, told, doomed>>
    BY <1>2 DEF CloseFlags, CloseStores, CloseHasKilled, CloseWaits
  <2>2. TypeOK'
    <3>1. /\ over' \in SUBSET Operations /\ session' = session /\ owner' = owner
          /\ hubClosed' \in BOOLEAN /\ closed' \in BOOLEAN
          /\ closing' \in {"flagged", "stored", "killed", "done"}
      BY <1>2 DEF CloseFlags, CloseStores, CloseHasKilled, CloseWaits, Working
    <3>2. QED
      BY <2>1, <3>1
  <2>3. Barrier'
    BY <1>2 DEF CloseFlags, CloseStores, CloseHasKilled, CloseWaits, Working, Barrier
  <2>4. Accounts' /\ StatusIsTrue'
    BY <2>1 DEF Accounts, StatusIsTrue
  <2>5. \A t \in Terminals : (Awaited(t) => Awaited(t)') /\ (BeingKilled(t) => BeingKilled(t)')
    BY <2>1 DEF Awaited, BeingKilled, Killing, Of
  <2>6. \A t \in Terminals : t \in entries => closing' \in {"open", "flagged", "stored"}
    BY <1>2 DEF CloseFlags, CloseStores, CloseHasKilled, CloseWaits, Barrier
  <2>7. Custody' /\ NoOrphan'
    BY <2>1, <2>5, <2>6 DEF Custody, NoOrphan
  <2>8. QED
    BY <2>2, <2>3, <2>4, <2>7
<1>3. CASE CloseTakes
  <2>1. /\ closing = "stored" /\ closing' = "taken" /\ doomed' = entries /\ entries' = {}
        /\ UNCHANGED <<hubClosed, closed, operationVars, owner, processVars, told>>
    BY <1>3 DEF CloseTakes
  <2>2. TypeOK' /\ Barrier'
    BY <2>1 DEF Barrier, Working
  <2>3. Accounts' /\ StatusIsTrue'
    BY <2>1 DEF Accounts, StatusIsTrue
  <2>4. \A t \in Terminals : /\ Awaited(t) => Awaited(t)'
                             /\ t \in entries \/ BeingKilled(t) => BeingKilled(t)'
    BY <2>1 DEF Awaited, BeingKilled, Killing, Of, Barrier
  <2>5. Custody' /\ NoOrphan'
    BY <2>1, <2>4 DEF Custody, NoOrphan
  <2>6. QED
    BY <2>2, <2>3, <2>5
<1>4. ASSUME NEW t \in Terminals, CloseKills(t)
      PROVE  Inv'
  <2>1. /\ closing = "taken" /\ t \in doomed /\ doomed' = doomed \ {t} /\ pc[Closer] = "idle"
        /\ pc' = [pc EXCEPT ![Closer] = "found"] /\ target' = [target EXCEPT ![Closer] = t]
        /\ UNCHANGED <<hubClosed, closed, closing, over, kind, session, entries, owner,
                       processVars, told>>
    BY <1>4 DEF CloseKills
  <2>2. TypeOK'
    BY <2>1 DEF Accounts
  <2>3. Barrier'
    BY <2>1 DEF Barrier, Working
  <2>4. Accounts' /\ StatusIsTrue'
    BY <2>1 DEF Accounts, StatusIsTrue
  <2>5. Closer \in Killing' /\ target'[Closer] = t /\ pc'[Closer] = "found"
    BY <2>1 DEF Killing
  <2>6. \A u \in Terminals : Hands(u) \subseteq Hands(u)' /\ ArmedHands(u) \subseteq ArmedHands(u)'
    BY <2>1 DEF Hands, ArmedHands, Killing, Of
  <2>7. \A u \in Terminals : (Awaited(u) => Awaited(u)') /\ (BeingKilled(u) => BeingKilled(u)')
    BY <2>1, <2>5, <2>6 DEF Awaited, BeingKilled, Hands, ArmedHands
  <2>8. Custody' /\ NoOrphan'
    BY <2>1, <2>7 DEF Custody, NoOrphan
  <2>9. QED
    BY <2>2, <2>3, <2>4, <2>8
<1>5. QED
  BY <1>1, <1>2, <1>3, <1>4 DEF CloseStep

(* Every step keeps the invariant.                                         *)
LEMMA InvStep == Inv /\ [Next]_vars => Inv'
<1> SUFFICES ASSUME Inv, [Next]_vars
             PROVE  Inv'
  OBVIOUS
<1>1. CASE UNCHANGED vars
  <2> USE <1>1 DEF vars, closeVars, operationVars, processVars
  <2>1. TypeOK'
    BY DEF Inv, TypeOK
  <2>2. Accounts' /\ StatusIsTrue'
    BY DEF Inv, Accounts, StatusIsTrue
  <2>3. Custody' /\ NoOrphan'
    BY DEF Inv, Custody, NoOrphan, Awaited, BeingKilled, Killing, Of
  <2>4. Barrier'
    BY DEF Inv, Barrier, Working
  <2>5. QED
    BY <2>1, <2>2, <2>3, <2>4 DEF Inv
<1>2. CASE Next
  BY <1>1, <1>2, OperationKeeps, StartKeeps, KillKeeps, ProcessKeeps, CloseKeeps
     DEF Next, Terminated
<1>3. QED
  BY <1>1, <1>2

(* The invariant holds of every behaviour.                                 *)
LEMMA Invariance == Spec => []Inv
BY InvInitially, InvStep, PTL DEF Spec

-----------------------------------------------------------------------------
(* The state keeps its types; whoever kills a terminal works on one that   *)
(* was started.                                                            *)
THEOREM TerminalsTypeCorrect == Spec => []TypeOK
<1>1. Inv => TypeOK
  BY DEF Inv
<1>2. QED
  BY <1>1, Invariance, PTL

(* terminal.go:198-200, 283-316: whatever races of create, release and     *)
(* close, a process that runs is in the table or in the hands of someone   *)
(* who has still to kill it.                                               *)
THEOREM TerminalsNoOrphan == Spec => []NoOrphan
<1>1. Inv => NoOrphan
  BY DEF Inv
<1>2. QED
  BY <1>1, Invariance, PTL

(* terminal.go:121-122, hub.go:146-147: when Close returns no operation is *)
(* in flight and every process of every terminal is gone and reaped.       *)
THEOREM TerminalsCloseReaps == Spec => []CloseReaps
<1>1. Inv => CloseReaps
  <2> SUFFICES ASSUME Inv, closing = "done", NEW t \in Terminals
               PROVE  Working = {} /\ alive[t] = {} /\ wait[t] \in {"none", "done"}
    BY DEF CloseReaps, Inv, Barrier
  <2>1. Working = {} /\ entries = {} /\ doomed = {} /\ pc[Closer] = "idle"
    BY DEF Inv, Barrier
  <2>2. \A k \in Killing : pc[k] = "idle"
    BY <2>1 DEF Killing, Of, Working
  <2>3. ~Awaited(t)
    BY <2>1, <2>2 DEF Awaited
  <2>4. wait[t] \in {"none", "done"}
    BY <2>3 DEF Inv, TypeOK, Custody
  <2>5. QED
    BY <2>1, <2>4 DEF Inv, Accounts
<1>2. QED
  BY <1>1, Invariance, PTL

(* terminal.go:84-88: an exit status the agent was told is how the leader  *)
(* ended.                                                                  *)
THEOREM TerminalsStatusIsTrue == Spec => []StatusIsTrue
<1>1. Inv => StatusIsTrue
  BY DEF Inv
<1>2. QED
  BY <1>1, Invariance, PTL
=============================================================================
