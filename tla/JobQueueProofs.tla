---------------------------- MODULE JobQueueProofs ----------------------------
(* Theorems about JobQueue, for every value of its constants: its invariants, *)
(* and that it implements JobBoard.                                         *)
EXTENDS JobQueue, TLAPS, FiniteSetTheorems

-----------------------------------------------------------------------------
(* Type correctness.  TypeOK is not inductive: what Save writes is a status *)
(* only because of what the steps before it left in the worker.             *)

HoldsJob == {"claimed", "save"} \cup Executing

\* What a worker's local state says at each point of its program.
WorkerShape ==
    \A w \in Worker :
       LET me == worker[w] IN
       /\ me.pc \in HoldsJob => me.job \in JobId
       /\ me.pc = "save" => me.outcome \in Terminal \cup {me.loaded}
       /\ me.pc = "capture" => me.beat = StartEpoch
       /\ me.until > 0 => me.pc \in HoldsJob

TypeInv == TypeOK /\ WorkerShape

\* Replacing one worker's state by a well-formed one keeps all of them so.
LEMMA ReplaceWorker ==
    ASSUME TypeInv, NEW w \in Worker, NEW s \in WorkerState,
           worker' = [worker EXCEPT ![w] = s],
           s.pc \in HoldsJob => s.job \in JobId,
           s.pc = "save" => s.outcome \in Terminal \cup {s.loaded},
           s.pc = "capture" => s.beat = StartEpoch,
           s.until > 0 => s.pc \in HoldsJob
    PROVE  worker' \in [Worker -> WorkerState] /\ WorkerShape'
  BY DEF TypeInv, TypeOK, WorkerShape

\* The ranges of the counters, so that the proofs below need no arithmetic.
LEMMA Ranges ==
    /\ {NoLease, 0, LeaseTicks} \subseteq LeaseLeft
    /\ \A n \in LeaseLeft : Elapse(n) \in LeaseLeft /\ (Elapse(n) > 0 => n > 0)
    /\ 0 \in CreatedAt
    /\ 0 \in Elapsed
    /\ \A n \in Elapsed : n <= MaxRuntime => n + 1 \in Elapsed
    /\ {0, StartEpoch} \subseteq Nat
    /\ \A n \in Elapsed : n <= MaxRuntime => ~(n - StartEpoch >= HeartbeatInterval)
  BY BoundAssumption, TimeAssumption
     DEF LeaseLeft, NoLease, Elapse, CreatedAt, Elapsed

LEMMA IdleIsWorkerState == Idle \in WorkerState
  BY Ranges DEF Idle, WorkerState, Pc

LEMMA NoRowIsRow == NoRow \in Row
  BY Ranges DEF NoRow, Row
\* What a step may write to a row, as far as types go.
LEMMA WrittenRows ==
    ASSUME NEW row \in Row
    PROVE  /\ \A s \in Status : [row EXCEPT !.status = s] \in Row
           /\ \A s \in Status : Released(row, s) \in Row
           /\ \A read : CancelWritten(row, read) \in Row
           /\ \A w \in Worker, p \in Port : Claimed(row, w, p) \in Row
           /\ [row EXCEPT !.lease = Elapse(row.lease)] \in Row
           /\ [row EXCEPT !.lease = LeaseTicks] \in Row
<1>1. \A s \in Status : [row EXCEPT !.status = s] \in Row
  BY DEF Row
<1>2. \A s \in Status : Released(row, s) \in Row
  BY Ranges DEF Row, Released
<1>3. \A read : CancelWritten(row, read) \in Row
  BY DEF Row, CancelWritten, Status, Terminal
<1>4. \A w \in Worker, p \in Port : Claimed(row, w, p) \in Row
  BY Ranges DEF Row, Claimed, Status, Active
<1>5. [row EXCEPT !.lease = Elapse(row.lease)] \in Row
  <2>1. Elapse(row.lease) \in LeaseLeft
    BY Ranges DEF Row
  <2> QED
    BY <2>1 DEF Row
<1>6. [row EXCEPT !.lease = LeaseTicks] \in Row
  BY Ranges DEF Row
<1> QED
  BY <1>1, <1>2, <1>3, <1>4, <1>5, <1>6

LEMMA TypeInit == Init => TypeInv
<1> SUFFICES ASSUME Init PROVE TypeInv
  OBVIOUS
<1>1. TypeOK
  <2>1. 0 \in CreatedAt /\ 0 \in 0 .. MaxFaults
    BY BoundAssumption DEF CreatedAt
  <2> QED
    BY <2>1, NoRowIsRow, IdleIsWorkerState DEF Init, TypeOK
<1>2. WorkerShape
  BY DEF Init, WorkerShape, Idle, HoldsJob, Executing
<1> QED
  BY <1>1, <1>2 DEF TypeInv

\* A worker that drops back to the top of its loop is well-formed.
LEMMA ReplaceByIdle ==
    ASSUME TypeInv, NEW w \in Worker, BackToIdle(w)
    PROVE  worker' \in [Worker -> WorkerState] /\ WorkerShape'
<1>1. /\ Idle.pc \notin HoldsJob
      /\ Idle.pc # "save" /\ Idle.pc # "capture"
      /\ ~(Idle.until > 0)
  BY DEF Idle, HoldsJob, Executing
<1> QED
  BY <1>1, IdleIsWorkerState, ReplaceWorker DEF BackToIdle

\* run_job_on_device returns a final status, or the one that was loaded.
LEMMA ReplaceByReturn ==
    ASSUME TypeInv, NEW w \in Worker, worker[w].pc \in HoldsJob,
           NEW s \in Terminal \cup {worker[w].loaded}, Return(w, s)
    PROVE  worker' \in [Worker -> WorkerState] /\ WorkerShape'
<1>1. worker' = [worker EXCEPT ![w] = [worker[w] EXCEPT !.pc = "save",
                                                        !.outcome = s]]
  BY DEF Return
<1>2. worker[w] \in WorkerState
  BY DEF TypeInv, TypeOK
<1>3. "save" \in Pc /\ s \in Status \cup {"none"}
  BY <1>2 DEF WorkerState, Pc, Status
<1>4. [worker[w] EXCEPT !.pc = "save", !.outcome = s] \in WorkerState
  BY <1>2, <1>3 DEF WorkerState
<1> QED
  BY <1>1, <1>2, <1>4, ReplaceWorker DEF TypeInv, WorkerShape, WorkerState, HoldsJob

\* A step inside run_job_on_device that only moves on.
LEMMA ReplaceByGoto ==
    ASSUME TypeInv, NEW w \in Worker, worker[w].pc \in Executing,
           NEW pc \in {"open", "transfer", "final"}, Goto(w, pc)
    PROVE  worker' \in [Worker -> WorkerState] /\ WorkerShape'
<1>1. worker' = [worker EXCEPT ![w] = [worker[w] EXCEPT !.pc = pc]]
  BY DEF Goto
<1>2. worker[w] \in WorkerState
  BY DEF TypeInv, TypeOK
<1>3. [worker[w] EXCEPT !.pc = pc] \in WorkerState
  BY <1>2 DEF WorkerState, Pc
<1> QED
  BY <1>1, <1>2, <1>3, ReplaceWorker
     DEF TypeInv, WorkerShape, WorkerState, HoldsJob, Executing

\* A claim, or a port passed by, keeps rows and workers well-formed.
LEMMA TypeClaim ==
    ASSUME TypeInv, NEW w \in Worker, NEW p \in Port, NEW rest \in SUBSET Port,
           worker[w].pc \in {"recover", "claim"}, ClaimOn(w, p, rest)
    PROVE  TypeInv'
<1>1. ASSUME NEW j \in Claimable(p),
             jobs' = [jobs EXCEPT ![j] = Claimed(jobs[j], w, p)],
             worker' = [worker EXCEPT
                          ![w] = [Idle EXCEPT !.pc = "claimed", !.job = j,
                                              !.claim = jobs[j].createdAt,
                                              !.until = LeaseTicks]]
      PROVE  TypeInv'
  <2>1. j \in JobId
    BY <1>1 DEF Claimable, Waiting
  <2>2. jobs' \in [JobId -> Row]
    BY <1>1, <2>1, WrittenRows DEF TypeInv, TypeOK
  <2> DEFINE s == [Idle EXCEPT !.pc = "claimed", !.job = j,
                               !.claim = jobs[j].createdAt, !.until = LeaseTicks]
  <2>3. s \in WorkerState
    <3>1. jobs[j].createdAt \in CreatedAt
      BY <2>1 DEF TypeInv, TypeOK, Row
    <3> QED
      BY <2>1, <3>1, IdleIsWorkerState, Ranges DEF WorkerState, Pc
  <2>4. s.pc = "claimed" /\ s.job = j
    BY DEF Idle
  <2>5. worker' \in [Worker -> WorkerState] /\ WorkerShape'
    BY <1>1, <2>1, <2>3, <2>4, ReplaceWorker DEF HoldsJob
  <2> QED
    BY <2>2, <2>5 DEF ClaimOn, TypeInv, TypeOK
<1>2. CASE UNCHANGED jobs /\ BackToIdle(w)
  BY <1>2, ReplaceByIdle DEF ClaimOn, TypeInv, TypeOK
<1>3. CASE /\ UNCHANGED jobs
           /\ worker' = [worker EXCEPT ![w].pc = "claim", ![w].ports = rest]
  <2> DEFINE s == [worker[w] EXCEPT !.pc = "claim", !.ports = rest]
  <2>1. worker' = [worker EXCEPT ![w] = s] /\ worker[w] \in WorkerState
    BY <1>3 DEF TypeInv, TypeOK
  <2>2. s \in WorkerState
    BY <2>1 DEF WorkerState, Pc
  <2>3. s.pc = "claim" /\ ~(s.until > 0)
    BY <2>1 DEF TypeInv, WorkerShape, WorkerState, HoldsJob, Executing
  <2>4. worker' \in [Worker -> WorkerState] /\ WorkerShape'
    BY <2>1, <2>2, <2>3, ReplaceWorker DEF HoldsJob, Executing
  <2> QED
    BY <1>3, <2>4 DEF ClaimOn, TypeInv, TypeOK
<1> QED
  BY <1>1, <1>2, <1>3 DEF ClaimOn

LEMMA TypeNext == TypeInv /\ [Next]_vars => TypeInv'
<1> SUFFICES ASSUME TypeInv, [Next]_vars PROVE TypeInv'
  OBVIOUS
<1> USE DEF TypeInv
<1>0. \A w \in Worker : worker[w] \in WorkerState
  BY DEF TypeOK
<1>1. ASSUME NEW u \in User, NEW j \in JobId, NEW p \in Priority,
             CreateJob(u, j, p)
      PROVE  TypeInv'
  <2>1. created + 1 \in CreatedAt
    BY <1>1, BoundAssumption DEF CreateJob, TypeOK, CreatedAt
  <2>2. [NoRow EXCEPT !.status = "queued", !.priority = p, !.user = u,
                      !.createdAt = created + 1] \in Row
    BY <2>1, NoRowIsRow DEF Row, Status, Active
  <2>4. TypeOK'
    BY <1>1, <2>1, <2>2 DEF CreateJob, TypeOK
  <2>3. WorkerShape'
    BY <1>1 DEF CreateJob, WorkerShape
  <2> QED
    BY <2>3, <2>4
<1>2. ASSUME NEW u \in User, DeleteUser(u) PROVE TypeInv'
  <2>1. TypeOK'
    BY <1>2, NoRowIsRow DEF DeleteUser, TypeOK
  <2>2. WorkerShape'
    BY <1>2 DEF DeleteUser, WorkerShape
  <2> QED
    BY <2>1, <2>2
<1>3. CASE ToggleDevice
  BY <1>3 DEF ToggleDevice, TypeOK, WorkerShape
<1>4. ASSUME NEW r \in Request, NEW j \in JobId, CancelRead(r, j)
      PROVE  TypeInv'
  BY <1>4 DEF CancelRead, TypeOK, WorkerShape
<1>5. ASSUME NEW r \in Request, CancelCommit(r) PROVE TypeInv'
  <2>1. \A j \in JobId : jobs'[j] \in Row
    <3>1. ASSUME NEW j \in JobId PROVE jobs'[j] \in Row
      <4>1. jobs[j] \in Row
        BY DEF TypeOK
      <4>2. jobs'[j] = CancelWritten(jobs[j], pending[r][j]) \/ jobs'[j] = jobs[j]
        BY <1>5 DEF CancelCommit
      <4> QED
        BY <4>1, <4>2, WrittenRows
    <3> QED
      BY <3>1
  <2>2. TypeOK'
    BY <1>5, <2>1 DEF CancelCommit, TypeOK
  <2>3. WorkerShape'
    BY <1>5 DEF CancelCommit, WorkerShape
  <2> QED
    BY <2>2, <2>3
<1>6. ASSUME NEW w \in Worker, WorkerStep(w) PROVE TypeInv'
  <2>1. CASE BeginCycle(w)
    <3> DEFINE s == [worker[w] EXCEPT
                       !.pc = "recover",
                       !.orphans = {j \in JobId : jobs[j].status = "queued"
                                                  /\ jobs[j].cancel}]
    <3>1. worker' = [worker EXCEPT ![w] = s]
      BY <2>1 DEF BeginCycle
    <3>2. s \in WorkerState
      BY <1>0 DEF WorkerState, Pc
    <3>3. s.pc = "recover" /\ ~(s.until > 0)
      BY <1>0, <2>1 DEF BeginCycle, WorkerShape, WorkerState, HoldsJob, Executing
    <3>4. worker' \in [Worker -> WorkerState] /\ WorkerShape'
      BY <3>1, <3>2, <3>3, ReplaceWorker DEF HoldsJob, Executing
    <3> QED
      BY <2>1, <3>4 DEF BeginCycle, TypeOK
  <2>2. ASSUME NEW j \in JobId, CancelOrphan(w, j) PROVE TypeInv'
    <3>1. CASE Present(j)
      <4> DEFINE s == [worker[w] EXCEPT !.orphans = worker[w].orphans \ {j}]
      <4>1. [jobs[j] EXCEPT !.status = "canceled"] \in Row
        BY WrittenRows DEF TypeOK, Status, Terminal
      <4>2. jobs' \in [JobId -> Row]
        BY <2>2, <3>1, <4>1 DEF CancelOrphan, TypeOK
      <4>3. worker' = [worker EXCEPT ![w] = s]
        BY <2>2, <3>1 DEF CancelOrphan
      <4>4. s \in WorkerState
        BY <1>0 DEF WorkerState
      <4>5. s.pc = "recover" /\ ~(s.until > 0)
        BY <1>0, <2>2 DEF CancelOrphan, WorkerShape, WorkerState, HoldsJob,
                          Executing
      <4>6. worker' \in [Worker -> WorkerState] /\ WorkerShape'
        BY <4>3, <4>4, <4>5, ReplaceWorker DEF HoldsJob, Executing
      <4> QED
        BY <2>2, <4>2, <4>6 DEF CancelOrphan, TypeOK
    <3>2. CASE ~Present(j)
      BY <2>2, <3>2, ReplaceByIdle DEF CancelOrphan, TypeOK
    <3> QED
      BY <3>1, <3>2
  <2>3. CASE FindDisabled(w)
    BY <2>3, ReplaceByIdle DEF FindDisabled, TypeOK
  <2>4. ASSUME NEW S \in SUBSET JobId, NEW status \in Status, RecoverTo(w, S, status)
        PROVE  TypeInv'
    <3> DEFINE s == [worker[w] EXCEPT !.pc = "claim", !.ports = Port]
    <3>1. jobs' \in [JobId -> Row]
      BY <2>4, WrittenRows DEF RecoverTo, TypeOK
    <3>2. worker' = [worker EXCEPT ![w] = s]
      BY <2>4 DEF RecoverTo
    <3>3. s \in WorkerState
      BY <1>0 DEF WorkerState, Pc
    <3>4. s.pc = "claim" /\ ~(s.until > 0)
      BY <1>0, <2>4 DEF RecoverTo, InClaimJob, WorkerShape, WorkerState,
                        HoldsJob, Executing
    <3>5. worker' \in [Worker -> WorkerState] /\ WorkerShape'
      BY <3>2, <3>3, <3>4, ReplaceWorker DEF HoldsJob, Executing
    <3> QED
      BY <2>4, <3>1, <3>5 DEF RecoverTo, TypeOK
  <2>5. CASE RecoverCanceled(w)
    BY <2>4, <2>5 DEF RecoverCanceled, StaleCanceled, Stale, Status, Terminal
  <2>6. CASE RecoverQueued(w)
    BY <2>4, <2>6 DEF RecoverQueued, Stale, Status, Active
  <2>7. CASE RecoverNothing(w)
    BY <2>7, TypeClaim DEF RecoverNothing, InClaimJob
  <2>8. CASE ClaimNext(w)
    <3>1. worker[w].ports \in SUBSET Port
      BY DEF TypeOK, WorkerState
    <3> QED
      BY <2>8, <3>1, TypeClaim DEF ClaimNext
  <2>9. CASE LoadClaimed(w)
    <3>1. worker[w].job \in JobId
      BY <2>9 DEF LoadClaimed, WorkerShape, HoldsJob
    <3>2. CASE jobs[worker[w].job].status = "absent"
      BY <2>9, <3>2, ReplaceByIdle DEF LoadClaimed, TypeOK
    <3>3. CASE jobs[worker[w].job].status # "absent"
      <4> DEFINE row == jobs[worker[w].job]
                 pc == IF row.port = None THEN "save" ELSE "start"
                 outcome == IF row.port = None THEN "failed" ELSE "none"
                 s == [worker[w] EXCEPT !.pc = pc, !.port = row.port,
                                        !.loaded = row.status,
                                        !.outcome = outcome]
      <4>1. worker' = [worker EXCEPT ![w] = s]
        BY <2>9, <3>3 DEF LoadClaimed
      <4>2. /\ row.port \in Port \cup {None} /\ row.status \in Status
            /\ pc \in Pc /\ outcome \in Status \cup {"none"}
        BY <3>1, <3>3 DEF TypeOK, Row, Pc, Status, Terminal
      <4>3. s \in WorkerState
        <5> HIDE DEF row, pc, outcome
        <5> QED
          BY <1>0, <4>2 DEF WorkerState
      <4>4. /\ s.pc \in {"save", "start"} /\ s.job \in JobId
            /\ s.pc = "save" => s.outcome \in Terminal
        BY <1>0, <3>1 DEF WorkerState, Terminal
      <4>5. worker' \in [Worker -> WorkerState] /\ WorkerShape'
        <5> HIDE DEF s
        <5> QED
          BY <4>1, <4>3, <4>4, ReplaceWorker DEF HoldsJob, Executing
      <4> QED
        BY <2>9, <4>5 DEF LoadClaimed, TypeOK
    <3> QED
      BY <3>2, <3>3
  <2>10. CASE RunFails(w)
    BY <2>10, ReplaceByReturn DEF RunFails, HoldsJob, Terminal, TypeOK
  <2>11. CASE StartJob(w)
    <3>1. CASE CancelSeen(worker[w].job)
      BY <2>11, <3>1, ReplaceByReturn
         DEF StartJob, HoldsJob, Executing, Terminal, TypeOK
    <3>2. CASE ~CancelSeen(worker[w].job)
      BY <2>11, <3>2, ReplaceByGoto DEF StartJob, Executing, TypeOK
    <3> QED
      BY <3>1, <3>2
  <2>12. CASE OpenPort(w)
    BY <2>12, ReplaceByGoto DEF OpenPort, Executing, TypeOK
  <2>13. CASE TransferCanceled(w)
    BY <2>13, ReplaceByReturn
       DEF TransferCanceled, HoldsJob, Executing, Terminal, TypeOK
  <2>14. CASE TransferDone(w)
    <3> DEFINE s == [worker[w] EXCEPT !.pc = "capture", !.elapsed = 0,
                                      !.beat = StartEpoch]
    <3>1. worker' = [worker EXCEPT ![w] = s]
      BY <2>14 DEF TransferDone, FirstBeat
    <3>2. s \in WorkerState
      BY <1>0, Ranges DEF WorkerState, Pc
    <3>3. s.pc = "capture" /\ s.job \in JobId /\ s.beat = StartEpoch
      BY <1>0, <2>14
         DEF TransferDone, WorkerShape, WorkerState, HoldsJob, Executing
    <3>4. worker' \in [Worker -> WorkerState] /\ WorkerShape'
      BY <3>1, <3>2, <3>3, ReplaceWorker DEF HoldsJob, Executing
    <3> QED
      BY <2>14, <3>4 DEF TransferDone, TypeOK
  <2>15. CASE CaptureTurn(w)
    <3>1. ~HeartbeatDue(w)
      BY <1>0, <2>15, Ranges
         DEF CaptureTurn, HeartbeatDue, WorkerShape, WorkerState
    <3>2. PICK next \in {"capture", "final"} :
             worker' = [worker EXCEPT ![w].pc = next, ![w].beat = worker[w].beat]
      BY <2>15, <3>1 DEF CaptureTurn, TypeOK
    <3> DEFINE s == [worker[w] EXCEPT !.pc = next, !.beat = worker[w].beat]
    <3>3. s \in WorkerState
      BY <1>0, <3>2 DEF WorkerState, Pc
    <3>4. s.pc = next /\ s.job \in JobId /\ s.beat = StartEpoch
      BY <1>0, <2>15
         DEF CaptureTurn, WorkerShape, WorkerState, HoldsJob, Executing
    <3>5. worker' \in [Worker -> WorkerState] /\ WorkerShape'
      BY <3>2, <3>3, <3>4, ReplaceWorker DEF HoldsJob, Executing
    <3> QED
      BY <2>15, <3>1, <3>5 DEF CaptureTurn, TypeOK
  <2>16. CASE CaptureTimeout(w)
    BY <2>16, ReplaceByGoto DEF CaptureTimeout, Executing, TypeOK
  <2>17. CASE FinalCheck(w)
    BY <2>17, ReplaceByReturn DEF FinalCheck, HoldsJob, Executing, Terminal, TypeOK
  <2>18. CASE Save(w)
    <3>1. /\ worker[w].job \in JobId
          /\ worker[w].outcome # worker[w].loaded => worker[w].outcome \in Status
      BY <2>18 DEF Save, WorkerShape, HoldsJob, Status
    <3>2. jobs' \in [JobId -> Row]
      BY <2>18, <3>1, WrittenRows DEF Save, TypeOK
    <3> QED
      BY <2>18, <3>2, ReplaceByIdle DEF Save, TypeOK
  <2> QED
    BY <1>6, <2>1, <2>2, <2>3, <2>5, <2>6, <2>7, <2>8, <2>9, <2>10, <2>11,
       <2>12, <2>13, <2>14, <2>15, <2>16, <2>17, <2>18 DEF WorkerStep
<1>7. ASSUME NEW w \in Worker, Interrupt(w) PROVE TypeInv'
  BY <1>7, ReplaceByIdle, BoundAssumption DEF Interrupt, TypeOK
<1>8. CASE Tick
  <2>1. jobs' \in [JobId -> Row]
    <3>1. ASSUME NEW j \in JobId PROVE jobs'[j] \in Row
      BY <1>8, WrittenRows DEF Tick, TypeOK
    <3> QED
      BY <1>8, <3>1 DEF Tick
  <2>2. ASSUME NEW w \in Worker
        PROVE  /\ worker'[w] \in WorkerState
               /\ \E u \in LeaseLeft, e \in Elapsed :
                     /\ worker'[w] = [worker[w] EXCEPT !.until = u, !.elapsed = e]
                     /\ u > 0 => worker[w].until > 0
    <3> DEFINE e == IF worker[w].pc = "capture" /\ worker[w].elapsed <= MaxRuntime
                    THEN worker[w].elapsed + 1 ELSE worker[w].elapsed
               u == Elapse(worker[w].until)
    <3>1. worker'[w] = [worker[w] EXCEPT !.until = u, !.elapsed = e]
      BY <1>8 DEF Tick
    <3>2. e \in Elapsed
      BY <1>0, Ranges DEF WorkerState
    <3>3. u \in LeaseLeft /\ (u > 0 => worker[w].until > 0)
      BY <1>0, Ranges DEF WorkerState
    <3> HIDE DEF e, u
    <3>4. [worker[w] EXCEPT !.until = u, !.elapsed = e] \in WorkerState
      BY <1>0, <3>2, <3>3 DEF WorkerState
    <3> QED
      BY <3>1, <3>2, <3>3, <3>4
  <2>3. worker' \in [Worker -> WorkerState]
    BY <1>8, <2>2 DEF Tick
  <2>4. WorkerShape'
    <3> SUFFICES ASSUME NEW w \in Worker
                 PROVE  LET me == worker'[w] IN
                        /\ me.pc \in HoldsJob => me.job \in JobId
                        /\ me.pc = "save" =>
                              me.outcome \in Terminal \cup {me.loaded}
                        /\ me.pc = "capture" => me.beat = StartEpoch
                        /\ me.until > 0 => me.pc \in HoldsJob
      BY DEF WorkerShape
    <3>1. PICK u \in LeaseLeft, e \in Elapsed :
             /\ worker'[w] = [worker[w] EXCEPT !.until = u, !.elapsed = e]
             /\ u > 0 => worker[w].until > 0
      BY <2>2
    <3>2. \A f \in {"pc", "job", "outcome", "loaded", "beat"} :
             worker'[w][f] = worker[w][f]
      BY <1>0, <3>1 DEF WorkerState
    <3>3. worker'[w].until = u
      BY <1>0, <3>1 DEF WorkerState
    <3> QED
      BY <3>1, <3>2, <3>3 DEF WorkerShape
  <2> QED
    BY <1>8, <2>1, <2>3, <2>4 DEF Tick, TypeOK
<1>9. CASE UNCHANGED vars
  BY <1>9 DEF vars, TypeOK, WorkerShape
<1> QED
  BY <1>1, <1>2, <1>3, <1>4, <1>5, <1>6, <1>7, <1>8, <1>9 DEF Next, Web

\* Every reachable state is well-typed: no step, a late write of a worker whose
\* row is no longer its own included, puts a value into a row or into a worker
\* that the code does not know.
THEOREM TypeCorrect == Spec => []TypeInv
<1> QED
  BY TypeInit, TypeNext, PTL DEF Spec

THEOREM TypeCorrectness == Spec => []TypeOK
<1>1. TypeInv => TypeOK
  BY DEF TypeInv
<1> QED
  BY <1>1, TypeCorrect, PTL
-----------------------------------------------------------------------------
(* What a step can do to the rows.  Every step is of one of four kinds: time *)
(* passes, a job is submitted, one row is claimed, or rows settle: none of   *)
(* them starts to run, and one that returns to the queue had an expired      *)
(* lease and no cancellation against it.                                     *)

ClaimsRow(w, p, j) ==
    /\ j \in Claimable(p)
    /\ jobs' = [jobs EXCEPT ![j] = Claimed(jobs[j], w, p)]
    /\ created' = created

SameRow(old, new) ==
    /\ new.port = old.port /\ new.claimedBy = old.claimedBy
    /\ new.lease = old.lease /\ new.user = old.user
    /\ new.createdAt = old.createdAt

Settles(j) ==
    LET old == jobs[j]  new == jobs'[j] IN
    \/ new = old
    \/ /\ Present(j) /\ SameRow(old, new)
       /\ new.status \in Terminal \cup {old.status}
    \/ /\ j \in Stale
       /\ \/ new = Released(old, "canceled")
          \/ new = Released(old, "queued") /\ ~old.cancel
    \/ new = NoRow

LEMMA StepKinds ==
    ASSUME TypeInv, [Next]_vars
    PROVE  \/ Tick
           \/ \E u \in User, j \in JobId, p \in Priority : CreateJob(u, j, p)
           \/ \E w \in Worker, p \in Port, j \in JobId : ClaimsRow(w, p, j)
           \/ created' = created /\ \A j \in JobId : Settles(j)
<1> DEFINE Kinds == \/ Tick
                    \/ \E u \in User, j \in JobId, p \in Priority : CreateJob(u, j, p)
                    \/ \E w \in Worker, p \in Port, j \in JobId : ClaimsRow(w, p, j)
                    \/ created' = created /\ \A j \in JobId : Settles(j)
<1>0. \A j \in JobId : jobs[j] \in Row
  BY DEF TypeInv, TypeOK
<1>1. CASE UNCHANGED <<jobs, created>>
  BY <1>1 DEF Settles
<1>2. ASSUME NEW u \in User, DeleteUser(u) PROVE Kinds
  BY <1>2 DEF DeleteUser, Settles
<1>3. ASSUME NEW r \in Request, CancelCommit(r) PROVE Kinds
  <2>1. ASSUME NEW j \in JobId PROVE Settles(j)
    <3>1. CASE j \in Named(r) /\ \A k \in Named(r) : Present(k)
      <4>1. jobs'[j] = CancelWritten(jobs[j], pending[r][j]) /\ Present(j)
        BY <1>3, <3>1 DEF CancelCommit
      <4>2. /\ SameRow(jobs[j], CancelWritten(jobs[j], pending[r][j]))
            /\ CancelWritten(jobs[j], pending[r][j]).status
                 \in Terminal \cup {jobs[j].status}
        BY <1>0 DEF CancelWritten, SameRow, Row, Terminal
      <4> QED
        BY <4>1, <4>2 DEF Settles
    <3>2. CASE ~(j \in Named(r) /\ \A k \in Named(r) : Present(k))
      BY <1>3, <3>2 DEF CancelCommit, Settles
    <3> QED
      BY <3>1, <3>2
  <2> QED
    BY <1>3, <2>1 DEF CancelCommit
<1>4. ASSUME NEW w \in Worker, NEW j \in JobId, CancelOrphan(w, j) PROVE Kinds
  <2>1. ASSUME NEW k \in JobId PROVE Settles(k)
    <3>1. jobs'[k] = jobs[k] \/ (Present(k) /\ jobs'[k] = [jobs[k] EXCEPT !.status = "canceled"])
      BY <1>4 DEF CancelOrphan, TypeInv, TypeOK
    <3>2. /\ SameRow(jobs[k], [jobs[k] EXCEPT !.status = "canceled"])
          /\ [jobs[k] EXCEPT !.status = "canceled"].status \in Terminal
      BY <1>0 DEF SameRow, Row, Terminal
    <3> QED
      BY <3>1, <3>2 DEF Settles
  <2> QED
    BY <1>4, <2>1 DEF CancelOrphan
<1>5. ASSUME NEW w \in Worker, RecoverCanceled(w) PROVE Kinds
  BY <1>5 DEF RecoverCanceled, RecoverTo, StaleCanceled, Settles
<1>6. ASSUME NEW w \in Worker, RecoverQueued(w) PROVE Kinds
  BY <1>6 DEF RecoverQueued, RecoverTo, StaleCanceled, Settles
<1>7. ASSUME NEW w \in Worker, NEW p \in Port, NEW rest, ClaimOn(w, p, rest)
      PROVE  Kinds
  <2>1. CASE UNCHANGED jobs
    BY <1>1, <1>7, <2>1 DEF ClaimOn
  <2>2. ASSUME NEW j \in Claimable(p),
               jobs' = [jobs EXCEPT ![j] = Claimed(jobs[j], w, p)]
        PROVE  Kinds
    BY <1>7, <2>2 DEF ClaimOn, ClaimsRow, Claimable, Waiting
  <2> QED
    BY <1>7, <2>1, <2>2 DEF ClaimOn
<1>8. ASSUME NEW w \in Worker, CaptureTurn(w) PROVE Kinds
  <2>1. ~HeartbeatDue(w)
    BY <1>8, Ranges
       DEF CaptureTurn, HeartbeatDue, TypeInv, TypeOK, WorkerShape, WorkerState
  <2> QED
    BY <1>1, <1>8, <2>1 DEF CaptureTurn
<1>9. ASSUME NEW w \in Worker, Save(w) PROVE Kinds
  <2>1. worker[w].outcome # worker[w].loaded => worker[w].outcome \in Terminal
    BY <1>9 DEF Save, TypeInv, WorkerShape
  <2>2. ASSUME NEW k \in JobId PROVE Settles(k)
    <3> DEFINE o == worker[w].outcome
    <3>1. \/ jobs'[k] = jobs[k]
          \/ /\ Present(k) /\ o \in Terminal
             /\ jobs'[k] = [jobs[k] EXCEPT !.status = o]
      BY <1>9, <2>1 DEF Save, TypeInv, TypeOK
    <3> HIDE DEF o
    <3>2. /\ SameRow(jobs[k], [jobs[k] EXCEPT !.status = o])
          /\ [jobs[k] EXCEPT !.status = o].status = o
      BY <1>0 DEF SameRow, Row
    <3> QED
      BY <3>1, <3>2 DEF Settles
  <2> QED
    BY <1>9, <2>2 DEF Save
<1>10. ASSUME NEW w \in Worker, WorkerStep(w) PROVE Kinds
  <2>1. CASE RecoverNothing(w) \/ ClaimNext(w)
    <3>1. worker[w].ports \subseteq Port
      BY DEF TypeInv, TypeOK, WorkerState
    <3> QED
      BY <1>7, <2>1, <3>1 DEF RecoverNothing, ClaimNext
  <2>2. CASE \/ BeginCycle(w) \/ FindDisabled(w) \/ LoadClaimed(w)
             \/ RunFails(w) \/ StartJob(w) \/ OpenPort(w) \/ TransferCanceled(w)
             \/ TransferDone(w) \/ CaptureTimeout(w) \/ FinalCheck(w)
    BY <1>1, <2>2
       DEF BeginCycle, FindDisabled, LoadClaimed, RunFails, StartJob, OpenPort,
           TransferCanceled, TransferDone, CaptureTimeout, FinalCheck
  <2> QED
    BY <1>4, <1>5, <1>6, <1>8, <1>9, <1>10, <2>1, <2>2 DEF WorkerStep
<1>11. CASE \/ ToggleDevice
            \/ \E r \in Request, j \in JobId : CancelRead(r, j)
            \/ \E w \in Worker : Interrupt(w)
            \/ UNCHANGED vars
  BY <1>1, <1>11 DEF ToggleDevice, CancelRead, Interrupt, vars
<1> QED
  BY <1>2, <1>3, <1>10, <1>11 DEF Next, Web
-----------------------------------------------------------------------------
(* The limit of a port, as the table records it.                            *)

LEMMA FiniteRows ==
    ASSUME NEW S \in SUBSET JobId
    PROVE  IsFiniteSet(S) /\ Cardinality(S) \in Nat
<1>1. IsFiniteSet(JobId)
  BY BoundAssumption, FS_Interval DEF JobId
<1>2. IsFiniteSet(S)
  BY <1>1, FS_Subset
<1> QED
  BY <1>2, FS_CardinalityType

LEMMA FewerRows ==
    ASSUME NEW S \in SUBSET JobId, NEW T \in SUBSET S
    PROVE  Cardinality(T) <= Cardinality(S)
  BY FiniteRows, FS_Subset

LEMMA OneMoreRow ==
    ASSUME NEW S \in SUBSET JobId, NEW j \in JobId, NEW T \in SUBSET (S \cup {j})
    PROVE  Cardinality(T) <= Cardinality(S) + 1
<1>1. S \cup {j} \in SUBSET JobId
  OBVIOUS
<1>2. Cardinality(S \cup {j}) <= Cardinality(S) + 1
  BY FiniteRows, FS_AddElement
<1>3. Cardinality(T) <= Cardinality(S \cup {j})
  BY <1>1, FewerRows
<1> QED
  BY <1>1, <1>2, <1>3, FiniteRows

\* A row that settles does not start to run, and does not change its port.
LEMMA SettledRows ==
    ASSUME TypeInv, NEW j \in JobId, Settles(j), jobs'[j].status = "running"
    PROVE  /\ jobs[j].status = "running"
           /\ SameRow(jobs[j], jobs'[j])
<1>1. jobs[j] \in Row
  BY DEF TypeInv, TypeOK
<1>2. /\ NoRow.status = "absent"
      /\ \A s : Released(jobs[j], s).status = s
  BY <1>1 DEF NoRow, Released, Row
<1> QED
  BY <1>2 DEF Settles, SameRow, Terminal

LEMMA PortInit == Init => PortConcurrency
<1> SUFFICES ASSUME Init, NEW p \in Port
             PROVE  Cardinality(RunningOn(p)) <= MaxConcurrent[p]
  BY DEF PortConcurrency
<1>1. RunningOn(p) = {}
  BY DEF Init, RunningOn, NoRow
<1>2. MaxConcurrent[p] \in Nat
  BY PortAssumption
<1> QED
  BY <1>1, <1>2, FS_EmptySet

LEMMA PortNext ==
    ASSUME TypeInv, TypeInv', PortConcurrency, [Next]_vars
    PROVE  PortConcurrency'
<1> SUFFICES ASSUME NEW p \in Port
             PROVE  Cardinality(RunningOn(p)') <= MaxConcurrent[p]
  BY DEF PortConcurrency
<1>0. /\ RunningOn(p) \in SUBSET JobId
      /\ Cardinality(RunningOn(p)) \in Nat
      /\ Cardinality(RunningOn(p)) <= MaxConcurrent[p]
      /\ MaxConcurrent[p] \in Nat
      /\ RunningOn(p)' \in SUBSET JobId
      /\ Cardinality(RunningOn(p)') \in Nat
      /\ \A j \in JobId : jobs[j] \in Row
  BY FiniteRows, PortAssumption DEF RunningOn, PortConcurrency, TypeInv, TypeOK
<1>1. CASE RunningOn(p)' \subseteq RunningOn(p)
  BY <1>0, <1>1, FewerRows
<1>2. CASE Tick
  <2>1. \A j \in JobId : /\ jobs'[j].status = jobs[j].status
                         /\ jobs'[j].port = jobs[j].port
    BY <1>0, <1>2 DEF Tick, Row
  <2> QED
    BY <1>1, <2>1 DEF RunningOn
<1>3. ASSUME NEW u \in User, NEW k \in JobId, NEW q \in Priority,
             CreateJob(u, k, q)
      PROVE  RunningOn(p)' \subseteq RunningOn(p)
  <2>1. jobs'[k].status = "queued"
    BY <1>3 DEF CreateJob, NoRow, TypeInv, TypeOK
  <2>2. \A j \in JobId \ {k} : jobs'[j] = jobs[j]
    BY <1>3 DEF CreateJob, TypeInv, TypeOK
  <2> QED
    BY <2>1, <2>2 DEF RunningOn
<1>4. ASSUME NEW w \in Worker, NEW q \in Port, NEW k \in JobId, ClaimsRow(w, q, k)
      PROVE  Cardinality(RunningOn(p)') <= MaxConcurrent[p]
  <2>1. jobs'[k].port = q
    BY <1>4 DEF ClaimsRow, Claimed, TypeInv, TypeOK, Row
  <2>2. \A j \in JobId \ {k} : jobs'[j] = jobs[j]
    BY <1>4 DEF ClaimsRow, TypeInv, TypeOK
  <2>3. CASE p = q
    <3>1. Cardinality(RunningOn(p)) < MaxConcurrent[p]
      BY <1>4, <2>3 DEF ClaimsRow, Claimable, HasSlot
    <3>2. RunningOn(p)' \subseteq RunningOn(p) \cup {k}
      BY <2>2 DEF RunningOn
    <3> QED
      BY <1>0, <3>1, <3>2, OneMoreRow
  <2>4. CASE p # q
    BY <1>1, <2>1, <2>2, <2>4 DEF RunningOn
  <2> QED
    BY <2>3, <2>4
<1>5. ASSUME \A j \in JobId : Settles(j)
      PROVE  RunningOn(p)' \subseteq RunningOn(p)
  BY <1>5, SettledRows DEF RunningOn, SameRow
<1> QED
  BY <1>1, <1>2, <1>3, <1>4, <1>5, StepKinds

\* The claim's inline count keeps every port within max_concurrent_jobs, for
\* any number of workers, ports, jobs and requests.
THEOREM PortConcurrencyHolds == Spec => []PortConcurrency
<1>1. TypeInv /\ TypeInv' /\ PortConcurrency /\ [Next]_vars => PortConcurrency'
  BY PortNext
<1> QED
  BY <1>1, PortInit, TypeCorrect, PTL DEF Spec

-----------------------------------------------------------------------------
(* Quota.                                                                   *)

LEMMA QuotaInit == Init => QuotaRespected
<1> SUFFICES ASSUME Init, NEW u \in User
             PROVE  Cardinality(ActiveJobs(u)) <= MaxQueued
  BY DEF QuotaRespected
<1>1. ActiveJobs(u) = {}
  BY DEF Init, ActiveJobs, NoRow, Active
<1>2. MaxQueued \in Nat
  BY BoundAssumption
<1> QED
  BY <1>1, <1>2, FS_EmptySet

LEMMA QuotaNext ==
    ASSUME TypeInv, TypeInv', QuotaRespected, [Next]_vars
    PROVE  QuotaRespected'
<1> SUFFICES ASSUME NEW u \in User
             PROVE  Cardinality(ActiveJobs(u)') <= MaxQueued
  BY DEF QuotaRespected
<1>0. /\ ActiveJobs(u) \in SUBSET JobId
      /\ Cardinality(ActiveJobs(u)) \in Nat
      /\ Cardinality(ActiveJobs(u)) <= MaxQueued
      /\ MaxQueued \in Nat
      /\ ActiveJobs(u)' \in SUBSET JobId
      /\ Cardinality(ActiveJobs(u)') \in Nat
      /\ \A j \in JobId : jobs[j] \in Row
  BY FiniteRows, BoundAssumption DEF ActiveJobs, QuotaRespected, TypeInv, TypeOK
<1>1. CASE ActiveJobs(u)' \subseteq ActiveJobs(u)
  BY <1>0, <1>1, FewerRows
<1>2. CASE Tick
  <2>1. \A j \in JobId : /\ jobs'[j].status = jobs[j].status
                         /\ jobs'[j].user = jobs[j].user
    BY <1>0, <1>2 DEF Tick, Row
  <2> QED
    BY <1>1, <2>1 DEF ActiveJobs
<1>3. ASSUME NEW v \in User, NEW k \in JobId, NEW q \in Priority,
             CreateJob(v, k, q)
      PROVE  Cardinality(ActiveJobs(u)') <= MaxQueued
  <2>1. jobs'[k].user = v
    BY <1>3 DEF CreateJob, NoRow, TypeInv, TypeOK
  <2>2. \A j \in JobId \ {k} : jobs'[j] = jobs[j]
    BY <1>3 DEF CreateJob, TypeInv, TypeOK
  <2>3. CASE u = v
    <3>1. Cardinality(ActiveJobs(u)) < MaxQueued
      BY <1>3, <2>3 DEF CreateJob, WithinQuota
    <3>2. ActiveJobs(u)' \subseteq ActiveJobs(u) \cup {k}
      BY <2>2 DEF ActiveJobs
    <3> QED
      BY <1>0, <3>1, <3>2, OneMoreRow
  <2>4. CASE u # v
    BY <1>1, <2>1, <2>2, <2>4 DEF ActiveJobs
  <2> QED
    BY <2>3, <2>4
<1>4. ASSUME NEW w \in Worker, NEW p \in Port, NEW k \in JobId, ClaimsRow(w, p, k)
      PROVE  ActiveJobs(u)' \subseteq ActiveJobs(u)
  <2>1. k \in JobId /\ jobs[k].status = "queued" /\ jobs'[k].user = jobs[k].user
    BY <1>0, <1>4
       DEF ClaimsRow, Claimable, Waiting, Claimed, TypeInv, TypeOK, Row
  <2>2. \A j \in JobId \ {k} : jobs'[j] = jobs[j]
    BY <1>4 DEF ClaimsRow, TypeInv, TypeOK
  <2> QED
    BY <2>1, <2>2 DEF ActiveJobs, Active
<1>5. ASSUME \A j \in JobId : Settles(j)
      PROVE  ActiveJobs(u)' \subseteq ActiveJobs(u)
  <2> SUFFICES ASSUME NEW j \in JobId, jobs'[j].user = u,
                      jobs'[j].status \in Active
               PROVE  jobs[j].user = u /\ jobs[j].status \in Active
    BY DEF ActiveJobs
  <2>1. /\ NoRow.status = "absent"
        /\ \A s : Released(jobs[j], s).user = jobs[j].user
    BY <1>0 DEF NoRow, Released, Row
  <2> QED
    BY <1>5, <2>1 DEF Settles, SameRow, Stale, Active, Terminal
<1> QED
  BY <1>1, <1>2, <1>3, <1>4, <1>5, StepKinds

\* create_job's check inside BEGIN IMMEDIATE bounds the active jobs of every
\* account, and nothing the workers do to the rows afterwards undoes it.
THEOREM QuotaHolds == Spec => []QuotaRespected
<1>1. TypeInv /\ TypeInv' /\ QuotaRespected /\ [Next]_vars => QuotaRespected'
  BY QuotaNext
<1> QED
  BY <1>1, QuotaInit, TypeCorrect, PTL DEF Spec
-----------------------------------------------------------------------------
(* Leases.  LeaseProtects is inductive together with: rows and claims carry  *)
(* a creation time that has been handed out, and a worker that executes      *)
(* under its lease uses the port of the row.                                 *)

Births ==
    /\ \A j \in JobId : jobs[j].createdAt <= created
                        /\ (Present(j) <=> jobs[j].createdAt # 0)
    /\ \A w \in Worker : worker[w].until > 0 => worker[w].claim \in 1 .. created

PortKnown ==
    \A w \in Worker :
       LET me == worker[w]  row == jobs[me.job] IN
       /\ me.until > 0 /\ me.pc \in Executing
       /\ row.createdAt = me.claim /\ row.status = "running"
       => row.port = me.port

LeaseInv == TypeInv /\ Births /\ LeaseProtects /\ PortKnown
\* What a step, other than the passing of time, does to a worker that has a
\* lease afterwards: the worker had it before, or this step is its claim.
KeepsLease(w) ==
    LET me == worker[w]  new == worker'[w] IN
    /\ new.until = me.until /\ new.job = me.job /\ new.claim = me.claim
    /\ new.pc \in Executing =>
          \/ me.pc \in Executing /\ new.port = me.port
          \/ UNCHANGED jobs /\ new.port = jobs[me.job].port

TakesLease(w) ==
    \E p \in Port, j \in JobId :
       /\ ClaimsRow(w, p, j)
       /\ worker'[w].job = j /\ worker'[w].claim = jobs[j].createdAt
       /\ worker'[w].until = LeaseTicks /\ worker'[w].pc = "claimed"

LEMMA LeaseKinds ==
    ASSUME TypeInv, [Next]_vars, ~Tick, NEW w \in Worker
    PROVE  ~(worker'[w].until > 0) \/ KeepsLease(w) \/ TakesLease(w)
<1> DEFINE Kinds == ~(worker'[w].until > 0) \/ KeepsLease(w) \/ TakesLease(w)
<1>0. \A v \in Worker : worker[v] \in WorkerState
  BY DEF TypeInv, TypeOK
<1>1. CASE worker'[w] = worker[w]
  BY <1>1 DEF KeepsLease
<1>2. ASSUME NEW v \in Worker, BackToIdle(v) PROVE Kinds
  <2>1. CASE v = w
    <3>1. worker'[w] = Idle
      BY <1>0, <1>2, <2>1 DEF BackToIdle, TypeInv, TypeOK
    <3> QED
      BY <3>1 DEF Idle
  <2>2. CASE v # w
    BY <1>1, <1>2, <2>2 DEF BackToIdle, TypeInv, TypeOK
  <2> QED
    BY <2>1, <2>2
<1>3. ASSUME NEW v \in Worker, NEW pc \in Pc, Goto(v, pc), v = w,
             pc \in Executing => worker[w].pc \in Executing
      PROVE  Kinds
  BY <1>0, <1>3 DEF Goto, KeepsLease, WorkerState, TypeInv, TypeOK
<1>4. ASSUME NEW v \in Worker, NEW s, Return(v, s), v = w PROVE Kinds
  BY <1>0, <1>4 DEF Return, KeepsLease, WorkerState, Executing, TypeInv, TypeOK
<1>5. ASSUME NEW p \in Port, NEW rest, ClaimOn(w, p, rest) PROVE Kinds
  <2>1. CASE BackToIdle(w)
    BY <1>2, <2>1
  <2>2. CASE worker' = [worker EXCEPT ![w].pc = "claim", ![w].ports = rest]
    BY <1>0, <2>2 DEF KeepsLease, WorkerState, Executing, TypeInv, TypeOK
  <2>3. ASSUME NEW j \in Claimable(p),
               jobs' = [jobs EXCEPT ![j] = Claimed(jobs[j], w, p)],
               worker' = [worker EXCEPT
                            ![w] = [Idle EXCEPT !.pc = "claimed", !.job = j,
                                                !.claim = jobs[j].createdAt,
                                                !.until = LeaseTicks]]
        PROVE  Kinds
    <3>1. worker'[w] = [Idle EXCEPT !.pc = "claimed", !.job = j,
                                    !.claim = jobs[j].createdAt,
                                    !.until = LeaseTicks]
      BY <2>3 DEF TypeInv, TypeOK
    <3>2. /\ worker'[w].job = j /\ worker'[w].claim = jobs[j].createdAt
          /\ worker'[w].until = LeaseTicks /\ worker'[w].pc = "claimed"
      BY <3>1 DEF Idle
    <3>3. j \in JobId /\ ClaimsRow(w, p, j)
      BY <1>5, <2>3 DEF ClaimOn, ClaimsRow, Claimable, Waiting
    <3> QED
      BY <3>2, <3>3 DEF TakesLease
  <2> QED
    BY <1>5, <2>1, <2>2, <2>3 DEF ClaimOn
<1>6. CASE WorkerStep(w)
  <2>1. CASE BeginCycle(w)
    BY <1>0, <2>1 DEF BeginCycle, KeepsLease, WorkerState, Executing, TypeInv, TypeOK
  <2>2. ASSUME NEW j \in JobId, CancelOrphan(w, j) PROVE Kinds
    <3>1. CASE BackToIdle(w)
      BY <1>2, <3>1
    <3>2. CASE worker' = [worker EXCEPT ![w].orphans = @ \ {j}]
      BY <1>0, <2>2, <3>2
         DEF CancelOrphan, KeepsLease, WorkerState, Executing, TypeInv, TypeOK
    <3> QED
      BY <2>2, <3>1, <3>2 DEF CancelOrphan
  <2>3. CASE FindDisabled(w) \/ Save(w)
    BY <1>2, <2>3 DEF FindDisabled, Save
  <2>4. CASE RecoverCanceled(w) \/ RecoverQueued(w)
    <3>1. worker' = [worker EXCEPT ![w].pc = "claim", ![w].ports = Port]
      BY <2>4 DEF RecoverCanceled, RecoverQueued, RecoverTo
    <3> QED
      BY <1>0, <3>1 DEF KeepsLease, WorkerState, Executing, TypeInv, TypeOK
  <2>5. CASE RecoverNothing(w) \/ ClaimNext(w)
    <3>1. worker[w].ports \subseteq Port
      BY <1>0 DEF WorkerState
    <3> QED
      BY <1>5, <2>5, <3>1 DEF RecoverNothing, ClaimNext
  <2>6. CASE LoadClaimed(w)
    <3>1. CASE BackToIdle(w)
      BY <1>2, <3>1
    <3>2. CASE ~BackToIdle(w)
      <4> DEFINE row == jobs[worker[w].job]
                 pc == IF row.port = None THEN "save" ELSE "start"
                 o == IF row.port = None THEN "failed" ELSE "none"
      <4>1. worker' = [worker EXCEPT ![w] = [worker[w] EXCEPT
                         !.pc = pc, !.port = row.port, !.loaded = row.status,
                         !.outcome = o]]
        BY <2>6, <3>2 DEF LoadClaimed
      <4> HIDE DEF pc, o
      <4>2. worker'[w] = [worker[w] EXCEPT
                         !.pc = pc, !.port = row.port, !.loaded = row.status,
                         !.outcome = o]
        BY <4>1 DEF TypeInv, TypeOK
      <4>3. /\ worker'[w].until = worker[w].until
            /\ worker'[w].job = worker[w].job
            /\ worker'[w].claim = worker[w].claim
            /\ worker'[w].port = row.port
        BY <1>0, <4>2 DEF WorkerState
      <4> QED
        BY <2>6, <4>3 DEF LoadClaimed, KeepsLease
    <3> QED
      BY <3>1, <3>2
  <2>7. CASE RunFails(w) \/ TransferCanceled(w) \/ FinalCheck(w)
    BY <1>4, <2>7 DEF RunFails, TransferCanceled, FinalCheck
  <2>8. CASE StartJob(w)
    BY <1>3, <1>4, <2>8 DEF StartJob, Pc, Executing
  <2>9. CASE OpenPort(w) \/ CaptureTimeout(w)
    BY <1>3, <2>9 DEF OpenPort, CaptureTimeout, Pc, Executing
  <2>10. CASE TransferDone(w)
    BY <1>0, <2>10
       DEF TransferDone, KeepsLease, WorkerState, Executing, TypeInv, TypeOK
  <2>11. CASE CaptureTurn(w)
    <3>1. PICK next, b : worker' = [worker EXCEPT ![w].pc = next, ![w].beat = b]
      BY <2>11 DEF CaptureTurn
    <3>2. worker'[w] = [worker[w] EXCEPT !.pc = next, !.beat = b]
      BY <3>1 DEF TypeInv, TypeOK
    <3> QED
      BY <1>0, <2>11, <3>2 DEF CaptureTurn, KeepsLease, WorkerState, Executing
  <2> QED
    BY <1>6, <2>1, <2>2, <2>3, <2>4, <2>5, <2>6, <2>7, <2>8, <2>9, <2>10, <2>11
       DEF WorkerStep
<1>7. ASSUME NEW v \in Worker, v # w, WorkerStep(v) PROVE worker'[w] = worker[w]
  BY <1>7 DEF WorkerStep, BeginCycle, CancelOrphan, FindDisabled, RecoverCanceled,
       RecoverQueued, RecoverTo, RecoverNothing, ClaimNext, ClaimOn, LoadClaimed,
       RunFails, StartJob, OpenPort, TransferCanceled, TransferDone, CaptureTurn,
       CaptureTimeout, FinalCheck, Save, Return, Goto, BackToIdle, TypeInv, TypeOK
<1>8. CASE Web \/ UNCHANGED vars
  <2>1. UNCHANGED worker
    BY <1>8 DEF Web, CreateJob, DeleteUser, ToggleDevice, CancelRead, CancelCommit,
                vars
  <2> QED
    BY <1>1, <2>1
<1>9. ASSUME NEW v \in Worker, Interrupt(v) PROVE Kinds
  BY <1>2, <1>9 DEF Interrupt
<1> QED
  BY <1>1, <1>6, <1>7, <1>8, <1>9 DEF Next
LEMMA BirthsNext ==
    ASSUME TypeInv, TypeInv', Births, [Next]_vars
    PROVE  Births'
<1>0. /\ \A j \in JobId : jobs[j] \in Row /\ jobs[j].createdAt \in Nat
      /\ created \in Nat
      /\ \A w \in Worker : worker[w] \in WorkerState /\ worker[w].claim \in Nat
  <2>1. \A n \in CreatedAt : n \in Nat
    BY BoundAssumption DEF CreatedAt
  <2> QED
    BY <2>1 DEF TypeInv, TypeOK, Row, WorkerState
<1>1. created' \in {created, created + 1}
  BY <1>0, StepKinds DEF Tick, CreateJob, ClaimsRow
<1>2. ASSUME NEW j \in JobId
      PROVE  /\ jobs'[j].createdAt <= created'
             /\ jobs'[j].status # "absent" <=> jobs'[j].createdAt # 0
  <2>0. jobs[j].createdAt <= created /\ (Present(j) <=> jobs[j].createdAt # 0)
    BY DEF Births
  <2>1. CASE Tick
    <3>1. /\ jobs'[j].status = jobs[j].status
          /\ jobs'[j].createdAt = jobs[j].createdAt
      BY <1>0, <2>1 DEF Tick, Row
    <3> QED
      BY <1>0, <2>0, <2>1, <3>1 DEF Tick, Present
  <2>2. ASSUME NEW u \in User, NEW k \in JobId, NEW q \in Priority,
               CreateJob(u, k, q)
        PROVE  /\ jobs'[j].createdAt <= created'
               /\ jobs'[j].status # "absent" <=> jobs'[j].createdAt # 0
    <3>1. CASE j = k
      <4>1. /\ jobs'[j].createdAt = created + 1 /\ jobs'[j].status = "queued"
            /\ created' = created + 1
        BY <2>2, <3>1 DEF CreateJob, NoRow, TypeInv, TypeOK
      <4> QED
        BY <1>0, <4>1
    <3>2. CASE j # k
      <4>1. jobs'[j] = jobs[j] /\ created' = created + 1
        BY <2>2, <3>2 DEF CreateJob, TypeInv, TypeOK
      <4> QED
        BY <1>0, <2>0, <4>1 DEF Present
    <3> QED
      BY <3>1, <3>2
  <2>3. ASSUME NEW w \in Worker, NEW p \in Port, NEW k \in JobId, ClaimsRow(w, p, k)
        PROVE  /\ jobs'[j].createdAt <= created'
               /\ jobs'[j].status # "absent" <=> jobs'[j].createdAt # 0
    <3>1. CASE j = k
      <4>1. jobs'[j] = Claimed(jobs[j], w, p)
        BY <2>3, <3>1 DEF ClaimsRow, TypeInv, TypeOK
      <4>2. /\ jobs'[j].createdAt = jobs[j].createdAt /\ jobs'[j].status = "running"
        BY <1>0, <4>1 DEF Claimed, Row
      <4> QED
        BY <2>0, <2>3, <3>1, <4>2 DEF ClaimsRow, Claimable, Waiting, Present
    <3>2. CASE j # k
      <4>1. jobs'[j] = jobs[j]
        BY <2>3, <3>2 DEF ClaimsRow, TypeInv, TypeOK
      <4> QED
        BY <2>0, <2>3, <4>1 DEF ClaimsRow, Present
    <3> QED
      BY <3>1, <3>2
  <2>4. ASSUME created' = created, Settles(j)
        PROVE  /\ jobs'[j].createdAt <= created'
               /\ jobs'[j].status # "absent" <=> jobs'[j].createdAt # 0
    <3>1. /\ NoRow.createdAt = 0 /\ NoRow.status = "absent"
          /\ \A s : /\ Released(jobs[j], s).createdAt = jobs[j].createdAt
                    /\ Released(jobs[j], s).status = s
      BY <1>0 DEF NoRow, Released, Row
    <3> QED
      BY <1>0, <2>0, <2>4, <3>1 DEF Settles, SameRow, Present, Terminal, Stale
  <2> QED
    BY <2>1, <2>2, <2>3, <2>4, StepKinds
<1>3. ASSUME NEW w \in Worker, worker'[w].until > 0
      PROVE  worker'[w].claim \in 1 .. created'
  <2>1. CASE Tick
    <3>1. /\ worker'[w].claim = worker[w].claim
          /\ worker'[w].until = Elapse(worker[w].until)
      BY <1>0, <2>1 DEF Tick, WorkerState
    <3>2. worker[w].until > 0
      BY <1>0, <1>3, <3>1, Ranges DEF WorkerState
    <3> QED
      BY <2>1, <3>1, <3>2 DEF Tick, Births
  <2>2. CASE KeepsLease(w)
    BY <1>0, <1>1, <1>3, <2>2 DEF KeepsLease, Births
  <2>3. CASE TakesLease(w)
    <3>1. PICK p \in Port, j \in JobId :
             ClaimsRow(w, p, j) /\ worker'[w].claim = jobs[j].createdAt
      BY <2>3 DEF TakesLease
    <3>2. Present(j) /\ created' = created
      BY <3>1 DEF ClaimsRow, Claimable, Waiting, Present
    <3> QED
      BY <1>0, <3>1, <3>2 DEF Births
  <2> QED
    BY <1>3, <2>1, <2>2, <2>3, LeaseKinds
<1> QED
  BY <1>2, <1>3 DEF Births, Present
\* While worker w has its lease, a step that is not the passing of time leaves
\* its row to it, or gives the row a final status.
LEMMA LeasedRow ==
    ASSUME LeaseInv, TypeInv', [Next]_vars, ~Tick, NEW w \in Worker,
           NEW j \in JobId, j = worker[w].job, worker[w].until > 0,
           jobs'[j].createdAt = worker[w].claim
    PROVE  /\ jobs[j].createdAt = worker[w].claim
           /\ \/ jobs'[j].status \in Terminal
              \/ /\ jobs[j].status = "running" /\ jobs'[j].status = "running"
                 /\ SameRow(jobs[j], jobs'[j])
<1> USE DEF LeaseInv
<1>0. /\ jobs[j] \in Row /\ jobs'[j] \in Row
      /\ worker[w].claim \in 1 .. created
      /\ created \in Nat
  <2>1. created \in Nat
    BY BoundAssumption DEF TypeInv, TypeOK, CreatedAt
  <2> QED
    BY <2>1 DEF TypeInv, TypeOK, Births
<1>1. jobs[j].createdAt = worker[w].claim =>
         \/ jobs[j].status \in Terminal
         \/ jobs[j].status = "running" /\ jobs[j].lease >= worker[w].until
  BY DEF LeaseProtects
<1>2. ASSUME NEW u \in User, NEW k \in JobId, NEW q \in Priority,
             CreateJob(u, k, q)
      PROVE  jobs'[j] = jobs[j]
  <2>1. CASE j = k
    <3>1. jobs'[j].createdAt = created + 1
      BY <1>2, <2>1 DEF CreateJob, NoRow, TypeInv, TypeOK
    <3> QED
      BY <1>0, <3>1
  <2>2. CASE j # k
    BY <1>2, <2>2 DEF CreateJob, TypeInv, TypeOK
  <2> QED
    BY <2>1, <2>2
<1>3. ASSUME NEW v \in Worker, NEW p \in Port, NEW k \in JobId, ClaimsRow(v, p, k)
      PROVE  jobs'[j] = jobs[j]
  <2>1. CASE j = k
    <3>1. jobs[j].status = "queued"
      BY <1>3, <2>1 DEF ClaimsRow, Claimable, Waiting
    <3>2. jobs'[j] = Claimed(jobs[j], v, p)
      BY <1>3, <2>1 DEF ClaimsRow, TypeInv, TypeOK
    <3>3. jobs'[j].createdAt = jobs[j].createdAt
      BY <1>0, <3>2 DEF Claimed, Row
    <3> QED
      BY <1>1, <3>1, <3>3 DEF Terminal
  <2>2. CASE j # k
    BY <1>3, <2>2 DEF ClaimsRow, TypeInv, TypeOK
  <2> QED
    BY <2>1, <2>2
<1>4. CASE jobs'[j] = jobs[j]
  BY <1>1, <1>4 DEF SameRow
<1>5. CASE Settles(j)
  <2>1. jobs'[j] # NoRow
    BY <1>0 DEF NoRow
  <2>2. ASSUME j \in Stale, NEW s, jobs'[j] = Released(jobs[j], s)
        PROVE  FALSE
    <3>1. jobs'[j].createdAt = jobs[j].createdAt
      BY <1>0, <2>2 DEF Released, Row
    <3>2. jobs[j].status = "running" /\ jobs[j].lease = 0
      BY <2>2 DEF Stale
    <3>3. worker[w].until \in Int
      BY TimeAssumption DEF TypeInv, TypeOK, WorkerState, LeaseLeft, NoLease
    <3> QED
      BY <1>1, <3>1, <3>2, <3>3 DEF Terminal
  <2>3. CASE /\ Present(j) /\ SameRow(jobs[j], jobs'[j])
             /\ jobs'[j].status \in Terminal \cup {jobs[j].status}
    BY <1>1, <2>3 DEF SameRow
  <2> QED
    BY <1>4, <1>5, <2>1, <2>2, <2>3 DEF Settles
<1> QED
  BY <1>2, <1>3, <1>4, <1>5, StepKinds

LEMMA LeaseProtectsNext ==
    ASSUME LeaseInv, TypeInv', [Next]_vars
    PROVE  LeaseProtects' /\ PortKnown'
<1> USE DEF LeaseInv
<1> SUFFICES ASSUME NEW w \in Worker, worker'[w].until > 0,
                    jobs'[worker'[w].job].createdAt = worker'[w].claim,
                    jobs'[worker'[w].job].status \notin Terminal
             PROVE  LET me == worker'[w]  row == jobs'[me.job] IN
                    /\ row.status = "running" /\ row.claimedBy = w
                    /\ row.lease >= me.until
                    /\ me.pc \in Executing => row.port = me.port
  BY DEF LeaseProtects, PortKnown, Terminal
<1>0. /\ worker[w] \in WorkerState /\ worker'[w] \in WorkerState
      /\ worker'[w].job \in JobId
      /\ \A j \in JobId : jobs[j] \in Row /\ jobs'[j] \in Row
  BY DEF TypeInv, TypeOK, WorkerShape
<1>1. CASE Tick
  <2> DEFINE j == worker[w].job
  <2>1. /\ worker'[w].job = j /\ worker'[w].claim = worker[w].claim
        /\ worker'[w].pc = worker[w].pc /\ worker'[w].port = worker[w].port
        /\ worker'[w].until = Elapse(worker[w].until)
    BY <1>0, <1>1 DEF Tick, WorkerState
  <2>2. j \in JobId
    BY <1>0, <2>1
  <2>3. /\ jobs'[j].createdAt = jobs[j].createdAt
        /\ jobs'[j].status = jobs[j].status /\ jobs'[j].port = jobs[j].port
        /\ jobs'[j].claimedBy = jobs[j].claimedBy
        /\ jobs'[j].lease = Elapse(jobs[j].lease)
    <3>1. jobs'[j] = [jobs[j] EXCEPT !.lease = Elapse(jobs[j].lease)]
      BY <1>1, <2>2 DEF Tick
    <3> QED
      BY <1>0, <2>2, <3>1 DEF Row
  <2>4. worker[w].until > 0
    BY <1>0, <2>1, Ranges DEF WorkerState
  <2>5. /\ jobs[j].status = "running" /\ jobs[j].claimedBy = w
        /\ jobs[j].lease >= worker[w].until
        /\ worker[w].pc \in Executing => jobs[j].port = worker[w].port
    BY <2>1, <2>3, <2>4 DEF LeaseProtects, PortKnown
  <2>6. jobs[j].lease \in Int /\ worker[w].until \in Int
    BY <1>0, <2>2, TimeAssumption DEF Row, WorkerState, LeaseLeft, NoLease
  <2>7. Elapse(jobs[j].lease) >= Elapse(worker[w].until)
    BY <2>4, <2>5, <2>6 DEF Elapse
  <2> QED
    BY <2>1, <2>3, <2>5, <2>7
<1>2. CASE ~Tick /\ KeepsLease(w)
  <2> DEFINE j == worker[w].job
  <2>1. /\ worker'[w].job = j /\ worker'[w].claim = worker[w].claim
        /\ worker'[w].until = worker[w].until
    BY <1>2 DEF KeepsLease
  <2>2. /\ jobs[j].createdAt = worker[w].claim
        /\ jobs[j].status = "running" /\ jobs'[j].status = "running"
        /\ SameRow(jobs[j], jobs'[j])
    BY <1>0, <1>2, <2>1, LeasedRow
  <2>3. /\ jobs[j].claimedBy = w /\ jobs[j].lease >= worker[w].until
        /\ worker[w].pc \in Executing => jobs[j].port = worker[w].port
    BY <2>1, <2>2 DEF LeaseProtects, PortKnown, Terminal
  <2>4. worker'[w].pc \in Executing => jobs'[j].port = worker'[w].port
    BY <1>2, <2>2, <2>3 DEF KeepsLease, SameRow
  <2> QED
    BY <2>1, <2>2, <2>3, <2>4 DEF SameRow
<1>3. CASE ~Tick /\ TakesLease(w)
  <2>1. PICK p \in Port, j \in JobId :
           /\ ClaimsRow(w, p, j)
           /\ worker'[w].job = j /\ worker'[w].until = LeaseTicks
           /\ worker'[w].pc = "claimed"
    BY <1>3 DEF TakesLease
  <2>2. jobs'[j] = Claimed(jobs[j], w, p)
    BY <2>1 DEF ClaimsRow, TypeInv, TypeOK
  <2>3. /\ jobs'[j].status = "running" /\ jobs'[j].claimedBy = w
        /\ jobs'[j].lease = LeaseTicks
    BY <1>0, <2>2 DEF Claimed, Row
  <2> QED
    BY <2>1, <2>3, TimeAssumption DEF Executing
<1> QED
  BY <1>1, <1>2, <1>3, LeaseKinds

LEMMA LeaseInit == Init => LeaseInv
<1> SUFFICES ASSUME Init PROVE Births /\ LeaseProtects /\ PortKnown
  BY TypeInit DEF LeaseInv
<1>1. \A w \in Worker : ~(worker[w].until > 0)
  BY DEF Init, Idle
<1>2. \A j \in JobId : ~Present(j) /\ jobs[j].createdAt = 0 /\ created = 0
  BY DEF Init, NoRow, Present
<1> QED
  BY <1>1, <1>2 DEF Births, LeaseProtects, PortKnown

THEOREM LeaseInvHolds == Spec => []LeaseInv
<1>1. LeaseInv /\ [Next]_vars => LeaseInv'
  BY TypeNext, BirthsNext, LeaseProtectsNext DEF LeaseInv
<1> QED
  BY <1>1, LeaseInit, PTL DEF Spec

\* A claim is exclusive for the length of its lease: until then no recovery, no
\* other worker's claim, and no late write of another worker takes the row away
\* from the worker that claimed it, unless it makes the row's status final.
THEOREM LeaseProtectsHolds == Spec => []LeaseProtects
<1>1. LeaseInv => LeaseProtects
  BY DEF LeaseInv
<1> QED
  BY <1>1, LeaseInvHolds, PTL
\* As long as their leases last and their jobs are running, the workers that
\* drive a port are as few as the claims on it: each of them is the claimant of
\* a row of its own that is running on that port.
THEOREM DriversWithinLimitHolds == Spec => []DriversWithinLimit
<1>1. LeaseInv /\ PortConcurrency => DriversWithinLimit
  <2> SUFFICES ASSUME LeaseInv, PortConcurrency, NEW p \in Port
               PROVE  Cardinality(RightfulDrivers(p)) <= MaxConcurrent[p]
    BY DEF DriversWithinLimit
  <2> DEFINE D == RightfulDrivers(p)
             f == [w \in D |-> worker[w].job]
  <2>1. ASSUME NEW w \in D
        PROVE  worker[w].job \in RunningOn(p) /\ jobs[worker[w].job].claimedBy = w
    <3>1. /\ worker[w].job \in JobId
          /\ jobs[worker[w].job].port = p /\ jobs[worker[w].job].status = "running"
      BY DEF RightfulDrivers, LeaseInv, TypeInv, WorkerShape, HoldsJob, PortKnown,
             Driving, Executing
    <3>2. jobs[worker[w].job].claimedBy = w
      BY <3>1 DEF RightfulDrivers, LeaseInv, LeaseProtects, Terminal
    <3> QED
      BY <3>1, <3>2 DEF RunningOn
  <2>2. f \in Injection(D, RunningOn(p))
    BY <2>1 DEF Injection, IsInjective
  <2>3. RunningOn(p) \in SUBSET JobId
    BY DEF RunningOn
  <2>4. IsFiniteSet(RunningOn(p)) /\ Cardinality(RunningOn(p)) \in Nat
    BY <2>3, FiniteRows
  <2>5. Cardinality(D) <= Cardinality(RunningOn(p)) /\ Cardinality(D) \in Nat
    BY <2>2, <2>4, FS_Injection, FS_CardinalityType
  <2>6. Cardinality(RunningOn(p)) <= MaxConcurrent[p] /\ MaxConcurrent[p] \in Nat
    BY PortAssumption DEF PortConcurrency
  <2> QED
    BY <2>4, <2>5, <2>6
<1> QED
  BY <1>1, LeaseInvHolds, PortConcurrencyHolds, PTL

-----------------------------------------------------------------------------
(* What a job goes through.                                                 *)

LEMMA ResurrectionStep ==
    ASSUME TypeInv, [Next]_vars, NEW j \in JobId,
           Present(j), jobs'[j].createdAt = jobs[j].createdAt,
           Births, jobs[j].status \in Terminal \/ jobs[j].cancel
    PROVE  jobs'[j].status \in Terminal \cup {jobs[j].status}
<1>0. jobs[j] \in Row /\ created \in Nat /\ jobs[j].createdAt <= created
      /\ jobs[j].createdAt # 0
  BY BoundAssumption DEF TypeInv, TypeOK, CreatedAt, Births
<1>1. CASE Tick
  <2>1. jobs'[j] = [jobs[j] EXCEPT !.lease = Elapse(jobs[j].lease)]
    BY <1>1 DEF Tick
  <2> QED
    BY <1>0, <2>1 DEF Row
<1>2. ASSUME NEW u \in User, NEW k \in JobId, NEW q \in Priority,
             CreateJob(u, k, q)
      PROVE  jobs'[j] = jobs[j]
  <2>1. j # k
    BY <1>2 DEF CreateJob, IsNextId, JobId
  <2> QED
    BY <1>2, <2>1 DEF CreateJob, TypeInv, TypeOK
<1>3. ASSUME NEW w \in Worker, NEW p \in Port, NEW k \in JobId, ClaimsRow(w, p, k)
      PROVE  jobs'[j] = jobs[j]
  <2>1. j # k
    BY <1>3 DEF ClaimsRow, Claimable, Waiting, Terminal
  <2> QED
    BY <1>3, <2>1 DEF ClaimsRow, TypeInv, TypeOK
<1>4. CASE Settles(j)
  <2>1. /\ NoRow.createdAt = 0
        /\ \A s : Released(jobs[j], s).status = s
    BY <1>0 DEF NoRow, Released, Row
  <2> QED
    BY <1>0, <1>4, <2>1 DEF Settles, Stale, Terminal
<1> QED
  BY <1>1, <1>2, <1>3, <1>4, StepKinds

\* A job with a final status, or whose cancellation was requested, is never
\* queued or started again, whichever transactions race.
THEOREM NoResurrectionHolds == Spec => NoResurrection
<1>1. LeaseInv /\ [Next]_vars =>
        [\A j \in JobId :
            /\ Present(j) /\ jobs'[j].createdAt = jobs[j].createdAt
            /\ jobs[j].status \in Terminal \/ jobs[j].cancel
            => jobs'[j].status \in Terminal \cup {jobs[j].status}]_vars
  BY ResurrectionStep DEF LeaseInv
<1> QED
  BY <1>1, LeaseInvHolds, PTL DEF Spec, NoResurrection
LEMMA RowShapeNext ==
    ASSUME TypeInv, RowShape, [Next]_vars
    PROVE  RowShape'
<1> DEFINE Shape(row) ==
              /\ row.status = "queued" =>
                    /\ row.port = None /\ row.claimedBy = None
                    /\ row.lease = NoLease
              /\ row.status = "running" =>
                    /\ row.port \in Port /\ row.claimedBy \in Worker
                    /\ row.lease >= 0
<1> SUFFICES ASSUME NEW j \in JobId PROVE Shape(jobs'[j])
  BY DEF RowShape
<1>0. jobs[j] \in Row /\ Shape(jobs[j])
  BY DEF TypeInv, TypeOK, RowShape
<1>1. CASE Tick
  <2>1. jobs'[j] = [jobs[j] EXCEPT !.lease = Elapse(jobs[j].lease)]
    BY <1>1 DEF Tick
  <2>2. /\ jobs'[j].status = jobs[j].status /\ jobs'[j].port = jobs[j].port
        /\ jobs'[j].claimedBy = jobs[j].claimedBy
        /\ jobs'[j].lease = Elapse(jobs[j].lease)
    BY <1>0, <2>1 DEF Row
  <2>3. /\ Elapse(NoLease) = NoLease
        /\ \A n \in LeaseLeft : n >= 0 => Elapse(n) >= 0
    BY DEF Elapse, NoLease, LeaseLeft
  <2>4. jobs[j].lease \in LeaseLeft
    BY <1>0 DEF Row
  <2> QED
    BY <1>0, <2>2, <2>3, <2>4
<1>2. ASSUME NEW u \in User, NEW k \in JobId, NEW q \in Priority,
             CreateJob(u, k, q)
      PROVE  Shape(jobs'[j])
  <2>1. CASE j = k
    <3>1. /\ jobs'[j].status = "queued" /\ jobs'[j].port = None
          /\ jobs'[j].claimedBy = None /\ jobs'[j].lease = NoLease
      BY <1>2, <2>1 DEF CreateJob, NoRow, TypeInv, TypeOK
    <3> QED
      BY <3>1
  <2>2. CASE j # k
    BY <1>0, <1>2, <2>2 DEF CreateJob, TypeInv, TypeOK
  <2> QED
    BY <2>1, <2>2
<1>3. ASSUME NEW w \in Worker, NEW p \in Port, NEW k \in JobId, ClaimsRow(w, p, k)
      PROVE  Shape(jobs'[j])
  <2>1. CASE j = k
    <3>1. jobs'[j] = Claimed(jobs[j], w, p)
      BY <1>3, <2>1 DEF ClaimsRow, TypeInv, TypeOK
    <3>2. /\ jobs'[j].status = "running" /\ jobs'[j].port = p
          /\ jobs'[j].claimedBy = w /\ jobs'[j].lease = LeaseTicks
      BY <1>0, <3>1 DEF Claimed, Row
    <3> QED
      BY <3>2, TimeAssumption
  <2>2. CASE j # k
    BY <1>0, <1>3, <2>2 DEF ClaimsRow, TypeInv, TypeOK
  <2> QED
    BY <2>1, <2>2
<1>4. CASE Settles(j)
  <2>1. /\ NoRow.status = "absent"
        /\ \A s : /\ Released(jobs[j], s).status = s
                  /\ Released(jobs[j], s).port = None
                  /\ Released(jobs[j], s).claimedBy = None
                  /\ Released(jobs[j], s).lease = NoLease
    BY <1>0 DEF NoRow, Released, Row
  <2> QED
    BY <1>0, <1>4, <2>1 DEF Settles, SameRow, Terminal
<1> QED
  BY <1>1, <1>2, <1>3, <1>4, StepKinds

\* A queued row carries nothing of an earlier claim and a running row always
\* has a port, a claimant and a lease, so an abandoned one can be recovered.
THEOREM RowShapeHolds == Spec => []RowShape
<1>1. Init => RowShape
  BY DEF Init, RowShape, NoRow
<1>2. TypeInv /\ RowShape /\ [Next]_vars => RowShape'
  BY RowShapeNext
<1> QED
  BY <1>1, <1>2, TypeCorrect, PTL DEF Spec

\* The heartbeat of the capture loop is never due: last_heartbeat starts as a
\* wall-clock time and is compared with a duration, so no lease is ever renewed
\* however long the job runs.
HeartbeatNeverDue ==
    \A w \in Worker :
       worker[w].pc = "capture" /\ worker[w].elapsed <= MaxRuntime
       => ~HeartbeatDue(w)

THEOREM HeartbeatIsNeverDue == Spec => []HeartbeatNeverDue
<1>1. TypeInv => HeartbeatNeverDue
  BY Ranges
     DEF HeartbeatNeverDue, HeartbeatDue, TypeInv, TypeOK, WorkerShape, WorkerState
<1> QED
  BY <1>1, TypeCorrect, PTL

-----------------------------------------------------------------------------
(* JobQueue implements JobBoard.                                           *)

\* A place without a row has nothing against it: the job submitted there next
\* starts with a clean slate.
AbsentClean == \A j \in JobId : ~Present(j) => ~jobs[j].cancel

BoardInv == TypeInv /\ AbsentClean

LEMMA AbsentCleanNext ==
    ASSUME TypeInv, AbsentClean, [Next]_vars
    PROVE  AbsentClean'
<1> SUFFICES ASSUME NEW j \in JobId, jobs'[j].status = "absent"
             PROVE  ~jobs'[j].cancel
  BY DEF AbsentClean, Present
<1>0. /\ jobs[j] \in Row
      /\ jobs[j].status = "absent" => ~jobs[j].cancel
  BY DEF TypeInv, TypeOK, AbsentClean, Present
<1>1. CASE Tick
  <2>1. jobs'[j] = [jobs[j] EXCEPT !.lease = Elapse(jobs[j].lease)]
    BY <1>1 DEF Tick
  <2> QED
    BY <1>0, <2>1 DEF Row
<1>2. ASSUME NEW u \in User, NEW k \in JobId, NEW q \in Priority,
             CreateJob(u, k, q)
      PROVE  jobs'[j] = jobs[j]
  <2>1. jobs'[k].status = "queued"
    BY <1>2 DEF CreateJob, NoRow, TypeInv, TypeOK
  <2> QED
    BY <1>2, <2>1 DEF CreateJob, TypeInv, TypeOK
<1>3. ASSUME NEW w \in Worker, NEW p \in Port, NEW k \in JobId, ClaimsRow(w, p, k)
      PROVE  jobs'[j] = jobs[j]
  <2>1. jobs'[k].status = "running"
    BY <1>3 DEF ClaimsRow, Claimed, TypeInv, TypeOK, Row
  <2> QED
    BY <1>3, <2>1 DEF ClaimsRow, TypeInv, TypeOK
<1>4. ASSUME Settles(j) PROVE jobs'[j] = jobs[j] \/ jobs'[j] = NoRow
  <2>1. \A s : Released(jobs[j], s).status = s
    BY <1>0 DEF Released, Row
  <2> QED
    BY <1>4, <2>1 DEF Settles, Present, Terminal
<1> QED
  BY <1>0, <1>1, <1>2, <1>3, <1>4, StepKinds DEF NoRow

\* A step that changes the rows of S, and only these, is a move on the board.
LEMMA MoveRows ==
    ASSUME NEW S \in SUBSET JobId, NEW s,
           \A j \in JobId : StageOf(jobs'[j]) = IF j \in S THEN s
                                                ELSE StageOf(jobs[j]),
           \A j \in JobId : PlaceOf(jobs'[j]) = IF j \in S THEN None
                                                ELSE PlaceOf(jobs[j])
    PROVE  Board!Move(S, s)
  BY DEF Board!Move

\* What the board sees of the rows that the transactions write.
LEMMA RowsSeen ==
    ASSUME NEW row \in Row
    PROVE  /\ StageOf(NoRow) = "absent" /\ PlaceOf(NoRow) = None /\ ~NoRow.cancel
           /\ \A s \in Terminal :
                 /\ StageOf([row EXCEPT !.status = s]) = "over"
                 /\ PlaceOf([row EXCEPT !.status = s]) = None
                 /\ [row EXCEPT !.status = s].cancel = row.cancel
           /\ \A n \in LeaseLeft :
                 /\ StageOf([row EXCEPT !.lease = n]) = StageOf(row)
                 /\ PlaceOf([row EXCEPT !.lease = n]) = PlaceOf(row)
                 /\ [row EXCEPT !.lease = n].cancel = row.cancel
  BY DEF Row, StageOf, PlaceOf, NoRow, Terminal, Status, Active

LEMMA ReleasedSeen ==
    ASSUME NEW row \in Row, NEW s \in Terminal \cup {"queued"}
    PROVE  /\ StageOf(Released(row, s)) = IF s = "queued" THEN "waiting" ELSE "over"
           /\ PlaceOf(Released(row, s)) = None
           /\ Released(row, s).cancel = row.cancel
<1>1. /\ Released(row, s).status = s
      /\ Released(row, s).cancel = row.cancel
  BY DEF Released, Row
<1> QED
  BY <1>1 DEF StageOf, PlaceOf, Terminal

\* The jobs of S end, whatever they were.
LEMMA FinishRows ==
    ASSUME NEW S \in SUBSET JobId,
           \A j \in S : Present(j) /\ StageOf(jobs'[j]) = "over"
                        /\ PlaceOf(jobs'[j]) = None,
           \A j \in JobId \ S : jobs'[j] = jobs[j],
           \A j \in JobId : jobs'[j].cancel = jobs[j].cancel,
           TypeInv
    PROVE  Board!Finish(S)
<1>1. Board!Move(S, "over")
  BY MoveRows
<1>2. \A j \in S : StageOf(jobs[j]) # "absent"
  BY DEF Present, StageOf, TypeInv, TypeOK, Row, Status, Active, Terminal
<1> QED
  BY <1>1, <1>2 DEF Board!Finish

\* A step that leaves all the board sees as it was.
LEMMA StutterRows ==
    ASSUME \A j \in JobId : /\ StageOf(jobs'[j]) = StageOf(jobs[j])
                            /\ PlaceOf(jobs'[j]) = PlaceOf(jobs[j])
                            /\ jobs'[j].cancel = jobs[j].cancel
    PROVE  UNCHANGED Board!vars
  BY DEF Board!vars

LEMMA BoardTick ==
    ASSUME TypeInv, Tick
    PROVE  UNCHANGED Board!vars
<1>1. ASSUME NEW j \in JobId
      PROVE  /\ StageOf(jobs'[j]) = StageOf(jobs[j])
             /\ PlaceOf(jobs'[j]) = PlaceOf(jobs[j])
             /\ jobs'[j].cancel = jobs[j].cancel
  <2>1. jobs[j] \in Row /\ jobs[j].lease \in LeaseLeft
    BY DEF TypeInv, TypeOK, Row
  <2>2. jobs'[j] = [jobs[j] EXCEPT !.lease = Elapse(jobs[j].lease)]
    BY DEF Tick
  <2> QED
    BY <2>1, <2>2, RowsSeen, Ranges
<1> QED
  BY <1>1, StutterRows

LEMMA BoardSubmit ==
    ASSUME BoardInv, NEW u \in User, NEW k \in JobId, NEW q \in Priority,
           CreateJob(u, k, q)
    PROVE  Board!Next
<1>0. k \in Int
  BY DEF JobId
<1>1. ~Present(k) /\ ~jobs[k].cancel /\ StageOf(jobs[k]) = "absent"
  <2>1. ~Present(k)
    BY <1>0 DEF CreateJob, IsNextId
  <2> QED
    BY <2>1 DEF BoardInv, AbsentClean, Present, StageOf, Terminal
<1>2. /\ jobs'[k].status = "queued" /\ ~jobs'[k].cancel
      /\ \A j \in JobId \ {k} : jobs'[j] = jobs[j]
  BY DEF CreateJob, NoRow, BoardInv, TypeInv, TypeOK
<1>3. StageOf(jobs'[k]) = "waiting" /\ PlaceOf(jobs'[k]) = None
  BY <1>2 DEF StageOf, PlaceOf, Terminal
<1>4. Board!Move({k}, "waiting")
  BY <1>2, <1>3, MoveRows
<1>5. {j \in JobId : jobs'[j].cancel} = {j \in JobId : jobs[j].cancel}
  BY <1>1, <1>2
<1>6. Board!Submit(k)
  BY <1>1, <1>4, <1>5 DEF Board!Submit
<1> QED
  BY <1>6 DEF Board!Next

\* The instance of JobBoard counts as JobQueue does.
LEMMA SameCount == \A S : Board!Cardinality(S) = Cardinality(S)
  BY DEF Cardinality, Board!Cardinality

LEMMA BoardStart ==
    ASSUME BoardInv, NEW w \in Worker, NEW p \in Port, NEW k \in JobId,
           ClaimsRow(w, p, k)
    PROVE  Board!Next
<1>1. jobs[k].status = "queued" /\ ~jobs[k].cancel /\ HasSlot(p)
  BY DEF ClaimsRow, Claimable, Waiting
<1>2. /\ jobs'[k].status = "running" /\ ~jobs'[k].cancel /\ jobs'[k].port = p
      /\ \A j \in JobId \ {k} : jobs'[j] = jobs[j]
  BY <1>1 DEF ClaimsRow, Claimed, BoardInv, TypeInv, TypeOK, Row
<1>3. /\ StageOf(jobs[k]) = "waiting"
      /\ StageOf(jobs'[k]) = "running" /\ PlaceOf(jobs'[k]) = p
  BY <1>1, <1>2 DEF StageOf, PlaceOf, Terminal
<1>4. Board!On(p) = RunningOn(p)
  BY DEF Board!On, RunningOn, StageOf, PlaceOf, BoardInv, TypeInv, TypeOK, Row,
         Status, Active, Terminal
<1>5. {j \in JobId : jobs'[j].cancel} = {j \in JobId : jobs[j].cancel}
  BY <1>1, <1>2
<1>6. \A j \in JobId \ {k} : /\ StageOf(jobs'[j]) = StageOf(jobs[j])
                             /\ PlaceOf(jobs'[j]) = PlaceOf(jobs[j])
  BY <1>2
<1>7. Board!Cardinality(Board!On(p)) < MaxConcurrent[p]
  BY <1>1, <1>4, SameCount DEF HasSlot
<1>8. [j \in JobId |-> StageOf(jobs'[j])]
         = [[j \in JobId |-> StageOf(jobs[j])] EXCEPT ![k] = "running"]
  BY <1>3, <1>6
<1>9. [j \in JobId |-> PlaceOf(jobs'[j])]
         = [[j \in JobId |-> PlaceOf(jobs[j])] EXCEPT ![k] = p]
  BY <1>3, <1>6
<1>10. /\ [j \in JobId |-> StageOf(jobs[j])][k] = "waiting"
       /\ k \notin {j \in JobId : jobs[j].cancel}
  BY <1>1, <1>3
<1>11. Board!Start(k, p)
  BY <1>5, <1>7, <1>8, <1>9, <1>10 DEF Board!Start
<1> QED
  BY <1>11 DEF Board!Next

LEMMA BoardDelete ==
    ASSUME BoardInv, NEW u \in User, DeleteUser(u)
    PROVE  Board!Next
<1>2. PICK S \in SUBSET JobId : S = {j \in JobId : jobs[j].user = u}
  OBVIOUS
<1>0. \A j \in JobId : jobs'[j] = IF j \in S THEN NoRow ELSE jobs[j]
  BY <1>2 DEF DeleteUser
<1>1. /\ StageOf(NoRow) = "absent" /\ PlaceOf(NoRow) = None
      /\ ~NoRow.cancel
  BY NoRowIsRow, RowsSeen
<1>3. Board!Move(S, "absent")
  BY <1>0, <1>1, MoveRows
<1>4. {j \in JobId : jobs'[j].cancel} = {j \in JobId : jobs[j].cancel} \ S
  BY <1>0, <1>1
<1>5. Board!Delete(S)
  BY <1>3, <1>4 DEF Board!Delete
<1> QED
  BY <1>5 DEF Board!Next

LEMMA BoardRecover ==
    ASSUME BoardInv, NEW w \in Worker, RecoverCanceled(w) \/ RecoverQueued(w)
    PROVE  Board!Next
<1>0. \A j \in JobId : jobs[j] \in Row
  BY DEF BoardInv, TypeInv, TypeOK
<1>1. CASE RecoverCanceled(w)
  <2>1. \A j \in JobId : jobs'[j] = IF j \in StaleCanceled
                                    THEN Released(jobs[j], "canceled") ELSE jobs[j]
    BY <1>1 DEF RecoverCanceled, RecoverTo
  <2>2. /\ StaleCanceled \in SUBSET JobId
        /\ \A j \in StaleCanceled : Present(j)
    BY DEF StaleCanceled, Stale, Present
  <2>3. \A j \in JobId : /\ StageOf(Released(jobs[j], "canceled")) = "over"
                         /\ PlaceOf(Released(jobs[j], "canceled")) = None
                         /\ Released(jobs[j], "canceled").cancel = jobs[j].cancel
    BY <1>0, ReleasedSeen DEF Terminal
  <2>4. Board!Finish(StaleCanceled)
    BY <2>1, <2>2, <2>3, FinishRows DEF BoardInv
  <2> QED
    BY <2>2, <2>4 DEF Board!Next
<1>2. CASE RecoverQueued(w)
  <2>1. \A j \in JobId : jobs'[j] = IF j \in Stale
                                    THEN Released(jobs[j], "queued") ELSE jobs[j]
    BY <1>2 DEF RecoverQueued, RecoverTo
  <2>2. /\ Stale \in SUBSET JobId
        /\ \A j \in Stale : jobs[j].status = "running" /\ ~jobs[j].cancel
    BY <1>2 DEF RecoverQueued, StaleCanceled, Stale
  <2>3. \A j \in JobId : /\ StageOf(Released(jobs[j], "queued")) = "waiting"
                         /\ PlaceOf(Released(jobs[j], "queued")) = None
                         /\ Released(jobs[j], "queued").cancel = jobs[j].cancel
    BY <1>0, ReleasedSeen
  <2>4. Board!Move(Stale, "waiting")
    BY <2>1, <2>2, <2>3, MoveRows
  <2>5. \A j \in Stale : StageOf(jobs[j]) = "running"
    BY <2>2 DEF StageOf, Terminal
  <2>6. {j \in JobId : jobs'[j].cancel} = {j \in JobId : jobs[j].cancel}
    BY <2>1, <2>3
  <2>7. Board!GiveBack(Stale)
    BY <2>2, <2>4, <2>5, <2>6 DEF Board!GiveBack
  <2> QED
    BY <2>2, <2>7 DEF Board!Next
<1> QED
  BY <1>1, <1>2

LEMMA BoardOrphan ==
    ASSUME BoardInv, NEW w \in Worker, NEW k \in JobId, CancelOrphan(w, k)
    PROVE  Board!Next \/ UNCHANGED Board!vars
<1>1. CASE UNCHANGED jobs
  BY <1>1, StutterRows
<1>2. CASE Present(k) /\ jobs' = [jobs EXCEPT ![k].status = "canceled"]
  <2> DEFINE s == "canceled"
  <2>0. jobs[k] \in Row /\ s \in Terminal
    BY DEF BoardInv, TypeInv, TypeOK, Terminal
  <2>1. /\ jobs'[k] = [jobs[k] EXCEPT !.status = s]
        /\ \A j \in JobId \ {k} : jobs'[j] = jobs[j]
    BY <1>2 DEF BoardInv, TypeInv, TypeOK
  <2> HIDE DEF s
  <2>2. /\ StageOf(jobs'[k]) = "over" /\ PlaceOf(jobs'[k]) = None
        /\ jobs'[k].cancel = jobs[k].cancel
    BY <2>0, <2>1, RowsSeen
  <2>3. Board!Finish({k})
    BY <1>2, <2>1, <2>2, FinishRows DEF BoardInv
  <2> QED
    BY <2>3 DEF Board!Next
<1> QED
  BY <1>1, <1>2 DEF CancelOrphan

LEMMA BoardSave ==
    ASSUME BoardInv, NEW w \in Worker, Save(w)
    PROVE  Board!Next \/ UNCHANGED Board!vars
<1> DEFINE k == worker[w].job
           o == worker[w].outcome
<1>1. CASE UNCHANGED jobs
  BY <1>1, StutterRows
<1>2. CASE /\ Present(k) /\ o # worker[w].loaded
           /\ jobs' = [jobs EXCEPT ![k].status = o]
  <2>0. k \in JobId /\ jobs[k] \in Row /\ o \in Terminal
    BY <1>2 DEF Save, BoardInv, TypeInv, TypeOK, WorkerShape, HoldsJob
  <2>1. /\ jobs'[k] = [jobs[k] EXCEPT !.status = o]
        /\ \A j \in JobId \ {k} : jobs'[j] = jobs[j]
    BY <1>2, <2>0 DEF BoardInv, TypeInv, TypeOK
  <2> HIDE DEF k, o
  <2>2. /\ StageOf(jobs'[k]) = "over" /\ PlaceOf(jobs'[k]) = None
        /\ jobs'[k].cancel = jobs[k].cancel
    BY <2>0, <2>1, RowsSeen
  <2>3. Board!Finish({k})
    BY <1>2, <2>0, <2>1, <2>2, FinishRows DEF BoardInv
  <2> QED
    BY <2>0, <2>3 DEF Board!Next
<1> QED
  BY <1>1, <1>2 DEF Save

LEMMA BoardWithdraw ==
    ASSUME BoardInv, NEW r \in Request, CancelCommit(r)
    PROVE  Board!Next \/ UNCHANGED Board!vars
<1>3. PICK S \in SUBSET JobId : S = Named(r)
  BY DEF Named
<1>4. PICK E \in SUBSET JobId : E = {j \in S : pending[r][j] = "queued"}
  OBVIOUS
<1>0. E \in SUBSET S /\ \A j \in JobId : jobs[j] \in Row
  BY <1>4 DEF BoardInv, TypeInv, TypeOK
<1>1. CASE \A j \in S : Present(j)
  <2>1. \A j \in JobId :
           jobs'[j] = IF j \in S THEN CancelWritten(jobs[j], pending[r][j])
                                 ELSE jobs[j]
    BY <1>1, <1>3 DEF CancelCommit
  <2>2. ASSUME NEW j \in S
        PROVE  /\ jobs'[j].cancel
               /\ j \in E => /\ StageOf(jobs'[j]) = "over"
                             /\ PlaceOf(jobs'[j]) = None
               /\ j \notin E => /\ StageOf(jobs'[j]) = StageOf(jobs[j])
                                /\ PlaceOf(jobs'[j]) = PlaceOf(jobs[j])
    <3>1. jobs[j] \in Row
      BY <1>0
    <3>2. CASE j \in E
      <4>1. jobs'[j] = [jobs[j] EXCEPT !.cancel = TRUE, !.status = "canceled"]
        BY <1>4, <2>1, <3>2 DEF CancelWritten
      <4> QED
        BY <3>1, <3>2, <4>1 DEF Row, StageOf, PlaceOf, Terminal
    <3>3. CASE j \notin E
      <4>1. jobs'[j] = [jobs[j] EXCEPT !.cancel = TRUE]
        BY <1>4, <2>1, <3>3 DEF CancelWritten
      <4>2. /\ jobs'[j].cancel /\ jobs'[j].status = jobs[j].status
            /\ jobs'[j].port = jobs[j].port
        BY <3>1, <4>1 DEF Row
      <4> QED
        BY <3>3, <4>2 DEF StageOf, PlaceOf
    <3> QED
      BY <3>2, <3>3
  <2>3. Board!Move(E, "over")
    BY <1>0, <2>1, <2>2, MoveRows
  <2>4. {j \in JobId : jobs'[j].cancel} = {j \in JobId : jobs[j].cancel} \cup S
    BY <1>0, <2>1, <2>2
  <2>5. \A j \in S : StageOf(jobs[j]) # "absent"
    BY <1>0, <1>1
       DEF Present, StageOf, Row, Status, Active, Terminal
  <2>6. Board!Withdraw(S, E)
    BY <1>0, <2>3, <2>4, <2>5 DEF Board!Withdraw
  <2> QED
    BY <2>6 DEF Board!Next
<1>2. CASE ~(\A j \in S : Present(j))
  <2>1. \A j \in JobId : jobs'[j] = jobs[j]
    BY <1>2, <1>3 DEF CancelCommit
  <2> QED
    BY <2>1, StutterRows
<1> QED
  BY <1>1, <1>2

\* A step of the queue is a step of the board, or none that the board sees.
LEMMA BoardNext ==
    ASSUME BoardInv, [Next]_vars
    PROVE  Board!Next \/ UNCHANGED Board!vars
<1> DEFINE Kinds == Board!Next \/ UNCHANGED Board!vars
<1>1. CASE UNCHANGED jobs
  BY <1>1, StutterRows
<1>2. ASSUME NEW w \in Worker, NEW p \in Port, NEW rest, ClaimOn(w, p, rest)
      PROVE  Kinds
  <2>1. ASSUME NEW j \in Claimable(p),
               jobs' = [jobs EXCEPT ![j] = Claimed(jobs[j], w, p)]
        PROVE  Kinds
    <3>1. j \in JobId /\ ClaimsRow(w, p, j)
      BY <1>2, <2>1 DEF ClaimOn, ClaimsRow, Claimable, Waiting
    <3> QED
      BY <3>1, BoardStart
  <2> QED
    BY <1>1, <1>2, <2>1 DEF ClaimOn
<1>3. ASSUME NEW w \in Worker, RecoverNothing(w) \/ ClaimNext(w) PROVE Kinds
  <2>1. worker[w].ports \subseteq Port
    BY DEF BoardInv, TypeInv, TypeOK, WorkerState
  <2> QED
    BY <1>2, <1>3, <2>1 DEF RecoverNothing, ClaimNext
<1>4. ASSUME NEW w \in Worker, CaptureTurn(w) PROVE Kinds
  <2>1. ~HeartbeatDue(w)
    BY <1>4, Ranges
       DEF CaptureTurn, HeartbeatDue, BoardInv, TypeInv, TypeOK, WorkerShape,
           WorkerState
  <2> QED
    BY <1>1, <1>4, <2>1 DEF CaptureTurn
<1>5. ASSUME NEW w \in Worker, WorkerStep(w) PROVE Kinds
  <2>1. CASE \/ BeginCycle(w) \/ FindDisabled(w) \/ LoadClaimed(w)
             \/ RunFails(w) \/ StartJob(w) \/ OpenPort(w) \/ TransferCanceled(w)
             \/ TransferDone(w) \/ CaptureTimeout(w) \/ FinalCheck(w)
    BY <1>1, <2>1
       DEF BeginCycle, FindDisabled, LoadClaimed, RunFails, StartJob, OpenPort,
           TransferCanceled, TransferDone, CaptureTimeout, FinalCheck
  <2> QED
    BY <1>3, <1>4, <1>5, <2>1, BoardOrphan, BoardRecover, BoardSave DEF WorkerStep
<1>6. ASSUME Web PROVE Kinds
  <2>1. CASE ToggleDevice \/ \E r \in Request, j \in JobId : CancelRead(r, j)
    BY <1>1, <2>1 DEF ToggleDevice, CancelRead
  <2> QED
    BY <1>6, <2>1, BoardSubmit, BoardDelete, BoardWithdraw DEF Web
<1>7. CASE \/ \E w \in Worker : Interrupt(w)
           \/ UNCHANGED vars
  BY <1>1, <1>7 DEF Interrupt, vars
<1>8. CASE Tick
  BY <1>8, BoardTick DEF BoardInv
<1> QED
  BY <1>5, <1>6, <1>7, <1>8 DEF Next

\* Everything workers, web requests and the clock do to the jobs table is what
\* the abstract queue allows: slots are respected, and a job that is over or
\* withdrawn is not handed out again.
THEOREM QueueImplementsBoard == Spec => ImplementsBoard
<1>1. Init => Board!Init
  BY DEF Init, Board!Init, StageOf, PlaceOf, NoRow, Terminal
<1>2. Init => AbsentClean
  BY DEF Init, AbsentClean, NoRow
<1>3. TypeInv /\ AbsentClean /\ [Next]_vars => AbsentClean'
  BY AbsentCleanNext
<1>4. TypeInv /\ AbsentClean /\ [Next]_vars => [Board!Next]_(Board!vars)
  BY BoardNext DEF BoardInv
<1> QED
  BY <1>1, <1>2, <1>3, <1>4, TypeCorrect, PTL DEF Spec, ImplementsBoard, Board!Spec
=============================================================================
