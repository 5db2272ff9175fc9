------------------------- MODULE EventGatewayProofs -------------------------
(***************************************************************************)
(* Proofs about EventGateway, for any jobs, alerts, resume requests and    *)
(* restarts: type correctness, that queue.join() counts the unfinished     *)
(* jobs, that no alert is forgotten, that the last write wins, that a      *)
(* search is answered, that no alert goes back to processing, that a       *)
(* queue that drains answers them all, and that the runs of every job do   *)
(* what GraphRuns says.                                                    *)
(*                                                                         *)
(* The argument for the answers: a job the gateway owes one to is in the   *)
(* hands of its handler, in the queue, in the worker's, or has a sidecar;  *)
(* and while it is in the worker's hands alone, the worker's run is about  *)
(* the payload in the incoming file.                                       *)
(***************************************************************************)
EXTENDS EventGateway, SequenceTheorems, TLAPS

-----------------------------------------------------------------------------
(* The inductive invariant.                                                *)

\* Who is not idle has a job, and only the worker's run comes back to the loop.
RunsHoldJobs ==
    \A e \in Runs : IF pc[e] = "idle" THEN job[e] = NoJob ELSE job[e] \in Jobs

\* The handler that has the loop posted an alert, and write_failed_result() does
\* not have the loop too.
HandlerAlone == handling # NoJob => posts > 0 /\ pc[Worker] # "failing"

\* A file is torn only while its handler is writing it, unless something broke.
TornInHand ==
    restarts = 0 /\ ~diskError => \A j \in Jobs : incoming[j] = Torn => handling = j

\* Without resume requests the worker's run is the only one.
OneRun ==
    resumes = 0 =>
        /\ \A r \in Resumers : pc[r] = "idle"
        /\ \A e \in Runs : ~overlapped[e]

\* The job will be run (again).
Owed(j) == handling = j \/ Contains(queue, j)

InWorker(j, steps) == job[Worker] = j /\ pc[Worker] \in steps

\* Nobody is forgotten.
Remembered(j) ==
    /\ incoming[j] # 0 => Owed(j) \/ job[Worker] = j \/ sidecar[j].status \in Terminal
    /\ sidecar[j].status = "torn" => InWorker(j, {"writing", "failing"})
    /\ InWorker(j, {"written", "returned"}) => sidecar[j].status = "completed"

\* What is there, or in the worker's hands, is about the last payload, unless the
\* job will be run again.
Fresh(j) ==
    \/ Owed(j)
    \/ /\ InWorker(j, {"working"}) => ver[Worker] \in {0, incoming[j]}
       /\ InWorker(j, {"gate", "writing", "written"}) => ver[Worker] = incoming[j]
       /\ sidecar[j].status = "completed" =>
            \/ sidecar[j].payload = incoming[j]
            \/ InWorker(j, {"started", "working", "gate", "writing", "raised"})

AllAnswered == WorkerAlone => \A j \in Jobs : Remembered(j) /\ Fresh(j)

\* queue.join() waits for exactly the jobs that are queued or in the worker.
JoinCountsUnfinished ==
    unfinished = Len(queue) + (IF pc[Worker] = "idle" THEN 0 ELSE 1)

IInv ==
    /\ TypeOK /\ RunsHoldJobs /\ HandlerAlone /\ JoinCountsUnfinished
    /\ TornInHand /\ OneRun /\ AllAnswered

-----------------------------------------------------------------------------
(* The queue.                                                              *)

\* What is in a queue after put().
LEMMA InAppend ==
  ASSUME NEW q \in Seq(Jobs), NEW x \in Jobs, NEW j \in Jobs
  PROVE  Contains(Append(q, x), j) <=> Contains(q, j) \/ j = x
<1>1. /\ Append(q, x) \in Seq(Jobs) /\ Len(Append(q, x)) = Len(q) + 1 /\ Len(q) \in Nat
      /\ Append(q, x)[Len(q) + 1] = x
      /\ \A i \in 1..Len(q) : Append(q, x)[i] = q[i]
  OBVIOUS
<1>2. ASSUME Contains(Append(q, x), j) PROVE Contains(q, j) \/ j = x
  BY <1>1, <1>2 DEF Contains
<1>3. ASSUME Contains(q, j) \/ j = x PROVE Contains(Append(q, x), j)
  BY <1>1, <1>3 DEF Contains
<1>. QED BY <1>2, <1>3

\* What is in a queue before get().
LEMMA InTail ==
  ASSUME NEW q \in Seq(Jobs), q # <<>>, NEW j \in Jobs
  PROVE  Contains(q, j) <=> Contains(Tail(q), j) \/ j = Head(q)
<1>1. /\ Tail(q) \in Seq(Jobs) /\ Len(Tail(q)) = Len(q) - 1 /\ Len(q) \in Nat /\ Len(q) > 0
      /\ Head(q) = q[1]
      /\ \A i \in 1..Len(Tail(q)) : Tail(q)[i] = q[i + 1]
  BY HeadTailProperties
<1>2. ASSUME Contains(q, j) PROVE Contains(Tail(q), j) \/ j = Head(q)
  <2>1. PICK i \in 1..Len(q) : q[i] = j
    BY <1>2 DEF Contains
  <2>2. CASE i = 1
    BY <1>1, <2>1, <2>2
  <2>3. CASE i # 1
    <3>1. i - 1 \in 1..Len(Tail(q)) /\ Tail(q)[i - 1] = j
      BY <1>1, <2>1, <2>3
    <3>. QED BY <3>1 DEF Contains
  <2>. QED BY <2>2, <2>3
<1>3. ASSUME Contains(Tail(q), j) \/ j = Head(q) PROVE Contains(q, j)
  <2>1. CASE j = Head(q)
    BY <1>1, <2>1 DEF Contains
  <2>2. CASE Contains(Tail(q), j)
    <3>1. PICK i \in 1..Len(Tail(q)) : Tail(q)[i] = j
      BY <2>2 DEF Contains
    <3>2. i + 1 \in 1..Len(q) /\ q[i + 1] = j
      BY <1>1, <3>1
    <3>. QED BY <3>2 DEF Contains
  <2>. QED BY <1>3, <2>1, <2>2
<1>. QED BY <1>2, <1>3

-----------------------------------------------------------------------------
(* Type correctness.                                                       *)

\* The worker is one of those that run the pipeline.
LEMMA WorkerRuns == Worker \in Runs /\ \A r \in Resumers : r \in Runs /\ r # Worker
  BY RunsAssumption DEF Runs

\* Release() and Closes() keep the types.
LEMMA ReleaseTyped ==
  ASSUME TypeOK, NEW e \in Runs, Release(e)
  PROVE  /\ pc' \in [Runs -> {"idle", "started", "working", "gate", "writing", "written",
                              "returned", "raised", "failing"}]
         /\ job' \in [Runs -> Jobs \cup {NoJob}]
         /\ ver' \in [Runs -> Payloads \cup {0}]
         /\ atGate' \in [Runs -> BOOLEAN]
  BY DEF TypeOK, Release, Goto

LEMMA EndsTyped ==
  ASSUME TypeOK, NEW e \in Runs, NEW how \in {"raised", "returned"}, Ends(e, how)
  PROVE  /\ pc' \in [Runs -> {"idle", "started", "working", "gate", "writing", "written",
                              "returned", "raised", "failing"}]
         /\ job' \in [Runs -> Jobs \cup {NoJob}]
         /\ ver' \in [Runs -> Payloads \cup {0}]
         /\ atGate' \in [Runs -> BOOLEAN] /\ overlapped' \in [Runs -> BOOLEAN]
<1>1. CASE e = Worker
  BY <1>1 DEF Ends, Goto, TypeOK
<1>2. CASE e # Worker
  <2>1. Release(e) /\ Closes(e)
    BY <1>2 DEF Ends
  <2>. QED BY <2>1, ReleaseTyped DEF Closes, TypeOK
<1>. QED BY <1>1, <1>2

\* What a writer leaves in the sidecar is typed.
LEMMA WritesTyped ==
  ASSUME TypeOK, NEW e \in Runs,
         NEW c \in [status : Statuses, payload : Payloads \cup {0}],
         Writes(e, c)
  PROVE  sidecar' \in [Jobs -> [status : Statuses, payload : Payloads \cup {0}]]
<1>1. [status |-> "torn", payload |-> 0] \in [status : Statuses, payload : Payloads \cup {0}]
  BY DEF Statuses
<1>. QED BY <1>1 DEF TypeOK, Writes

\* Every step keeps the types.  What an action leaves alone is not mentioned.
LEMMA TypeStep == IInv /\ [Next]_vars => TypeOK'
<1> SUFFICES ASSUME IInv, [Next]_vars PROVE TypeOK'
  OBVIOUS
<1> USE GatewayBounds, WorkerRuns
<1>1. TypeOK /\ RunsHoldJobs /\ HandlerAlone /\ JoinCountsUnfinished
  BY DEF IInv
<1>2. ASSUME NEW j \in Jobs, IngestOpen(j) PROVE TypeOK'
  BY <1>1, <1>2 DEF TypeOK, IngestOpen, runVars, Payloads
<1>3. CASE IngestPut
  BY <1>1, <1>3 DEF TypeOK, HandlerAlone, IngestPut, runVars, history, Payloads
<1>4. CASE IngestFail
  BY <1>1, <1>4 DEF TypeOK, IngestFail, runVars, disk
<1>5. CASE TakeJob
  <2>1. Head(queue) \in Jobs /\ Tail(queue) \in Seq(Jobs)
    BY <1>1, <1>5, HeadTailProperties DEF TypeOK, TakeJob
  <2>. QED BY <1>1, <1>5, <2>1 DEF TypeOK, TakeJob, Goto, disk, history
<1>6. CASE Begin
  <2>1. [at |-> "running", payload |-> 0] \in [at : Checkpoints, payload : Payloads \cup {0}]
    BY DEF Checkpoints
  <2>2. ckpt' \in [Jobs -> [at : Checkpoints, payload : Payloads \cup {0}]]
    BY <1>1, <1>6, <2>1 DEF TypeOK, Begin
  <2>. QED BY <1>1, <1>6, <2>2 DEF TypeOK, Begin, Goto, history
<1>7. ASSUME NEW r \in Resumers, ResumeRequest(r) PROVE TypeOK'
  BY <1>1, <1>7 DEF TypeOK, ResumeRequest, Goto, disk
<1>8. ASSUME NEW r \in Resumers, BeginResumed(r) PROVE TypeOK'
  <2>1. CASE Release(r) /\ Closes(r)
    BY <1>1, <1>8, <2>1, ReleaseTyped DEF TypeOK, BeginResumed, Closes, disk, history
  <2>2. CASE ~(Release(r) /\ Closes(r))
    <3>1. job[r] \in Jobs
      BY <1>1, <1>8 DEF RunsHoldJobs, BeginResumed
    <3>2. /\ ver' = [ver EXCEPT ![r] = ckpt[job[r]].payload]
          /\ atGate' = [atGate EXCEPT ![r] = (ckpt[job[r]].at = "gate")]
          /\ Goto(r, IF ckpt[job[r]].at = "gate" THEN "gate" ELSE "working")
          /\ UNCHANGED <<job, overlapped>>
          /\ UNCHANGED <<disk, queue, unfinished, handling, history>>
      BY <1>8, <2>2 DEF BeginResumed
    <3>3. ckpt[job[r]].payload \in Payloads \cup {0}
      BY <1>1, <3>1 DEF TypeOK
    <3>. QED BY <1>1, <3>2, <3>3 DEF TypeOK, Goto, disk, history
  <2>. QED BY <2>1, <2>2
<1>9. ASSUME NEW e \in Runs, Suspend(e) PROVE TypeOK'
  BY <1>1, <1>9, EndsTyped DEF TypeOK, Suspend, disk, history
<1>s. ASSUME NEW e \in Runs, NEW place \in Checkpoints, Saves(e, place)
      PROVE  ckpt' \in [Jobs -> [at : Checkpoints, payload : Payloads \cup {0}]]
  <2>1. [at |-> place, payload |-> ver[e]] \in [at : Checkpoints, payload : Payloads \cup {0}]
    BY <1>1 DEF TypeOK
  <2>. QED BY <1>1, <1>s, <2>1 DEF TypeOK, Saves
<1>10. ASSUME NEW e \in Runs, Abort(e) PROVE TypeOK'
  <2>1. ckpt' \in [Jobs -> [at : Checkpoints, payload : Payloads \cup {0}]]
    BY <1>s, <1>10 DEF Abort, Checkpoints
  <2>2. job[e] \in Jobs
    BY <1>1, <1>10 DEF RunsHoldJobs, Abort
  <2>. QED BY <1>1, <1>10, <2>1, <2>2, EndsTyped DEF TypeOK, Abort
<1>11. ASSUME NEW e \in Runs, Raise(e) PROVE TypeOK'
  <2>1. job[e] \in Jobs
    BY <1>1, <1>11 DEF RunsHoldJobs, Raise
  <2>. QED BY <1>1, <1>11, <2>1, EndsTyped DEF TypeOK, Raise, disk
<1>12. ASSUME NEW e \in Runs, ReportOpen(e) PROVE TypeOK'
  <2>1. [status |-> "torn", payload |-> 0] \in [status : Statuses, payload : Payloads \cup {0}]
    BY DEF Statuses
  <2>. QED BY <1>1, <1>12, <2>1 DEF TypeOK, ReportOpen, Truncate, Goto, history
<1>13. ASSUME NEW e \in Runs, ReportWrite(e) PROVE TypeOK'
  <2>1. [status |-> "completed", payload |-> ver[e]] \in [status : Statuses, payload : Payloads \cup {0}]
    BY <1>1 DEF TypeOK, Statuses
  <2>2. sidecar' \in [Jobs -> [status : Statuses, payload : Payloads \cup {0}]]
    BY <1>1, <1>13, <2>1, WritesTyped DEF ReportWrite
  <2>3. overlapped' \in [Runs -> BOOLEAN]
    BY <1>13 DEF ReportWrite, Overlaps
  <2>. QED BY <1>1, <1>13, <2>2, <2>3 DEF TypeOK, ReportWrite, Goto, history
<1>14. ASSUME TaskDone, pc[Worker] # "idle" PROVE unfinished' \in Nat
  BY <1>1, <1>14 DEF TaskDone, JoinCountsUnfinished, TypeOK
<1>15. CASE Completed
  BY <1>1, <1>14, <1>15, ReleaseTyped DEF TypeOK, Completed, TaskDone, Closes, disk, history
<1>16. CASE FailOpen
  <2>1. CASE Truncate(Worker) /\ Goto(Worker, "failing")
    <3>1. [status |-> "torn", payload |-> 0] \in [status : Statuses, payload : Payloads \cup {0}]
      BY DEF Statuses
    <3>2. overlapped' \in [Runs -> BOOLEAN]
      BY <1>1, <2>1 DEF TypeOK, Truncate
    <3>3. CASE TaskDone
      BY <1>1, <1>14, <1>16, <2>1, <3>1, <3>2, <3>3, ReleaseTyped
         DEF TypeOK, FailOpen, TaskDone, Truncate, Goto
    <3>4. CASE ~TaskDone
      BY <1>1, <1>16, <2>1, <3>1, <3>2, <3>4 DEF TypeOK, FailOpen, Truncate, Goto
    <3>. QED BY <3>3, <3>4
  <2>2. CASE TaskDone /\ Closes(Worker) /\ diskError' = TRUE /\ UNCHANGED sidecar
    BY <1>1, <1>14, <1>16, <2>2, ReleaseTyped DEF TypeOK, FailOpen, TaskDone, Closes
  <2>. QED BY <1>16, <2>1, <2>2 DEF FailOpen
<1>17. CASE FailWrite
  <2>1. [status |-> "failed", payload |-> 0] \in [status : Statuses, payload : Payloads \cup {0}]
    BY DEF Statuses
  <2>2. /\ sidecar' \in [Jobs -> [status : Statuses, payload : Payloads \cup {0}]]
        /\ overlapped' \in [Runs -> BOOLEAN] /\ diskError' \in BOOLEAN
    <3>1. CASE Writes(Worker, [status |-> "failed", payload |-> 0]) /\ Overlaps(Worker)
               /\ UNCHANGED diskError
      BY <1>1, <2>1, <3>1, WritesTyped DEF TypeOK, Overlaps
    <3>2. CASE diskError' = TRUE /\ Closes(Worker) /\ UNCHANGED sidecar
      BY <1>1, <3>2 DEF TypeOK, Closes
    <3>. QED BY <1>17, <3>1, <3>2 DEF FailWrite
  <2>3. TaskDone /\ Release(Worker) /\ pc[Worker] # "idle"
    BY <1>17 DEF FailWrite, TaskDone
  <2>. QED BY <1>1, <1>14, <1>17, <2>2, <2>3, ReleaseTyped DEF TypeOK, FailWrite
<1>18. CASE Crash
  BY <1>1, <1>18 DEF TypeOK, Crash, disk
<1>19. CASE UNCHANGED vars
  BY <1>1, <1>19 DEF TypeOK, vars, disk, runVars, history
<1>20. ASSUME NEW e \in Runs, SaveNode(e) PROVE TypeOK'
  <2>1. ckpt' \in [Jobs -> [at : Checkpoints, payload : Payloads \cup {0}]]
    BY <1>s, <1>20 DEF SaveNode, Checkpoints
  <2>. QED BY <1>1, <1>20, <2>1 DEF TypeOK, SaveNode, runVars, history
<1>21. ASSUME NEW e \in Runs, ReachGate(e) PROVE TypeOK'
  <2>1. ckpt' \in [Jobs -> [at : Checkpoints, payload : Payloads \cup {0}]]
    BY <1>s, <1>21 DEF ReachGate, Checkpoints
  <2>. QED BY <1>1, <1>21, <2>1 DEF TypeOK, ReachGate, Goto, history
<1>22. ASSUME NEW e \in Runs, BeginFails(e) PROVE TypeOK'
  <2>1. job[e] \in Jobs
    BY <1>1, <1>22 DEF RunsHoldJobs, BeginFails
  <2>. QED BY <1>1, <1>22, <2>1, EndsTyped DEF TypeOK, BeginFails, disk
<1>23. ASSUME NEW e \in Runs, Parse(e) PROVE TypeOK'
  <2>1. job[e] \in Jobs
    BY <1>1, <1>23 DEF RunsHoldJobs, Parse
  <2>2. CASE incoming[job[e]] # Torn
    <3>1. incoming[job[e]] \in Payloads \cup {0}
      BY <1>1, <2>1, <2>2 DEF TypeOK
    <3>2. [at |-> "running", payload |-> incoming[job[e]]]
            \in [at : Checkpoints, payload : Payloads \cup {0}]
      BY <3>1 DEF Checkpoints
    <3>3. /\ ver' = [ver EXCEPT ![e] = incoming[job[e]]]
          /\ ckpt' = [ckpt EXCEPT ![job[e]] = [at |-> "running", payload |-> incoming[job[e]]]]
          /\ UNCHANGED <<pc, job, atGate, overlapped, troubled>>
      BY <1>23, <2>2 DEF Parse
    <3>4. /\ ver' \in [Runs -> Payloads \cup {0}]
          /\ ckpt' \in [Jobs -> [at : Checkpoints, payload : Payloads \cup {0}]]
      BY <1>1, <3>1, <3>2, <3>3 DEF TypeOK
    <3>. QED BY <1>1, <1>23, <3>3, <3>4 DEF TypeOK, Parse
  <2>3. CASE incoming[job[e]] = Torn
    <3>1. [at |-> "ended", payload |-> 0] \in [at : Checkpoints, payload : Payloads \cup {0}]
      BY DEF Checkpoints
    <3>2. /\ ckpt' = [ckpt EXCEPT ![job[e]] = [at |-> "ended", payload |-> 0]]
          /\ troubled' = troubled \cup {job[e]}
          /\ Ends(e, "raised")
      BY <1>23, <2>3 DEF Parse
    <3>3. ckpt' \in [Jobs -> [at : Checkpoints, payload : Payloads \cup {0}]]
      BY <1>1, <3>1, <3>2 DEF TypeOK
    <3>. QED BY <1>1, <1>23, <2>1, <3>2, <3>3, EndsTyped DEF TypeOK, Parse
  <2>. QED BY <2>2, <2>3
<1>24. ASSUME NEW e \in Runs, ReportDone(e) PROVE TypeOK'
  <2>1. ckpt' \in [Jobs -> [at : Checkpoints, payload : Payloads \cup {0}]]
    BY <1>s, <1>24 DEF ReportDone, Checkpoints
  <2>. QED BY <1>1, <1>24, <2>1, EndsTyped DEF TypeOK, ReportDone, history
<1>. QED
  BY <1>2, <1>3, <1>4, <1>5, <1>6, <1>7, <1>8, <1>9, <1>10, <1>11, <1>12, <1>13, <1>15, <1>16,
     <1>17, <1>18, <1>19, <1>20, <1>21, <1>22, <1>23, <1>24
  DEF Next, WorkerStep, ResumerStep, ThreadStep

-----------------------------------------------------------------------------
(* Who holds what.                                                         *)

Control == RunsHoldJobs /\ HandlerAlone /\ JoinCountsUnfinished /\ TornInHand /\ OneRun

\* How a run ends, for whoever runs it.
LEMMA EndsHolds ==
  ASSUME TypeOK, RunsHoldJobs, NEW e \in Runs, NEW how \in {"raised", "returned"},
         Ends(e, how), pc[e] # "idle"
  PROVE  /\ RunsHoldJobs'
         /\ \A f \in Runs : f # e => pc'[f] = pc[f] /\ job'[f] = job[f] /\ ver'[f] = ver[f]
         /\ \A f \in Runs : overlapped'[f] => overlapped[f]
         /\ IF e = Worker THEN pc'[Worker] = how /\ job' = job /\ ver' = ver
                          ELSE pc'[e] = "idle" /\ job'[e] = NoJob
<1> USE WorkerRuns
<1>1. CASE e = Worker
  BY <1>1 DEF Ends, Goto, TypeOK, RunsHoldJobs
<1>2. CASE e # Worker
  <2>1. Release(e) /\ Closes(e)
    BY <1>2 DEF Ends
  <2>. QED BY <1>2, <2>1 DEF Release, Goto, Closes, TypeOK, RunsHoldJobs
<1>. QED BY <1>1, <1>2

\* How task_done() changes the count.
LEMMA TaskDoneHolds ==
  ASSUME TypeOK, RunsHoldJobs, JoinCountsUnfinished, TaskDone, pc[Worker] # "idle",
         UNCHANGED queue
  PROVE  /\ RunsHoldJobs' /\ JoinCountsUnfinished'
         /\ \A r \in Resumers : pc'[r] = pc[r] /\ job'[r] = job[r] /\ ver'[r] = ver[r]
         /\ pc'[Worker] = "idle" /\ job'[Worker] = NoJob
<1> USE WorkerRuns
<1>1. /\ pc' = [pc EXCEPT ![Worker] = "idle"] /\ job' = [job EXCEPT ![Worker] = NoJob]
      /\ ver' = [ver EXCEPT ![Worker] = 0]
  BY DEF TaskDone, Release, Goto
<1>2. RunsHoldJobs'
  BY <1>1 DEF RunsHoldJobs, TypeOK
<1>3. JoinCountsUnfinished'
  BY <1>1 DEF TypeOK, JoinCountsUnfinished, TaskDone
<1>. QED BY <1>1, <1>2, <1>3 DEF TypeOK

\* Every step keeps the control invariant.
LEMMA ControlStep == IInv /\ [Next]_vars => Control'
<1> SUFFICES ASSUME IInv, [Next]_vars PROVE Control'
  OBVIOUS
<1> USE GatewayBounds, WorkerRuns, JobsAssumption
<1>1. TypeOK /\ RunsHoldJobs /\ HandlerAlone /\ JoinCountsUnfinished /\ TornInHand /\ OneRun
  BY DEF IInv
<1>2. ASSUME NEW j \in Jobs, IngestOpen(j) PROVE Control'
  BY <1>1, <1>2 DEF Control, TypeOK, RunsHoldJobs, HandlerAlone, JoinCountsUnfinished, TornInHand,
     OneRun, IngestOpen, LoopFree, runVars
<1>3. CASE IngestPut
  <2>1. Len(queue') = Len(queue) + 1
    BY <1>1, <1>3 DEF TypeOK, IngestPut
  <2>. QED BY <1>1, <1>3, <2>1 DEF Control, TypeOK, RunsHoldJobs, HandlerAlone, JoinCountsUnfinished,
     TornInHand, OneRun, IngestPut, runVars, history, Torn
<1>4. CASE IngestFail
  BY <1>1, <1>4 DEF Control, TypeOK, RunsHoldJobs, HandlerAlone, JoinCountsUnfinished, TornInHand,
     OneRun, IngestFail, disk, runVars
<1>5. CASE TakeJob
  <2>1. Head(queue) \in Jobs /\ Len(queue') = Len(queue) - 1 /\ Len(queue) \in Nat
    BY <1>1, <1>5, HeadTailProperties DEF TypeOK, TakeJob
  <2>. QED BY <1>1, <1>5, <2>1 DEF Control, TypeOK, RunsHoldJobs, HandlerAlone, JoinCountsUnfinished,
     TornInHand, OneRun, TakeJob, Goto, disk, history
<1>6. CASE Begin
  BY <1>1, <1>6 DEF Control, TypeOK, RunsHoldJobs, HandlerAlone, JoinCountsUnfinished,
     TornInHand, OneRun, Begin, Goto, history
<1>7. ASSUME NEW r \in Resumers, ResumeRequest(r) PROVE Control'
  BY <1>1, <1>7 DEF Control, TypeOK, RunsHoldJobs, HandlerAlone, JoinCountsUnfinished, TornInHand,
     OneRun, ResumeRequest, Goto, disk
<1>8. ASSUME NEW r \in Resumers, BeginResumed(r) PROVE Control'
  <2>1. CASE Release(r) /\ Closes(r)
    BY <1>1, <1>8, <2>1 DEF Control, TypeOK, RunsHoldJobs, HandlerAlone, JoinCountsUnfinished,
       TornInHand, OneRun, BeginResumed, Release, Closes, Goto, disk, history
  <2>2. CASE ~(Release(r) /\ Closes(r))
    BY <1>1, <1>8, <2>2 DEF Control, TypeOK, RunsHoldJobs, HandlerAlone, JoinCountsUnfinished,
       TornInHand, OneRun, BeginResumed, Goto, disk, history
  <2>. QED BY <2>1, <2>2
<1>9. ASSUME NEW e \in Runs, pc[e] # "idle", pc[e] # "failing",
             NEW how \in {"raised", "returned"}, Ends(e, how),
             UNCHANGED <<incoming, queue, unfinished, handling, posts, resumes, restarts>>,
             diskError => diskError'
      PROVE Control'
  BY <1>1, <1>9, EndsHolds DEF Control, TypeOK, HandlerAlone, JoinCountsUnfinished, TornInHand,
     OneRun, Runs
<1>10. ASSUME NEW e \in Runs,
              Suspend(e) \/ Abort(e) \/ Raise(e) \/ BeginFails(e) \/ ReportDone(e)
       PROVE  Control'
  <2>1. /\ pc[e] \in {"started", "working", "gate", "writing", "written"}
        /\ \E how \in {"raised", "returned"} : Ends(e, how)
        /\ diskError => diskError'
        /\ UNCHANGED <<incoming, queue, unfinished, handling, posts, resumes, restarts>>
    <3>1. CASE Suspend(e)
      BY <3>1 DEF Suspend, disk, history
    <3>2. CASE Abort(e)
      BY <3>2 DEF Abort
    <3>3. CASE Raise(e)
      BY <1>1, <3>3 DEF TypeOK, Raise, disk
    <3>4. CASE BeginFails(e)
      BY <3>4 DEF BeginFails, disk
    <3>5. CASE ReportDone(e)
      BY <3>5 DEF ReportDone, history
    <3>. QED BY <1>10, <3>1, <3>2, <3>3, <3>4, <3>5
  <2>. QED BY <1>9, <2>1
<1>11. ASSUME NEW e \in Runs, ReportOpen(e) PROVE Control'
  BY <1>1, <1>11 DEF Control, TypeOK, RunsHoldJobs, HandlerAlone, JoinCountsUnfinished, TornInHand,
     OneRun, ReportOpen, Truncate, Goto, history, Runs
<1>12. ASSUME NEW e \in Runs, ReportWrite(e) PROVE Control'
  <2>1. /\ UNCHANGED <<incoming, queue, unfinished, handling, posts, resumes, restarts, diskError>>
        /\ pc[e] = "writing" /\ Overlaps(e)
    BY <1>12 DEF ReportWrite, history
  <2>2. OneRun'
    BY <1>1, <1>12, <2>1 DEF TypeOK, OneRun, RunsHoldJobs, ReportWrite, Overlaps, Goto, Runs
  <2>. QED BY <1>1, <1>12, <2>1, <2>2 DEF Control, TypeOK, RunsHoldJobs, HandlerAlone,
     JoinCountsUnfinished, TornInHand, ReportWrite, Goto
<1>13. CASE Completed
  BY <1>1, <1>13, TaskDoneHolds DEF Control, TypeOK, HandlerAlone, TornInHand, OneRun, Completed,
     Closes, disk, history, Runs
<1>14. CASE FailOpen
  <2>1. UNCHANGED <<incoming, queue, handling, posts, resumes, restarts>> /\ LoopFree
        /\ pc[Worker] = "raised" /\ (diskError => diskError') /\ handling = NoJob
    BY <1>14 DEF FailOpen, LoopFree
  <2>2. CASE Truncate(Worker) /\ Goto(Worker, "failing") /\ UNCHANGED <<unfinished, job, ver>>
    BY <1>1, <2>1, <2>2 DEF Control, TypeOK, RunsHoldJobs, HandlerAlone, JoinCountsUnfinished,
       TornInHand, OneRun, Truncate, Goto
  <2>3. CASE TaskDone /\ Closes(Worker)
    BY <1>1, <2>1, <2>3, TaskDoneHolds DEF Control, TypeOK, HandlerAlone, TornInHand, OneRun,
       Closes, Runs
  <2>. QED BY <1>14, <2>2, <2>3 DEF FailOpen
<1>15. CASE FailWrite
  <2>1. /\ UNCHANGED <<incoming, queue, handling, posts, resumes, restarts>> /\ TaskDone
        /\ pc[Worker] = "failing" /\ (diskError => diskError')
    BY <1>15 DEF FailWrite
  <2>2. resumes = 0 => \A f \in Runs : ~overlapped'[f]
    BY <1>1, <1>15 DEF TypeOK, OneRun, RunsHoldJobs, FailWrite, Overlaps, Closes, Runs
  <2>. QED BY <1>1, <2>1, <2>2, TaskDoneHolds DEF Control, HandlerAlone, TornInHand, OneRun
<1>16. CASE Crash
  BY <1>1, <1>16 DEF Control, TypeOK, RunsHoldJobs, HandlerAlone, JoinCountsUnfinished, TornInHand,
     OneRun, Crash, disk
<1>17. CASE UNCHANGED vars
  BY <1>1, <1>17 DEF Control, RunsHoldJobs, HandlerAlone, JoinCountsUnfinished, TornInHand, OneRun,
     vars, disk, runVars, history
<1>18. ASSUME NEW e \in Runs, SaveNode(e) PROVE Control'
  BY <1>1, <1>18 DEF Control, RunsHoldJobs, HandlerAlone, JoinCountsUnfinished, TornInHand, OneRun,
     SaveNode, runVars, history
<1>19. ASSUME NEW e \in Runs, ReachGate(e) PROVE Control'
  BY <1>1, <1>19 DEF Control, TypeOK, RunsHoldJobs, HandlerAlone, JoinCountsUnfinished, TornInHand,
     OneRun, ReachGate, Goto, history, Runs
<1>20. ASSUME NEW e \in Runs, Parse(e) PROVE Control'
  <2>1. /\ pc[e] = "working"
        /\ UNCHANGED <<incoming, queue, unfinished, handling, posts, resumes, restarts, diskError>>
    BY <1>20 DEF Parse
  <2>2. CASE UNCHANGED <<pc, job, overlapped>>
    BY <1>1, <2>1, <2>2 DEF Control, RunsHoldJobs, HandlerAlone, JoinCountsUnfinished, TornInHand,
       OneRun
  <2>3. CASE Ends(e, "raised")
    BY <1>9, <2>1, <2>3
  <2>. QED BY <1>20, <2>2, <2>3 DEF Parse
<1>. QED
  BY <1>2, <1>3, <1>4, <1>5, <1>6, <1>7, <1>8, <1>10, <1>11, <1>12, <1>13, <1>14, <1>15, <1>16,
     <1>17, <1>18, <1>19, <1>20
  DEF Next, WorkerStep, ResumerStep, ThreadStep

-----------------------------------------------------------------------------
(* The answers.                                                            *)

\* In a lifetime with the worker alone, a step of a run is one of the worker's.
LEMMA OnlyWorkerRuns ==
  ASSUME OneRun, WorkerAlone, NEW e \in Runs, pc[e] # "idle"
  PROVE  e = Worker /\ ~overlapped[Worker]
  BY WorkerRuns DEF OneRun, WorkerAlone, Runs

\* Every step that leaves the worker alone keeps every job remembered and fresh.
LEMMA AnswersStep == IInv /\ [Next]_vars => AllAnswered'
<1> SUFFICES ASSUME IInv, [Next]_vars, WorkerAlone', NEW j \in Jobs
             PROVE  Remembered(j)' /\ Fresh(j)'
  BY DEF AllAnswered
<1> USE WorkerRuns, JobsAssumption
<1>1. /\ TypeOK /\ RunsHoldJobs /\ HandlerAlone /\ TornInHand /\ OneRun
      /\ WorkerAlone => Remembered(j) /\ Fresh(j)
  BY DEF IInv, AllAnswered
<1>2. ASSUME NEW i \in Jobs, IngestOpen(i) PROVE Remembered(j)' /\ Fresh(j)'
  <2>1. /\ WorkerAlone /\ handling = NoJob /\ handling' = i
        /\ incoming' = [incoming EXCEPT ![i] = Torn]
        /\ UNCHANGED <<sidecar, queue, pc, job, ver>>
    BY <1>2 DEF IngestOpen, LoopFree, WorkerAlone, runVars
  <2>2. Remembered(j) /\ Fresh(j)
    BY <1>1, <2>1
  <2>. QED BY <1>1, <2>1, <2>2 DEF TypeOK, Remembered, Fresh, Owed, InWorker
<1>3. CASE IngestPut
  <2>1. /\ WorkerAlone /\ handling \in Jobs /\ handling' = NoJob
        /\ incoming' = [incoming EXCEPT ![handling] = posts]
        /\ queue' = Append(queue, handling)
        /\ UNCHANGED <<sidecar, pc, job, ver>>
    BY <1>1, <1>3 DEF IngestPut, WorkerAlone, runVars, history, TypeOK
  <2>2. Remembered(j) /\ Fresh(j)
    BY <1>1, <2>1
  <2>3. Contains(queue', j) <=> Contains(queue, j) \/ j = handling
    BY <1>1, <2>1, InAppend DEF TypeOK
  <2>4. Owed(j)' <=> Owed(j)
    BY <2>1, <2>3 DEF Owed
  <2>. QED BY <1>1, <2>1, <2>2, <2>4 DEF TypeOK, Remembered, Fresh, InWorker, Owed
<1>4. CASE IngestFail
  BY <1>4 DEF IngestFail, WorkerAlone
<1>5. CASE TakeJob
  <2>1. /\ WorkerAlone /\ pc[Worker] = "idle" /\ queue # <<>> /\ queue' = Tail(queue)
        /\ job' = [job EXCEPT ![Worker] = Head(queue)]
        /\ pc' = [pc EXCEPT ![Worker] = "started"]
        /\ UNCHANGED <<incoming, sidecar, handling, ver>>
    BY <1>5 DEF TakeJob, Goto, WorkerAlone, disk, history
  <2>2. Remembered(j) /\ Fresh(j) /\ job[Worker] = NoJob
    BY <1>1, <2>1 DEF RunsHoldJobs
  <2>3. Contains(queue, j) <=> Contains(queue', j) \/ j = job'[Worker]
    BY <1>1, <2>1, InTail DEF TypeOK
  <2>4. pc'[Worker] = "started"
    BY <1>1, <2>1 DEF TypeOK
  <2>. QED BY <1>1, <2>1, <2>2, <2>3, <2>4 DEF Remembered, Fresh, InWorker, Owed
<1>6. CASE Begin
  <2>1. /\ WorkerAlone /\ pc[Worker] = "started"
        /\ UNCHANGED <<incoming, sidecar, queue, handling, job>>
    BY <1>6 DEF Begin, WorkerAlone, history
  <2>2. Remembered(j) /\ Fresh(j)
    BY <1>1, <2>1
  <2>3. pc'[Worker] = "working" /\ ver'[Worker] = 0
    BY <1>1, <1>6 DEF Begin, Goto, TypeOK
  <2>. QED BY <2>1, <2>2, <2>3 DEF Remembered, Fresh, InWorker, Owed
<1>7. ASSUME NEW r \in Resumers, ResumeRequest(r) PROVE FALSE
  BY <1>1, <1>7 DEF ResumeRequest, WorkerAlone, TypeOK
<1>8. ASSUME NEW r \in Resumers, BeginResumed(r) PROVE FALSE
  BY <1>1, <1>8, OnlyWorkerRuns DEF BeginResumed, WorkerAlone, history
<1>9. ASSUME NEW e \in Runs, Suspend(e) \/ Abort(e) \/ Raise(e) \/ BeginFails(e)
      PROVE  Remembered(j)' /\ Fresh(j)'
  <2>1. pc[e] \in {"started", "working", "gate", "written"} /\ Ends(e, "raised") /\ WorkerAlone
        /\ UNCHANGED <<incoming, sidecar, queue, handling>>
    <3>1. CASE Suspend(e)
      BY <3>1 DEF Suspend, WorkerAlone, disk, history
    <3>2. CASE Abort(e)
      BY <3>2 DEF Abort, WorkerAlone
    <3>3. CASE Raise(e)
      BY <1>1, <3>3 DEF Raise, WorkerAlone, disk, TypeOK
    <3>4. CASE BeginFails(e)
      BY <3>4 DEF BeginFails, WorkerAlone, disk
    <3>. QED BY <1>9, <3>1, <3>2, <3>3, <3>4
  <2>2. e = Worker /\ Remembered(j) /\ Fresh(j)
    BY <1>1, <2>1, OnlyWorkerRuns
  <2>3. pc'[Worker] = "raised" /\ UNCHANGED <<job, ver>>
    BY <1>1, <2>1, <2>2 DEF Ends, Goto, TypeOK
  <2>. QED BY <2>1, <2>2, <2>3 DEF Remembered, Fresh, InWorker, Owed
<1>10. ASSUME NEW e \in Runs, ReportOpen(e) PROVE Remembered(j)' /\ Fresh(j)'
  <2>1. pc[e] = "gate" /\ Truncate(e) /\ Goto(e, "writing") /\ WorkerAlone
        /\ UNCHANGED <<incoming, queue, handling, job, ver>>
    BY <1>10 DEF ReportOpen, WorkerAlone, history
  <2>2. e = Worker /\ Remembered(j) /\ Fresh(j)
    BY <1>1, <2>1, OnlyWorkerRuns
  <2>3. /\ pc'[Worker] = "writing"
        /\ IF j = job[Worker] THEN sidecar'[j].status = "torn" ELSE sidecar'[j] = sidecar[j]
    BY <1>1, <2>1, <2>2 DEF Truncate, Goto, TypeOK
  <2>. QED BY <2>1, <2>2, <2>3 DEF Remembered, Fresh, InWorker, Owed
<1>11. ASSUME NEW e \in Runs, ReportWrite(e) PROVE Remembered(j)' /\ Fresh(j)'
  <2>1. pc[e] = "writing" /\ WorkerAlone /\ Writes(e, [status |-> "completed", payload |-> ver[e]])
        /\ UNCHANGED <<incoming, queue, handling>>
    BY <1>11 DEF ReportWrite, WorkerAlone, history
  <2>2. e = Worker /\ ~overlapped[Worker] /\ Remembered(j) /\ Fresh(j)
    BY <1>1, <2>1, OnlyWorkerRuns
  <2>3. pc'[Worker] = "written" /\ UNCHANGED <<job, ver>>
    BY <1>1, <1>11, <2>2 DEF ReportWrite, Goto, TypeOK
  <2>4. IF j = job[Worker] THEN sidecar'[j] = [status |-> "completed", payload |-> ver[Worker]]
                           ELSE sidecar'[j] = sidecar[j]
    BY <1>1, <2>1, <2>2 DEF Writes, TypeOK
  <2>. QED BY <2>1, <2>2, <2>3, <2>4 DEF Remembered, Fresh, InWorker, Owed, Terminal
<1>12. CASE Completed
  <2>1. pc[Worker] = "returned" /\ Release(Worker) /\ WorkerAlone
        /\ UNCHANGED <<incoming, sidecar, queue, handling>>
    BY <1>12 DEF Completed, TaskDone, WorkerAlone, disk, history
  <2>2. Remembered(j) /\ Fresh(j)
    BY <1>1, <2>1
  <2>3. pc'[Worker] = "idle" /\ job'[Worker] = NoJob
    BY <1>1, <2>1 DEF Release, Goto, TypeOK
  <2>. QED BY <2>1, <2>2, <2>3 DEF Remembered, Fresh, InWorker, Owed, Terminal
<1>13. CASE FailOpen
  <2>1. pc[Worker] = "raised" /\ Truncate(Worker) /\ Goto(Worker, "failing") /\ WorkerAlone
        /\ UNCHANGED <<incoming, queue, handling, job, ver>>
    BY <1>13 DEF FailOpen, WorkerAlone
  <2>2. Remembered(j) /\ Fresh(j)
    BY <1>1, <2>1
  <2>3. /\ pc'[Worker] = "failing"
        /\ IF j = job[Worker] THEN sidecar'[j].status = "torn" ELSE sidecar'[j] = sidecar[j]
    BY <1>1, <2>1 DEF Truncate, Goto, TypeOK
  <2>. QED BY <2>1, <2>2, <2>3 DEF Remembered, Fresh, InWorker, Owed
<1>14. CASE FailWrite
  <2>1. pc[Worker] = "failing" /\ Writes(Worker, [status |-> "failed", payload |-> 0])
        /\ Release(Worker) /\ WorkerAlone /\ UNCHANGED <<incoming, queue, handling>>
    BY <1>14 DEF FailWrite, TaskDone, WorkerAlone
  <2>2. ~overlapped[Worker] /\ Remembered(j) /\ Fresh(j)
    BY <1>1, <2>1, OnlyWorkerRuns
  <2>3. /\ pc'[Worker] = "idle" /\ job'[Worker] = NoJob
        /\ IF j = job[Worker] THEN sidecar'[j].status = "failed" ELSE sidecar'[j] = sidecar[j]
    BY <1>1, <2>1, <2>2 DEF Writes, Release, Goto, TypeOK
  <2>. QED BY <2>1, <2>2, <2>3 DEF Remembered, Fresh, InWorker, Owed, Terminal
<1>15. CASE Crash
  BY <1>1, <1>15 DEF Crash, WorkerAlone, TypeOK
<1>16. CASE UNCHANGED vars
  BY <1>1, <1>16 DEF vars, disk, runVars, history, WorkerAlone, Remembered, Fresh, InWorker, Owed
<1>17. ASSUME NEW e \in Runs, SaveNode(e) PROVE Remembered(j)' /\ Fresh(j)'
  <2>1. WorkerAlone /\ UNCHANGED <<incoming, sidecar, queue, handling, pc, job, ver>>
    BY <1>17 DEF SaveNode, WorkerAlone, runVars, history
  <2>. QED BY <1>1, <2>1 DEF Remembered, Fresh, InWorker, Owed
<1>18. ASSUME NEW e \in Runs, ReachGate(e) PROVE Remembered(j)' /\ Fresh(j)'
  <2>1. pc[e] = "working" /\ ver[e] # 0 /\ Goto(e, "gate") /\ WorkerAlone
        /\ UNCHANGED <<incoming, sidecar, queue, handling, job, ver>>
    BY <1>18 DEF ReachGate, WorkerAlone, history
  <2>2. e = Worker /\ Remembered(j) /\ Fresh(j)
    BY <1>1, <2>1, OnlyWorkerRuns
  <2>3. pc'[Worker] = "gate"
    BY <1>1, <2>1, <2>2 DEF Goto, TypeOK
  <2>. QED BY <2>1, <2>2, <2>3 DEF Remembered, Fresh, InWorker, Owed
<1>19. ASSUME NEW e \in Runs, Parse(e) PROVE Remembered(j)' /\ Fresh(j)'
  <2>1. pc[e] = "working" /\ WorkerAlone /\ UNCHANGED <<incoming, sidecar, queue, handling>>
    BY <1>19 DEF Parse, WorkerAlone
  <2>2. e = Worker /\ Remembered(j) /\ Fresh(j)
    BY <1>1, <2>1, OnlyWorkerRuns
  <2>3. CASE ver' = [ver EXCEPT ![e] = incoming[job[e]]] /\ UNCHANGED <<pc, job>>
    <3>1. ver'[Worker] = incoming[job[Worker]]
      BY <1>1, <2>2, <2>3 DEF TypeOK
    <3>. QED BY <2>1, <2>2, <2>3, <3>1 DEF Remembered, Fresh, InWorker, Owed
  <2>4. CASE Ends(e, "raised")
    <3>1. pc'[Worker] = "raised" /\ UNCHANGED <<job, ver>>
      BY <1>1, <2>1, <2>2, <2>4 DEF Ends, Goto, TypeOK
    <3>. QED BY <2>1, <2>2, <3>1 DEF Remembered, Fresh, InWorker, Owed
  <2>. QED BY <1>19, <2>3, <2>4 DEF Parse
<1>20. ASSUME NEW e \in Runs, ReportDone(e) PROVE Remembered(j)' /\ Fresh(j)'
  <2>1. pc[e] = "written" /\ Ends(e, "returned") /\ WorkerAlone
        /\ UNCHANGED <<incoming, sidecar, queue, handling>>
    BY <1>20 DEF ReportDone, WorkerAlone, history
  <2>2. e = Worker /\ Remembered(j) /\ Fresh(j)
    BY <1>1, <2>1, OnlyWorkerRuns
  <2>3. pc'[Worker] = "returned" /\ UNCHANGED <<job, ver>>
    BY <1>1, <2>1, <2>2 DEF Ends, Goto, TypeOK
  <2>. QED BY <2>1, <2>2, <2>3 DEF Remembered, Fresh, InWorker, Owed
<1>. QED
  BY <1>2, <1>3, <1>4, <1>5, <1>6, <1>7, <1>8, <1>9, <1>10, <1>11, <1>12, <1>13, <1>14, <1>15,
     <1>16, <1>17, <1>18, <1>19, <1>20
  DEF Next, WorkerStep, ResumerStep, ThreadStep, Runs

-----------------------------------------------------------------------------
(* The theorems.                                                           *)

\* At start-up nothing is owed.
LEMMA InitInv == Init => IInv
<1> SUFFICES ASSUME Init PROVE IInv
  OBVIOUS
<1> USE GatewayBounds, WorkerRuns DEF Init
<1>1. TypeOK
  <2>1. <<>> \in Seq(Jobs)
    OBVIOUS
  <2>2. [status |-> "none", payload |-> 0] \in [status : Statuses, payload : Payloads \cup {0}]
    BY DEF Statuses
  <2>3. [at |-> "none", payload |-> 0] \in [at : Checkpoints, payload : Payloads \cup {0}]
    BY DEF Checkpoints
  <2>4. /\ incoming \in [Jobs -> Payloads \cup {0, Torn}]
        /\ sidecar \in [Jobs -> [status : Statuses, payload : Payloads \cup {0}]]
        /\ ckpt \in [Jobs -> [at : Checkpoints, payload : Payloads \cup {0}]]
    BY <2>2, <2>3
  <2>5. /\ pc \in [Runs -> {"idle", "started", "working", "gate", "writing", "written",
                            "returned", "raised", "failing"}]
        /\ job \in [Runs -> Jobs \cup {NoJob}] /\ ver \in [Runs -> Payloads \cup {0}]
        /\ atGate \in [Runs -> BOOLEAN] /\ overlapped \in [Runs -> BOOLEAN]
    OBVIOUS
  <2>6. /\ posts = 0 /\ resumes = 0 /\ restarts = 0 /\ unfinished = 0
        /\ diskError = FALSE /\ troubled = {} /\ handling = NoJob /\ queue = <<>>
    OBVIOUS
  <2>. HIDE DEF Init
  <2>7. posts \in 0..MaxSubmits /\ resumes \in 0..MaxResumes /\ restarts \in 0..MaxRestarts
    BY <2>6
  <2>8. unfinished \in Nat /\ diskError \in BOOLEAN
    BY <2>6
  <2>9. troubled \in SUBSET Jobs
    BY <2>6
  <2>10. handling \in Jobs \cup {NoJob} /\ queue \in Seq(Jobs)
    BY <2>1, <2>6
  <2>. QED BY <2>4, <2>5, <2>7, <2>8, <2>9, <2>10 DEF TypeOK
<1>2. RunsHoldJobs /\ HandlerAlone /\ TornInHand /\ OneRun
  BY DEF RunsHoldJobs, HandlerAlone, TornInHand, OneRun, Torn
<1>3. JoinCountsUnfinished
  BY EmptySeq DEF JoinCountsUnfinished
<1>4. AllAnswered
  BY DEF AllAnswered, Remembered, Fresh, Owed, InWorker
<1>. QED BY <1>1, <1>2, <1>3, <1>4 DEF IInv

\* The inductive invariant of the gateway: where every alert is that is still owed
\* an answer, for any alerts, resume requests and restarts.
THEOREM Inductive == Spec => []IInv
<1>1. Init => IInv
  BY InitInv
<1>2. IInv /\ [Next]_vars => IInv'
  BY TypeStep, ControlStep, AnswersStep DEF IInv, Control
<1>. QED BY <1>1, <1>2, PTL DEF Spec

\* Every variable keeps its type.
THEOREM TypeCorrect == Spec => []TypeOK
<1>1. IInv => TypeOK
  BY DEF IInv
<1>. QED BY <1>1, Inductive, PTL

\* queue.join() waits for exactly the jobs in the queue and in the worker's hands:
\* whatever ends a job calls task_done(), and calls it once.
THEOREM JoinCounts == Spec => []JoinCountsUnfinished
<1>1. IInv => JoinCountsUnfinished
  BY DEF IInv
<1>. QED BY <1>1, Inductive, PTL

\* When everything is quiet, no job is queued or in anybody's hands.
LEMMA QuietHolds ==
  ASSUME IInv, Quiet, NEW j \in Jobs
  PROVE  ~Owed(j) /\ pc[Worker] = "idle" /\ job[Worker] # j
<1>1. pc[Worker] = "idle" /\ handling # j /\ ~Contains(queue, j)
  BY WorkerRuns, JobsAssumption, EmptySeq DEF Quiet, Contains
<1>. QED BY <1>1, WorkerRuns, JobsAssumption DEF IInv, RunsHoldJobs, Owed

\* Every alert the gateway accepted is answered when the worker has nothing left to
\* do, however often its job id was posted again while it was queued or running.
THEOREM NoneForgotten == Spec => []NoAlertForgotten
<1>1. IInv => NoAlertForgotten
  <2>. SUFFICES ASSUME IInv, WorkerAlone, Quiet, NEW j \in Jobs, incoming[j] # 0
                PROVE  Status(j) \in Terminal
    BY DEF NoAlertForgotten
  <2>1. sidecar[j].status \in Terminal
    BY QuietHolds DEF IInv, AllAnswered, Remembered
  <2>. QED BY <2>1 DEF Status, Terminal
<1>. QED BY <1>1, Inductive, PTL

\* The result that stays is about the last payload posted for the job.
THEOREM LastWins == Spec => []LastWriteWins
<1>1. IInv => LastWriteWins
  BY QuietHolds DEF LastWriteWins, IInv, AllAnswered, Fresh, InWorker
<1>. QED BY <1>1, Inductive, PTL

\* While nothing broke, no search meets a torn incoming file.
THEOREM SearchesAreAnswered == Spec => []SearchAnswers
<1>1. IInv => SearchAnswers
  BY JobsAssumption DEF SearchAnswers, SearchFails, Corpus, LoopFree, IInv, TornInHand
<1>. QED BY <1>1, Inductive, PTL

\* What a step may do to the files: an incoming file stays, and a sidecar stays.
LEMMA FilesStay ==
  ASSUME IInv, [Next]_vars, NEW j \in Jobs
  PROVE  /\ incoming[j] # 0 => incoming'[j] # 0
         /\ sidecar[j].status # "none" => sidecar'[j].status # "none"
<1> USE WorkerRuns
<1>1. TypeOK /\ HandlerAlone
  BY DEF IInv
<1>2. incoming[j] # 0 => incoming'[j] # 0
  <2>1. CASE \E i \in Jobs : IngestOpen(i)
    BY <1>1, <2>1 DEF IngestOpen, TypeOK, Torn
  <2>2. CASE IngestPut
    BY <1>1, <2>2, GatewayBounds DEF IngestPut, TypeOK, HandlerAlone
  <2>3. CASE ~IngestPut /\ ~(\E i \in Jobs : IngestOpen(i))
    BY <2>3 DEF Next, vars, WorkerStep, ResumerStep, ThreadStep, IngestFail, TakeJob, Begin,
       BeginFails, Parse, Suspend, Abort, SaveNode, ReachGate, Raise, ReportOpen, ReportWrite,
       ReportDone, history, Completed, FailOpen, FailWrite, ResumeRequest,
       BeginResumed, Crash, disk
  <2>. QED BY <2>1, <2>2, <2>3
<1>3. ASSUME NEW e \in Runs, Truncate(e)
      PROVE  sidecar[j].status # "none" => sidecar'[j].status # "none"
  BY <1>1, <1>3 DEF Truncate, TypeOK
<1>4. ASSUME NEW e \in Runs, NEW content, content.status # "none", Writes(e, content)
      PROVE  sidecar[j].status # "none" => sidecar'[j].status # "none"
  <2>1. PICK x \in {content, [status |-> "torn", payload |-> 0]} :
           sidecar' = [sidecar EXCEPT ![job[e]] = x]
    BY <1>4 DEF Writes
  <2>2. x.status # "none"
    BY <1>4, <2>1
  <2>. QED BY <1>1, <2>1, <2>2 DEF TypeOK
<1>5. CASE \E e \in Runs : ReportOpen(e)
  BY <1>3, <1>5 DEF ReportOpen
<1>6. CASE \E e \in Runs : ReportWrite(e)
  BY <1>4, <1>6 DEF ReportWrite
<1>7. CASE FailOpen
  BY <1>3, <1>7 DEF FailOpen
<1>8. CASE FailWrite
  <2>1. CASE Writes(Worker, [status |-> "failed", payload |-> 0])
    BY <1>2, <1>4, <2>1
  <2>2. CASE sidecar' = sidecar
    BY <1>2, <2>2
  <2>. QED BY <1>8, <2>1, <2>2 DEF FailWrite
<1>9. CASE UNCHANGED sidecar
  BY <1>2, <1>9
<1>10. UNCHANGED sidecar \/ FailOpen \/ FailWrite
       \/ \E e \in Runs : ReportOpen(e) \/ ReportWrite(e)
  <2>1. ASSUME NEW e \in Runs, ThreadStep(e), ~ReportOpen(e), ~ReportWrite(e)
        PROVE  UNCHANGED sidecar
    BY <2>1 DEF ThreadStep, Parse, ReachGate, Suspend, Abort, Raise, ReportDone, disk
  <2>2. ASSUME NEW e \in Runs, SaveNode(e) PROVE UNCHANGED sidecar
    BY <2>2 DEF SaveNode
  <2>. QED BY <2>1, <2>2 DEF Next, vars, WorkerStep, ResumerStep, IngestOpen, IngestPut,
       IngestFail, TakeJob, Begin, BeginFails, Completed, ResumeRequest, BeginResumed, Crash, disk
<1>. QED BY <1>2, <1>5, <1>6, <1>7, <1>8, <1>9, <1>10

\* No alert goes back to "not_found", and none that had an answer, or a sidecar being
\* written, to "processing": restarts, failed writes and concurrent writers included.  A
\* posted again job may still go from "completed" to a 500 and to "completed" again.
THEOREM NeverBackToProcessing == Spec => NoReturnToProcessing
<1>1. IInv /\ [Next]_vars =>
        [\A j \in Jobs :
            /\ Status(j) # "not_found" => Status(j)' # "not_found"
            /\ Status(j) \notin {"not_found", "processing"} => Status(j)' # "processing"]_vars
  <2>. SUFFICES ASSUME IInv, [Next]_vars, NEW j \in Jobs
       PROVE  /\ Status(j) # "not_found" => Status(j)' # "not_found"
              /\ Status(j) \notin {"not_found", "processing"} => Status(j)' # "processing"
    OBVIOUS
  <2>1. /\ sidecar[j].status \in Statuses /\ sidecar'[j].status \in Statuses
    BY TypeStep DEF IInv, TypeOK
  <2>. QED BY <2>1, FilesStay DEF Status, Statuses
<1>. QED BY <1>1, Inductive, PTL DEF Spec, NoReturnToProcessing

-----------------------------------------------------------------------------
(* From a queue that drains to alerts that are answered.                   *)

\* A queued job is on its way to an answer, or the worker is no longer alone.
Coming(j) ==
    \/ ~WorkerAlone
    \/ Contains(queue, j) \/ job[Worker] = j
    \/ sidecar[j].status \in Terminal

\* A job gets off that way only with its answer: neither another alert for it nor another
\* job takes it out of the queue, the worker's hands or its sidecar for good.
LEMMA ComingStays ==
  ASSUME IInv, [Next]_vars, NEW j \in Jobs, Coming(j)
  PROVE  Coming(j)'
<1> SUFFICES ASSUME WorkerAlone'
             PROVE  Contains(queue', j) \/ job'[Worker] = j \/ sidecar'[j].status \in Terminal
  BY DEF Coming
<1> USE WorkerRuns, JobsAssumption
<1>1. /\ TypeOK /\ RunsHoldJobs /\ HandlerAlone /\ OneRun
      /\ WorkerAlone => Remembered(j)
  BY DEF IInv, AllAnswered
<1>2. CASE WorkerAlone /\ UNCHANGED <<queue, job, sidecar>>
  BY <1>2 DEF Coming
<1>3. CASE (\E i \in Jobs : IngestOpen(i)) \/ IngestFail \/ UNCHANGED vars
  BY <1>2, <1>3 DEF IngestOpen, IngestFail, vars, disk, runVars, history, WorkerAlone
<1>4. CASE IngestPut
  <2>1. /\ WorkerAlone /\ handling \in Jobs /\ queue' = Append(queue, handling)
        /\ UNCHANGED <<sidecar, job>>
    BY <1>1, <1>4 DEF IngestPut, WorkerAlone, runVars, history, TypeOK
  <2>. QED BY <1>1, <2>1, InAppend DEF TypeOK, Coming
<1>5. CASE TakeJob
  <2>1. /\ WorkerAlone /\ pc[Worker] = "idle" /\ queue # <<>> /\ queue' = Tail(queue)
        /\ job' = [job EXCEPT ![Worker] = Head(queue)]
        /\ UNCHANGED sidecar
    BY <1>5 DEF TakeJob, WorkerAlone, disk, history
  <2>2. job[Worker] # j
    BY <1>1, <2>1 DEF RunsHoldJobs
  <2>. QED BY <1>1, <2>1, <2>2, InTail DEF TypeOK, Coming
<1>6. CASE Begin \/ \E e \in Runs : SaveNode(e) \/ ReachGate(e)
  BY <1>2, <1>6 DEF Begin, SaveNode, ReachGate, runVars, history, WorkerAlone
<1>7. ASSUME NEW r \in Resumers, ResumeRequest(r) PROVE FALSE
  BY <1>1, <1>7 DEF ResumeRequest, WorkerAlone, TypeOK
<1>8. ASSUME NEW r \in Resumers, BeginResumed(r) PROVE FALSE
  BY <1>1, <1>8, OnlyWorkerRuns DEF BeginResumed, WorkerAlone, history
<1>9. ASSUME NEW e \in Runs,
             Suspend(e) \/ Abort(e) \/ Raise(e) \/ BeginFails(e) \/ Parse(e) \/ ReportDone(e)
      PROVE  WorkerAlone /\ UNCHANGED <<queue, job, sidecar>>
  <2>1. /\ pc[e] # "idle" /\ WorkerAlone /\ UNCHANGED <<queue, sidecar>>
        /\ UNCHANGED job \/ \E how \in {"raised", "returned"} : Ends(e, how)
    <3>1. CASE Suspend(e)
      BY <3>1 DEF Suspend, WorkerAlone, disk, history
    <3>2. CASE Abort(e)
      BY <3>2 DEF Abort, WorkerAlone
    <3>3. CASE Raise(e)
      BY <1>1, <3>3 DEF Raise, WorkerAlone, disk, TypeOK
    <3>4. CASE BeginFails(e)
      BY <3>4 DEF BeginFails, WorkerAlone, disk
    <3>5. CASE Parse(e)
      BY <3>5 DEF Parse, WorkerAlone
    <3>6. CASE ReportDone(e)
      BY <3>6 DEF ReportDone, WorkerAlone, history
    <3>. QED BY <1>9, <3>1, <3>2, <3>3, <3>4, <3>5, <3>6
  <2>2. e = Worker
    BY <1>1, <2>1, OnlyWorkerRuns
  <2>. QED BY <2>1, <2>2 DEF Ends
<1>10. ASSUME NEW e \in Runs, ReportOpen(e)
       PROVE  Contains(queue', j) \/ job'[Worker] = j \/ sidecar'[j].status \in Terminal
  <2>1. pc[e] = "gate" /\ Truncate(e) /\ WorkerAlone /\ UNCHANGED <<queue, job>>
    BY <1>10 DEF ReportOpen, WorkerAlone, history
  <2>2. e = Worker
    BY <1>1, <2>1, OnlyWorkerRuns
  <2>3. job[Worker] = j \/ sidecar'[j] = sidecar[j]
    BY <1>1, <2>1, <2>2 DEF Truncate, TypeOK
  <2>. QED BY <2>1, <2>3 DEF Coming
<1>11. ASSUME NEW e \in Runs, ReportWrite(e)
       PROVE  Contains(queue', j) \/ job'[Worker] = j \/ sidecar'[j].status \in Terminal
  <2>1. pc[e] = "writing" /\ WorkerAlone /\ Writes(e, [status |-> "completed", payload |-> ver[e]])
        /\ UNCHANGED queue
    BY <1>11 DEF ReportWrite, WorkerAlone, history
  <2>2. e = Worker /\ ~overlapped[Worker]
    BY <1>1, <2>1, OnlyWorkerRuns
  <2>3. UNCHANGED job
    BY <1>11 DEF ReportWrite
  <2>4. sidecar'[j].status = "completed" \/ sidecar'[j] = sidecar[j]
    BY <1>1, <2>1, <2>2 DEF Writes, TypeOK
  <2>. QED BY <2>1, <2>3, <2>4 DEF Coming, Terminal
<1>12. CASE Completed
  <2>1. pc[Worker] = "returned" /\ WorkerAlone /\ UNCHANGED <<sidecar, queue>>
    BY <1>12 DEF Completed, WorkerAlone, disk, history
  <2>. QED BY <1>1, <2>1 DEF Remembered, InWorker, Coming, Terminal
<1>13. CASE FailOpen
  <2>1. pc[Worker] = "raised" /\ Truncate(Worker) /\ WorkerAlone /\ UNCHANGED <<queue, job>>
    BY <1>13 DEF FailOpen, WorkerAlone
  <2>2. job[Worker] = j \/ sidecar'[j] = sidecar[j]
    BY <1>1, <2>1 DEF Truncate, TypeOK
  <2>. QED BY <2>1, <2>2 DEF Coming
<1>14. CASE FailWrite
  <2>1. pc[Worker] = "failing" /\ Writes(Worker, [status |-> "failed", payload |-> 0])
        /\ WorkerAlone /\ UNCHANGED queue
    BY <1>14 DEF FailWrite, WorkerAlone
  <2>2. ~overlapped[Worker]
    BY <1>1, <2>1, OnlyWorkerRuns
  <2>3. IF j = job[Worker] THEN sidecar'[j].status = "failed" ELSE sidecar'[j] = sidecar[j]
    BY <1>1, <2>1, <2>2 DEF Writes, TypeOK
  <2>. QED BY <2>1, <2>3 DEF Coming, Terminal
<1>15. CASE Crash
  BY <1>1, <1>15 DEF Crash, WorkerAlone, TypeOK
<1>. QED
  BY <1>2, <1>3, <1>4, <1>5, <1>6, <1>7, <1>8, <1>9, <1>10, <1>11, <1>12, <1>13, <1>14, <1>15
  DEF Next, WorkerStep, ResumerStep, ThreadStep, Runs

\* Whoever drains the queue answers every alert in it: where the runs show that the queue
\* drains, each alert in it has its answer in the end, for any jobs and any number of alerts.
THEOREM AlertsAreAnswered == Spec /\ QueueDrains => EveryAlertAnswered
<1>. SUFFICES ASSUME NEW j \in Jobs
     PROVE  Spec /\ QueueDrains =>
                (Contains(queue, j) ~> Status(j) \in Terminal \/ ~WorkerAlone)
  BY DEF EveryAlertAnswered
<1>1. IInv /\ Contains(queue, j) => unfinished > 0 /\ Coming(j)
  <2>. SUFFICES ASSUME IInv, Contains(queue, j)
                PROVE  unfinished > 0 /\ Coming(j)
    OBVIOUS
  <2>1. queue \in Seq(Jobs) /\ Len(queue) \in Nat /\ Len(queue) # 0
    BY DEF IInv, TypeOK, Contains
  <2>. QED BY <2>1 DEF IInv, JoinCountsUnfinished, Coming
<1>2. IInv /\ [Next]_vars /\ Coming(j) => Coming(j)'
  BY ComingStays
<1>3. IInv /\ Coming(j) /\ unfinished = 0 => Status(j) \in Terminal \/ ~WorkerAlone
  <2>. SUFFICES ASSUME IInv, Coming(j), unfinished = 0, WorkerAlone
                PROVE  Status(j) \in Terminal
    OBVIOUS
  <2>1. Len(queue) = 0 /\ pc[Worker] = "idle" /\ Len(queue) \in Nat /\ queue \in Seq(Jobs)
    BY DEF IInv, TypeOK, JoinCountsUnfinished
  <2>2. ~Contains(queue, j) /\ job[Worker] # j
    BY <2>1, WorkerRuns, JobsAssumption DEF Contains, IInv, RunsHoldJobs
  <2>. QED BY <2>2 DEF Coming, Status, Terminal
<1>. QED BY <1>1, <1>2, <1>3, Inductive, PTL DEF Spec, QueueDrains

-----------------------------------------------------------------------------
(* The graph, as GraphRuns has it.                                         *)

\* Only a resumed run continues from the gate, and stays there; and it has a checkpoint.
Waypoints ==
    /\ \A e \in Runs : atGate[e] => e # Worker /\ pc[e] \in {"gate", "writing", "written"}
    /\ \A r \in Resumers : pc[r] # "idle" => ckpt[job[r]].at # "none"

\* A step of e's run, for the job it has, leaves the others and their checkpoints alone.
Alone(e) ==
    /\ \A f \in Runs \ {e} : UNCHANGED <<pc[f], job[f], atGate[f]>>
    /\ job'[e] \in {job[e], NoJob} /\ restarts' = restarts
    /\ \A j \in Jobs \ {job[e]} : ckpt'[j] = ckpt[j] /\ (j \in troubled') = (j \in troubled)

\* The steps of the runs.
LEMMA RunsAreAlone ==
  ASSUME IInv, NEW e \in Runs, SaveNode(e) \/ ThreadStep(e)
  PROVE  Alone(e) /\ pc[e] \in {"working", "gate", "writing", "written"} /\ job[e] \in Jobs
<1>1. TypeOK /\ RunsHoldJobs
  BY DEF IInv
<1>2. pc[e] \in {"working", "gate", "writing", "written"}
  BY DEF SaveNode, ThreadStep, Parse, ReachGate, Suspend, Abort, Raise, ReportOpen, ReportWrite,
     ReportDone
<1>3. job[e] \in Jobs
  BY <1>1, <1>2 DEF RunsHoldJobs
<1>4. ASSUME NEW place, Saves(e, place) PROVE \A j \in Jobs \ {job[e]} : ckpt'[j] = ckpt[j]
  BY <1>1, <1>4 DEF Saves, TypeOK
<1>5. \A j \in Jobs \ {job[e]} : ckpt'[j] = ckpt[j]
  <2>1. CASE Parse(e)
    BY <1>1, <2>1 DEF Parse, TypeOK
  <2>2. CASE ~Parse(e)
    BY <1>4, <2>2 DEF SaveNode, ThreadStep, ReachGate, Suspend, Abort, Raise, ReportOpen,
       ReportWrite, ReportDone, disk
  <2>. QED BY <2>1, <2>2
<1>t. restarts' = restarts /\ \A j \in Jobs \ {job[e]} : (j \in troubled') = (j \in troubled)
  BY DEF SaveNode, ThreadStep, Parse, ReachGate, Suspend, Abort, Raise, ReportOpen, ReportWrite,
     ReportDone, history
<1>6. ASSUME NEW how, Ends(e, how) PROVE Alone(e)
  BY <1>1, <1>5, <1>t, <1>6, <1>2, <1>3 DEF Alone, Ends, Release, Goto, TypeOK
<1>7. CASE UNCHANGED <<job, atGate>> /\ \E s \in {"gate", "writing", "written"} : Goto(e, s)
  BY <1>1, <1>5, <1>t, <1>7, <1>2, <1>3 DEF Alone, Goto, TypeOK
<1>8. CASE UNCHANGED <<pc, job, atGate>>
  BY <1>2, <1>3, <1>5, <1>t, <1>8 DEF Alone
<1>9. CASE SaveNode(e)
  BY <1>8, <1>2, <1>3, <1>9 DEF SaveNode, runVars
<1>10. CASE Parse(e)
  BY <1>6, <1>8, <1>2, <1>3, <1>10 DEF Parse
<1>11. CASE Suspend(e) \/ Abort(e) \/ Raise(e) \/ ReportDone(e)
  BY <1>6, <1>2, <1>3, <1>11 DEF Suspend, Abort, Raise, ReportDone
<1>12. CASE ReachGate(e) \/ ReportOpen(e) \/ ReportWrite(e)
  BY <1>7, <1>2, <1>3, <1>12 DEF ReachGate, ReportOpen, ReportWrite
<1>. QED BY <1>9, <1>10, <1>11, <1>12 DEF ThreadStep

\* A run is nothing to the other jobs.
LEMMA OtherJobs ==
  ASSUME NEW e \in Runs, Alone(e), NEW j \in Jobs, j # job[e]
  PROVE  UNCHANGED GraphOf(j)!vars
<1>1. /\ StepFor(j, e)' = "idle" /\ StepFor(j, e) = "idle"
      /\ (job[e] = j /\ atGate[e])' = FALSE /\ (job[e] = j /\ atGate[e]) = FALSE
  BY JobsAssumption DEF Alone, StepFor
<1>2. \A f \in Runs : /\ StepFor(j, f)' = StepFor(j, f)
                       /\ (job[f] = j /\ atGate[f])' = (job[f] = j /\ atGate[f])
  BY <1>1 DEF Alone, StepFor
<1>3. ckpt'[j] = ckpt[j] /\ (j \in troubled') = (j \in troubled)
  BY DEF Alone
<1>4. restarts' = restarts
  BY DEF Alone
<1>. QED BY <1>2, <1>3, <1>4 DEF GraphOf!vars

\* The two facts are inductive.
LEMMA WaypointsInductive == Spec => []Waypoints
<1>1. Init => Waypoints
  BY WorkerRuns DEF Init, Waypoints
<1>2. IInv /\ IInv' /\ Waypoints /\ [Next]_vars => Waypoints'
  <2>. SUFFICES ASSUME IInv, IInv', Waypoints, [Next]_vars PROVE Waypoints'
    OBVIOUS
  <2>. USE WorkerRuns
  <2>a. TypeOK /\ TypeOK' /\ RunsHoldJobs /\ RunsHoldJobs'
    BY DEF IInv
  <2>1. ASSUME NEW e \in Runs, SaveNode(e) \/ ThreadStep(e) PROVE Waypoints'
    <3>1. Alone(e) /\ pc[e] \in {"working", "gate", "writing", "written"} /\ job[e] \in Jobs
      BY <2>1, RunsAreAlone
    <3>2. ASSUME NEW place \in {"running", "gate", "ended"}, Saves(e, place)
          PROVE  ckpt'[job[e]].at # "none"
      BY <2>a, <3>1, <3>2 DEF Saves, TypeOK
    <3>3. ckpt'[job[e]].at # "none" \/ ckpt' = ckpt
      <4>1. CASE Parse(e)
        BY <2>a, <3>1, <4>1 DEF Parse, TypeOK
      <4>2. CASE ~Parse(e)
        BY <2>1, <3>2, <4>2 DEF SaveNode, ThreadStep, ReachGate, Suspend, Abort, Raise, ReportOpen,
           ReportWrite, ReportDone, disk
      <4>. QED BY <4>1, <4>2
    <3>4. \A r \in Resumers : pc'[r] # "idle" => ckpt'[job'[r]].at # "none"
      <4>. SUFFICES ASSUME NEW r \in Resumers, pc'[r] # "idle" PROVE ckpt'[job'[r]].at # "none"
        OBVIOUS
      <4>1. job'[r] = job[r] /\ job[r] \in Jobs /\ pc[r] # "idle"
        <5>1. CASE r = e
          <6>1. job'[e] # NoJob
            BY <2>a, <5>1, JobsAssumption DEF RunsHoldJobs
          <6>. QED BY <3>1, <5>1, <6>1 DEF Alone
        <5>2. CASE r # e
          BY <2>a, <3>1, <5>2 DEF Alone, RunsHoldJobs
        <5>. QED BY <5>1, <5>2
      <4>2. CASE job[r] = job[e]
        BY <3>3, <4>1, <4>2 DEF Waypoints
      <4>3. CASE job[r] # job[e]
        BY <3>1, <4>1, <4>3 DEF Alone, Waypoints
      <4>. QED BY <4>2, <4>3
    <3>5. atGate'[e] => e # Worker /\ pc'[e] \in {"gate", "writing", "written"}
      <4>1. CASE Release(e)
        BY <2>a, <4>1 DEF Release, TypeOK
      <4>2. CASE UNCHANGED atGate /\ e = Worker
        BY <4>2 DEF Waypoints
      <4>3. CASE \E how \in {"raised", "returned"} : Ends(e, how)
        BY <4>1, <4>2, <4>3 DEF Ends
      <4>4. CASE UNCHANGED atGate /\ \E x \in {"gate", "writing", "written"} : Goto(e, x)
        BY <2>a, <4>4 DEF Goto, TypeOK, Waypoints
      <4>5. CASE UNCHANGED <<pc, atGate>>
        BY <4>5 DEF Waypoints
      <4>6. CASE SaveNode(e) \/ Parse(e)
        BY <4>3, <4>5, <4>6 DEF SaveNode, runVars, Parse
      <4>7. CASE Suspend(e) \/ Abort(e) \/ Raise(e) \/ ReportDone(e)
        BY <4>3, <4>7 DEF Suspend, Abort, Raise, ReportDone
      <4>8. CASE ReachGate(e) \/ ReportOpen(e) \/ ReportWrite(e)
        BY <4>4, <4>8 DEF ReachGate, ReportOpen, ReportWrite
      <4>. QED BY <2>1, <4>6, <4>7, <4>8 DEF ThreadStep
    <3>. QED BY <3>1, <3>4, <3>5 DEF Alone, Waypoints
  <2>2. CASE Begin
    <3>1. /\ \A r \in Resumers : UNCHANGED <<pc[r], job[r]>>
          /\ \A r \in Resumers : pc[r] # "idle" => job[r] \in Jobs
          /\ atGate' = atGate /\ ~atGate[Worker]
          /\ \A e \in Runs \ {Worker} : pc'[e] = pc[e]
      BY <2>2, <2>a DEF Begin, Goto, TypeOK, Waypoints, RunsHoldJobs
    <3>2. ASSUME NEW c, c.at # "none", ckpt' = [ckpt EXCEPT ![job[Worker]] = c], NEW j \in Jobs,
                 ckpt[j].at # "none"
          PROVE  ckpt'[j].at # "none"
      BY <2>a, <3>2 DEF TypeOK
    <3>3. \A j \in Jobs : ckpt[j].at # "none" => ckpt'[j].at # "none"
      BY <2>2, <3>2 DEF Begin
    <3>. QED BY <3>1, <3>3 DEF Waypoints
  <2>13. ASSUME NEW e \in Runs, BeginFails(e) PROVE Waypoints'
    <3>1. CASE Release(e)
      BY <2>13, <2>a, <3>1 DEF BeginFails, Release, Goto, Waypoints, TypeOK, disk
    <3>2. CASE e = Worker /\ Goto(e, "raised") /\ UNCHANGED <<job, atGate>>
      BY <2>13, <2>a, <3>2 DEF BeginFails, Goto, Waypoints, TypeOK, disk
    <3>. QED BY <2>13, <3>1, <3>2 DEF BeginFails, Ends
  <2>3. ASSUME NEW r \in Resumers, ResumeRequest(r) PROVE Waypoints'
    BY <2>3, <2>a DEF ResumeRequest, Goto, Waypoints, TypeOK, disk
  <2>4. ASSUME NEW r \in Resumers, BeginResumed(r) PROVE Waypoints'
    <3>1. CASE Release(r)
      BY <2>4, <2>a, <3>1 DEF BeginResumed, Release, Goto, Waypoints, TypeOK, disk
    <3>2. CASE ~Release(r)
      BY <2>4, <2>a, <3>2 DEF BeginResumed, Goto, Waypoints, TypeOK, disk
    <3>. QED BY <3>1, <3>2
  <2>5. CASE TakeJob
    BY <2>5, <2>a DEF TakeJob, Goto, Waypoints, TypeOK, disk
  <2>6. ASSUME Release(Worker), UNCHANGED ckpt PROVE Waypoints'
    BY <2>6, <2>a DEF Release, Goto, Waypoints, TypeOK
  <2>7. CASE Completed \/ FailWrite
    BY <2>6, <2>7 DEF Completed, FailWrite, TaskDone, disk
  <2>8. CASE FailOpen
    <3>1. CASE Release(Worker)
      BY <2>6, <2>8, <3>1 DEF FailOpen
    <3>2. CASE Goto(Worker, "failing") /\ UNCHANGED <<job, atGate>>
      BY <2>8, <2>a, <3>2 DEF FailOpen, Goto, Waypoints, TypeOK
    <3>. QED BY <2>8, <3>1, <3>2 DEF FailOpen, TaskDone
  <2>9. CASE Crash
    BY <2>9 DEF Crash, Waypoints
  <2>10. CASE UNCHANGED <<pc, job, atGate, ckpt>>
    BY <2>10 DEF Waypoints
  <2>11. CASE IngestPut \/ IngestFail \/ \E j \in Jobs : IngestOpen(j)
    BY <2>10, <2>11 DEF IngestPut, IngestFail, IngestOpen, disk, runVars
  <2>12. CASE UNCHANGED vars
    BY <2>10, <2>12 DEF vars, disk, runVars
  <2>. QED BY <2>1, <2>2, <2>3, <2>4, <2>5, <2>7, <2>8, <2>9, <2>11, <2>12, <2>13
       DEF Next, WorkerStep, ResumerStep
<1>. QED BY <1>1, <1>2, Inductive, PTL DEF Spec

\* What a run does for its own job is a step of the graph.
LEMMA OwnJob ==
  ASSUME IInv, IInv', Waypoints, Waypoints', NEW e \in Runs, SaveNode(e) \/ ThreadStep(e),
         NEW j \in Jobs, job[e] = j
  PROVE  GraphOf(j)!Run(e) \/ UNCHANGED GraphOf(j)!vars
<1>. DEFINE Step == [f \in Runs |-> StepFor(j, f)]
            Resumed == [f \in Runs |-> job[f] = j /\ atGate[f]]
<1>a. TypeOK /\ TypeOK' /\ RunsHoldJobs /\ RunsHoldJobs'
  BY DEF IInv
<1>b. Alone(e) /\ pc[e] \in {"working", "gate", "writing", "written"}
  BY RunsAreAlone
<1>c. /\ Step[e] = IF pc[e] = "working" THEN "working" ELSE "gate"
      /\ Resumed[e] = atGate[e]
  BY <1>a, <1>b DEF StepFor, TypeOK
<1>d. ASSUME NEW s, NEW b, StepFor(j, e)' = s, (job'[e] = j /\ atGate'[e]) = b
      PROVE  Step' = [Step EXCEPT ![e] = s] /\ Resumed' = [Resumed EXCEPT ![e] = b]
  <2>1. \A f \in Runs \ {e} : StepFor(j, f)' = StepFor(j, f)
    BY <1>b DEF Alone, StepFor
  <2>2. \A f \in Runs \ {e} : (job'[f] = j /\ atGate'[f]) = (job[f] = j /\ atGate[f])
    BY <1>b DEF Alone
  <2>3. Step' = [Step EXCEPT ![e] = s]
    BY <1>d, <2>1
  <2>4. Resumed' = [Resumed EXCEPT ![e] = b]
    BY <1>d, <2>2
  <2>. QED BY <2>3, <2>4
<1>e. ASSUME NEW how \in {"raised", "returned"}, Ends(e, how)
      PROVE  Step' = [Step EXCEPT ![e] = "idle"] /\ Resumed' = [Resumed EXCEPT ![e] = FALSE]
  <2>1. pc'[e] \in {"idle", "raised", "returned"}
    BY <1>a, <1>e DEF Ends, Release, Goto, TypeOK
  <2>2. StepFor(j, e)' = "idle" /\ ~atGate'[e]
    BY <2>1 DEF StepFor, Waypoints
  <2>. QED BY <1>d, <2>2
<1>f. ASSUME NEW place, Saves(e, place) PROVE ckpt'[j].at = place
  BY <1>a, <1>b, <1>f DEF Saves, TypeOK
<1>g. ASSUME UNCHANGED <<job, atGate>>, NEW s, StepFor(j, e)' = s
      PROVE  Step' = [Step EXCEPT ![e] = s] /\ UNCHANGED Resumed
  <2>1. Resumed' = Resumed
    BY <1>g
  <2>. QED BY <1>d, <1>g, <2>1
<1>j. restarts' = restarts
  BY <1>b DEF Alone
<1>h. ASSUME UNCHANGED history \/ UNCHANGED troubled PROVE (j \in troubled') = (j \in troubled)
  BY <1>h DEF history
<1>i. ASSUME troubled' = troubled \cup {job[e]} PROVE (j \in troubled') = TRUE
  BY <1>i
<1>. HIDE DEF Step, Resumed
<1>1. CASE SaveNode(e)
  <2>1. UNCHANGED <<Step, Resumed>>
    BY <1>1, <1>b DEF SaveNode, runVars, Step, Resumed, StepFor, Alone
  <2>2. ckpt'[j].at = IF Step[e] = "gate" THEN "gate" ELSE "running"
    BY <1>1, <1>b, <1>c, <1>f DEF SaveNode
  <2>f. (j \in troubled') = (j \in troubled)
    BY <1>1, <1>h DEF SaveNode
  <2>3. GraphOf(j)!SaveNode(e)
    BY <1>j, <1>c, <2>f, <2>1, <2>2 DEF GraphOf!SaveNode, Step, Resumed
  <2>. QED BY <2>3 DEF GraphOf!Run
<1>2. CASE ReachGate(e)
  <2>1. /\ ckpt'[j].at = "gate" /\ pc[e] = "working"
        /\ pc'[e] = "gate" /\ UNCHANGED <<job, atGate>>
    BY <1>2, <1>a, <1>f DEF ReachGate, Goto, TypeOK
  <2>2. StepFor(j, e)' = "gate"
    BY <2>1 DEF StepFor
  <2>3. Step' = [Step EXCEPT ![e] = "gate"] /\ UNCHANGED Resumed
    BY <1>g, <2>1, <2>2
  <2>f. (j \in troubled') = (j \in troubled)
    BY <1>2, <1>h DEF ReachGate
  <2>4. GraphOf(j)!ReachGate(e)
    BY <1>j, <1>c, <2>f, <2>1, <2>3 DEF GraphOf!ReachGate, Step, Resumed
  <2>. QED BY <2>4 DEF GraphOf!Run
<1>3. CASE Suspend(e)
  <2>1. pc[e] = "gate" /\ ~atGate[e] /\ Ends(e, "raised") /\ UNCHANGED ckpt
    BY <1>3 DEF Suspend, disk
  <2>f. (j \in troubled') = (j \in troubled)
    BY <1>3, <1>h DEF Suspend
  <2>2. GraphOf(j)!Suspend(e)
    BY <1>j, <1>c, <2>f, <1>e, <2>1 DEF GraphOf!Suspend, GraphOf!Ends, Step, Resumed
  <2>. QED BY <2>2 DEF GraphOf!Run
<1>4. CASE Abort(e)
  <2>1. pc[e] = "working" /\ Ends(e, "raised") /\ ckpt'[j].at = "ended"
    BY <1>4, <1>f DEF Abort
  <2>f. (j \in troubled') = TRUE
    BY <1>4, <1>i DEF Abort
  <2>2. GraphOf(j)!Abort(e)
    BY <1>j, <1>c, <2>f, <1>e, <2>1 DEF GraphOf!Abort, GraphOf!Ends, Step, Resumed
  <2>. QED BY <2>2 DEF GraphOf!Run
<1>5. CASE Raise(e)
  <2>1. Ends(e, "raised") /\ UNCHANGED ckpt
    BY <1>5 DEF Raise, disk
  <2>f. (j \in troubled') = TRUE
    BY <1>5, <1>i DEF Raise
  <2>2. GraphOf(j)!Raise(e)
    BY <1>j, <1>c, <2>f, <1>e, <2>1 DEF GraphOf!Raise, GraphOf!Ends, Step, Resumed
  <2>. QED BY <2>2 DEF GraphOf!Run
<1>6. CASE ReportOpen(e)
  <2>1. pc[e] = "gate" /\ pc'[e] = "writing" /\ UNCHANGED <<job, atGate, ckpt>>
    BY <1>6, <1>a DEF ReportOpen, Goto, TypeOK
  <2>2. StepFor(j, e)' = StepFor(j, e)
    BY <2>1 DEF StepFor
  <2>3. \A f \in Runs : StepFor(j, f)' = StepFor(j, f)
    BY <2>1, <2>2, <1>b DEF StepFor, Alone
  <2>4. UNCHANGED <<Step, Resumed, ckpt>>
    BY <2>1, <2>3 DEF Step, Resumed
  <2>f. (j \in troubled') = (j \in troubled)
    BY <1>6, <1>h DEF ReportOpen
  <2>. QED BY <1>j, <2>4, <2>f DEF GraphOf!vars, Step, Resumed
<1>7. CASE ReportWrite(e)
  <2>1. pc[e] = "writing" /\ pc'[e] = "written" /\ UNCHANGED <<job, atGate, ckpt>>
    BY <1>7, <1>a DEF ReportWrite, Goto, TypeOK
  <2>2. StepFor(j, e)' = StepFor(j, e)
    BY <2>1 DEF StepFor
  <2>3. \A f \in Runs : StepFor(j, f)' = StepFor(j, f)
    BY <2>1, <2>2, <1>b DEF StepFor, Alone
  <2>4. UNCHANGED <<Step, Resumed, ckpt>>
    BY <2>1, <2>3 DEF Step, Resumed
  <2>f. (j \in troubled') = (j \in troubled)
    BY <1>7, <1>h DEF ReportWrite
  <2>. QED BY <1>j, <2>4, <2>f DEF GraphOf!vars, Step, Resumed
<1>8. CASE ReportDone(e)
  <2>1. pc[e] = "written" /\ Ends(e, "returned") /\ ckpt'[j].at = "ended"
    BY <1>8, <1>f DEF ReportDone
  <2>f. (j \in troubled') = (j \in troubled)
    BY <1>8, <1>h DEF ReportDone
  <2>2. GraphOf(j)!Report(e)
    BY <1>j, <1>c, <2>f, <1>e, <2>1 DEF GraphOf!Report, GraphOf!Ends, Step, Resumed
  <2>. QED BY <2>2 DEF GraphOf!Run
<1>9. CASE Parse(e) /\ incoming[j] # Torn
  <2>1. /\ pc[e] = "working" /\ UNCHANGED <<pc, job, atGate>> /\ (j \in troubled') = (j \in troubled)
        /\ ckpt'[j].at = "running"
    BY <1>9, <1>a, <1>b DEF Parse, TypeOK
  <2>2. UNCHANGED <<Step, Resumed>>
    BY <2>1 DEF Step, Resumed, StepFor
  <2>3. GraphOf(j)!SaveNode(e)
    BY <1>j, <1>c, <2>1, <2>2 DEF GraphOf!SaveNode, Step, Resumed
  <2>. QED BY <2>3 DEF GraphOf!Run
<1>10. CASE Parse(e) /\ incoming[j] = Torn
  <2>1. /\ pc[e] = "working" /\ Ends(e, "raised") /\ ckpt'[j].at = "ended"
        /\ (j \in troubled') = TRUE
    BY <1>10, <1>a, <1>b DEF Parse, TypeOK
  <2>2. GraphOf(j)!Abort(e)
    BY <1>j, <1>c, <1>e, <2>1 DEF GraphOf!Abort, GraphOf!Ends, Step, Resumed
  <2>. QED BY <2>2 DEF GraphOf!Run
<1>. QED BY <1>1, <1>2, <1>3, <1>4, <1>5, <1>6, <1>7, <1>8, <1>9, <1>10 DEF ThreadStep

\* The runs of every job do what GraphRuns has, and nothing else the gateway does shows in
\* them, for any jobs, alerts, resume requests and restarts.
THEOREM GatewayFollowsGraph == Spec => RunsFollowGraph
<1>1. IInv /\ IInv' /\ Waypoints /\ Waypoints' /\ [Next]_vars =>
        [\A j \in Jobs : GraphOf(j)!Next \/ UNCHANGED GraphOf(j)!vars]_vars
  <2>. SUFFICES ASSUME IInv, IInv', Waypoints, Waypoints', [Next]_vars, NEW j \in Jobs
                PROVE  GraphOf(j)!Next \/ UNCHANGED GraphOf(j)!vars
    OBVIOUS
  <2>. DEFINE Step == [f \in Runs |-> StepFor(j, f)]
              Resumed == [f \in Runs |-> job[f] = j /\ atGate[f]]
  <2>. USE WorkerRuns
  <2>a. TypeOK /\ TypeOK' /\ RunsHoldJobs /\ RunsHoldJobs'
    BY DEF IInv
  <2>r. GraphOf(j)!Runs = Runs
    BY DEF GraphOf!Runs, Runs
  <2>u. ASSUME \A f \in Runs : /\ StepFor(j, f)' = StepFor(j, f)
                               /\ (job'[f] = j /\ atGate'[f]) = (job[f] = j /\ atGate[f]),
               ckpt'[j].at = ckpt[j].at, (j \in troubled') = (j \in troubled), UNCHANGED restarts
        PROVE  UNCHANGED GraphOf(j)!vars
    BY <2>u DEF GraphOf!vars
  <2>1. ASSUME NEW e \in Runs, SaveNode(e) \/ ThreadStep(e)
        PROVE  GraphOf(j)!Next \/ UNCHANGED GraphOf(j)!vars
    <3>1. CASE job[e] = j
      BY <2>1, <2>r, <3>1, OwnJob DEF GraphOf!Next
    <3>2. CASE job[e] # j
      BY <2>1, <3>2, RunsAreAlone, OtherJobs
    <3>. QED BY <3>1, <3>2
  <2>2. CASE Begin
    <3>1. /\ pc[Worker] = "started" /\ pc'[Worker] = "working"
          /\ UNCHANGED <<job, atGate, restarts, troubled>> /\ \A f \in Runs \ {Worker} : pc'[f] = pc[f]
      BY <2>2, <2>a DEF Begin, Goto, TypeOK, history
    <3>2. CASE job[Worker] # j
      <4>1. ckpt'[j] = ckpt[j]
        BY <2>2, <2>a, <3>2 DEF Begin, TypeOK
      <4>2. \A f \in Runs : StepFor(j, f)' = StepFor(j, f)
        BY <3>1, <3>2 DEF StepFor
      <4>. QED BY <2>u, <3>1, <4>1, <4>2
    <3>3. CASE job[Worker] = j
      <4>1. ckpt'[j].at = "running" /\ Step[Worker] = "idle" /\ StepFor(j, Worker)' = "working"
        BY <2>2, <2>a, <3>1, <3>3 DEF Begin, TypeOK, StepFor
      <4>2. \A f \in Runs \ {Worker} : StepFor(j, f)' = StepFor(j, f)
        BY <3>1 DEF StepFor
      <4>3. Step' = [Step EXCEPT ![Worker] = "working"]
        BY <4>1, <4>2
      <4>5. UNCHANGED Resumed
        BY <3>1
      <4>. HIDE DEF Step, Resumed
      <4>6. GraphOf(j)!Begin
        BY <3>1, <4>1, <4>3, <4>5 DEF GraphOf!Begin, Step, Resumed
      <4>. QED BY <4>6 DEF GraphOf!Next
    <3>. QED BY <3>2, <3>3
  <2>3. ASSUME NEW r \in Resumers, ResumeRequest(r)
        PROVE  UNCHANGED GraphOf(j)!vars
    <3>1. /\ pc[r] = "idle" /\ pc'[r] = "started" /\ atGate' = atGate /\ ~atGate[r] /\ ckpt' = ckpt
          /\ UNCHANGED <<troubled, restarts>>
          /\ \A f \in Runs \ {r} : pc'[f] = pc[f] /\ job'[f] = job[f]
      BY <2>3, <2>a DEF ResumeRequest, Goto, TypeOK, Waypoints, disk
    <3>2. \A f \in Runs : StepFor(j, f)' = StepFor(j, f)
      BY <3>1 DEF StepFor
    <3>. QED BY <2>u, <3>1, <3>2
  <2>13. ASSUME NEW e \in Runs, BeginFails(e)
         PROVE  GraphOf(j)!Next \/ UNCHANGED GraphOf(j)!vars
    <3>1. /\ pc[e] = "started" /\ pc'[e] \in {"idle", "raised"} /\ ~atGate[e] /\ ~atGate'[e]
          /\ UNCHANGED <<ckpt, restarts>> /\ troubled' = troubled \cup {job[e]}
          /\ \A f \in Runs \ {e} : UNCHANGED <<pc[f], job[f], atGate[f]>>
      BY <2>13, <2>a DEF BeginFails, Ends, Release, Goto, TypeOK, Waypoints, disk
    <3>2. \A f \in Runs : /\ StepFor(j, f)' = StepFor(j, f)
                           /\ (job'[f] = j /\ atGate'[f]) = (job[f] = j /\ atGate[f])
      BY <3>1 DEF StepFor
    <3>3. CASE job[e] # j
      BY <2>u, <3>1, <3>2, <3>3
    <3>4. CASE job[e] = j
      <4>1. (j \in troubled') = TRUE /\ Step[e] = "idle" /\ UNCHANGED <<Step, Resumed>>
        BY <3>1, <3>2, <3>4 DEF StepFor
      <4>. HIDE DEF Step, Resumed
      <4>2. GraphOf(j)!BeginFails(e)
        BY <3>1, <4>1 DEF GraphOf!BeginFails, Step, Resumed
      <4>. QED BY <2>r, <4>2 DEF GraphOf!Next
    <3>. QED BY <3>3, <3>4
  <2>4. ASSUME NEW e \in Runs, Release(e), pc[e] \notin {"working", "gate", "writing", "written"},
               UNCHANGED <<ckpt, troubled, restarts>>
        PROVE  UNCHANGED GraphOf(j)!vars
    <3>1. /\ pc'[e] = "idle" /\ ~atGate[e] /\ ~atGate'[e]
          /\ \A f \in Runs \ {e} : UNCHANGED <<pc[f], job[f], atGate[f]>>
      BY <2>4, <2>a DEF Release, Goto, TypeOK, Waypoints
    <3>2. \A f \in Runs : StepFor(j, f)' = StepFor(j, f)
      BY <2>4, <3>1 DEF StepFor
    <3>. QED BY <2>4, <2>u, <3>1, <3>2
  <2>5. ASSUME NEW r \in Resumers, BeginResumed(r)
        PROVE  GraphOf(j)!Next \/ UNCHANGED GraphOf(j)!vars
    <3>0. pc[r] = "started" /\ UNCHANGED <<ckpt, troubled, restarts>> /\ job[r] \in Jobs
      BY <2>5, <2>a DEF BeginResumed, disk, history, RunsHoldJobs
    <3>1. CASE Release(r)
      BY <2>4, <3>0, <3>1
    <3>2. CASE ~Release(r)
      <4>1. /\ pc'[r] = (IF ckpt[job[r]].at = "gate" THEN "gate" ELSE "working")
            /\ atGate'[r] = (ckpt[job[r]].at = "gate") /\ job' = job
            /\ ckpt[job[r]].at # "ended" /\ ckpt[job[r]].at # "none"
            /\ \A f \in Runs \ {r} : pc'[f] = pc[f] /\ atGate'[f] = atGate[f]
        BY <2>5, <2>a, <3>0, <3>2 DEF BeginResumed, Goto, TypeOK, Waypoints
      <4>2. \A f \in Runs \ {r} : /\ StepFor(j, f)' = StepFor(j, f)
                                   /\ (job'[f] = j /\ atGate'[f]) = (job[f] = j /\ atGate[f])
        BY <4>1 DEF StepFor
      <4>3. CASE job[r] # j
        <5>1. StepFor(j, r)' = StepFor(j, r) /\ (job'[r] = j /\ atGate'[r]) = (job[r] = j /\ atGate[r])
          BY <4>1, <4>3 DEF StepFor
        <5>. QED BY <2>u, <3>0, <4>2, <5>1
      <4>4. CASE job[r] = j
        <5>1. /\ StepFor(j, r)' = IF ckpt[j].at = "gate" THEN "gate" ELSE "working"
              /\ (job'[r] = j /\ atGate'[r]) = (ckpt[j].at = "gate")
              /\ Step[r] = "idle"
          BY <3>0, <4>1, <4>4 DEF StepFor
        <5>2. Step' = [Step EXCEPT ![r] = IF ckpt[j].at = "gate" THEN "gate" ELSE "working"]
          BY <4>2, <5>1
        <5>3. Resumed' = [Resumed EXCEPT ![r] = (ckpt[j].at = "gate")]
          BY <4>2, <5>1
        <5>4. ckpt[j].at \in {"running", "gate"}
          BY <2>a, <4>1, <4>4 DEF TypeOK, Checkpoints
        <5>. HIDE DEF Step, Resumed
        <5>5. GraphOf(j)!BeginResumed(r)
          BY <3>0, <5>1, <5>2, <5>3, <5>4 DEF GraphOf!BeginResumed, Step, Resumed
        <5>. QED BY <5>5 DEF GraphOf!Next
      <4>. QED BY <4>3, <4>4
    <3>. QED BY <3>1, <3>2
  <2>6. CASE TakeJob
    <3>1. /\ pc[Worker] = "idle" /\ pc'[Worker] = "started" /\ atGate' = atGate /\ ~atGate[Worker]
          /\ UNCHANGED <<ckpt, troubled, restarts>> /\ \A f \in Runs \ {Worker} : pc'[f] = pc[f] /\ job'[f] = job[f]
      BY <2>6, <2>a DEF TakeJob, Goto, TypeOK, Waypoints, disk, history
    <3>2. \A f \in Runs : StepFor(j, f)' = StepFor(j, f)
      BY <3>1 DEF StepFor
    <3>. QED BY <2>u, <3>1, <3>2
  <2>7. CASE Completed \/ FailWrite
    BY <2>4, <2>7 DEF Completed, FailWrite, TaskDone, disk, history
  <2>8. CASE FailOpen
    <3>1. CASE Release(Worker)
      BY <2>4, <2>8, <3>1 DEF FailOpen
    <3>2. CASE Goto(Worker, "failing") /\ UNCHANGED <<job, atGate>>
      <4>1. /\ pc[Worker] = "raised" /\ pc'[Worker] = "failing" /\ UNCHANGED <<job, atGate, ckpt, troubled, restarts>>
            /\ \A f \in Runs \ {Worker} : pc'[f] = pc[f]
        BY <2>8, <2>a, <3>2 DEF FailOpen, Goto, TypeOK
      <4>2. \A f \in Runs : StepFor(j, f)' = StepFor(j, f)
        BY <4>1 DEF StepFor
      <4>. QED BY <2>u, <4>1, <4>2
    <3>. QED BY <2>8, <3>1, <3>2 DEF FailOpen, TaskDone
  <2>9. CASE Crash
    <3>1. /\ UNCHANGED <<ckpt, troubled>> /\ restarts' = restarts + 1
          /\ \A f \in Runs : StepFor(j, f)' = "idle" /\ ~atGate'[f]
      BY <2>9 DEF Crash, StepFor, disk
    <3>2. GraphOf(j)!Crash
      BY <2>r, <3>1 DEF GraphOf!Crash
    <3>. QED BY <3>2 DEF GraphOf!Next
  <2>10. CASE UNCHANGED <<pc, job, atGate, ckpt, troubled, restarts>>
    <3>1. \A f \in Runs : StepFor(j, f)' = StepFor(j, f)
      BY <2>10 DEF StepFor
    <3>. QED BY <2>10, <2>u, <3>1
  <2>11. CASE IngestPut \/ IngestFail \/ \E i \in Jobs : IngestOpen(i)
    BY <2>10, <2>11 DEF IngestPut, IngestFail, IngestOpen, disk, runVars, history
  <2>12. CASE UNCHANGED vars
    BY <2>10, <2>12 DEF vars, disk, runVars, history
  <2>. QED BY <2>1, <2>2, <2>3, <2>5, <2>6, <2>7, <2>8, <2>9, <2>11, <2>12, <2>13
       DEF Next, WorkerStep, ResumerStep
<1>2. Init => \A j \in Jobs : GraphOf(j)!Init
  <2>. SUFFICES ASSUME Init, NEW j \in Jobs PROVE GraphOf(j)!Init
    OBVIOUS
  <2>1. /\ ckpt[j].at = "none" /\ restarts = 0 /\ (j \in troubled) = FALSE
        /\ \A f \in Runs : job[f] = NoJob /\ pc[f] = "idle" /\ atGate[f] = FALSE
    BY DEF Init
  <2>2. \A f \in Runs : StepFor(j, f) = "idle" /\ (job[f] = j /\ atGate[f]) = FALSE
    BY <2>1 DEF StepFor
  <2>. QED BY <2>1, <2>2 DEF GraphOf!Init, GraphOf!Runs, Runs
<1>. QED BY <1>1, <1>2, Inductive, WaypointsInductive, PTL DEF Spec, RunsFollowGraph
=============================================================================
