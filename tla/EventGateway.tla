---------------------------- MODULE EventGateway ----------------------------
(***************************************************************************)
(* The event gateway of api/: alerts are written to data/incoming, queued, *)
(* run by one worker and answered through a result sidecar in output/.     *)
(*                                                                         *)
(* Requests and the worker coroutine share one event loop: nothing else of *)
(* theirs runs until the one that has the loop awaits.  The pipeline runs  *)
(* in threads, for the worker and for resume requests, and writes the      *)
(* sidecar from there, at any time.  write_text() truncates the file and   *)
(* then writes it: between the two it is Torn.                             *)
(*                                                                         *)
(* Pipeline models one incident's graph in full.  Here a run of it does    *)
(* what GraphRuns says: it is working until it reaches the approval gate,  *)
(* and at the gate until it suspends or reports, unless it aborts or       *)
(* raises.  Checkpoints are durable.                                       *)
(***************************************************************************)
EXTENDS Integers, Sequences, SequencesExt

CONSTANTS
    Jobs,           \* job ids (X-Trace-Id headers); also the file stems
    NoJob,
    Worker,         \* the one worker task
    Resumers,       \* requests to the resume endpoint
    MaxSubmits,     \* bound: alerts posted
    MaxResumes,     \* bound: resume requests
    MaxRestarts     \* bound: crashes followed by a restart

ASSUME JobsAssumption == NoJob \notin Jobs
ASSUME RunsAssumption == Worker \notin Resumers
ASSUME GatewayBounds  == MaxSubmits \in Nat /\ MaxResumes \in Nat /\ MaxRestarts \in Nat

Runs     == {Worker} \cup Resumers
Torn     == -1              \* what is in a file that is truncated or garbled
Payloads == 1..MaxSubmits   \* payloads, in the order they were posted; 0: no file

VARIABLES
    \* on disk and in PostgreSQL
    incoming,       \* data/incoming/{job_id}.json: the payload in it
    sidecar,        \* output/{job_id}-result.json: its status and payload
    ckpt,           \* the checkpoint of thread job_id, and the payload it is about
    \* in the process
    queue,          \* asyncio.Queue of jobs
    unfinished,     \* its count of unfinished tasks
    handling,       \* the alert whose handler has the event loop
    pc,             \* what the worker and each resume request do
    job,            \* the job they do it for
    ver,            \* the payload their pipeline run is about; 0: parse_log has not read it
    atGate,         \* the run continues from the approval gate
    overlapped,     \* somebody else wrote to the sidecar since the run truncated it
    \* history
    posts,          \* alerts posted
    resumes, restarts,
    diskError,      \* some file could not be written
    troubled        \* jobs with a run that really failed or aborted

disk    == <<incoming, sidecar, ckpt>>
runVars == <<pc, job, ver, atGate, overlapped>>
history == <<posts, resumes, restarts, diskError, troubled>>
vars    == <<disk, queue, unfinished, handling, runVars, history>>

Statuses    == {"none", "torn", "completed", "failed"}
Checkpoints == {"none", "running", "gate", "ended"}

TypeOK ==
    /\ incoming \in [Jobs -> Payloads \cup {0, Torn}]
    /\ sidecar \in [Jobs -> [status : Statuses, payload : Payloads \cup {0}]]
    /\ ckpt \in [Jobs -> [at : Checkpoints, payload : Payloads \cup {0}]]
    /\ queue \in Seq(Jobs) /\ unfinished \in Nat
    /\ handling \in Jobs \cup {NoJob}
    /\ pc \in [Runs -> {"idle", "started", "working", "gate", "writing", "written", "returned",
                       "raised", "failing"}]
    /\ job \in [Runs -> Jobs \cup {NoJob}]
    /\ ver \in [Runs -> Payloads \cup {0}]
    /\ atGate \in [Runs -> BOOLEAN] /\ overlapped \in [Runs -> BOOLEAN]
    /\ posts \in 0..MaxSubmits /\ resumes \in 0..MaxResumes /\ restarts \in 0..MaxRestarts
    /\ diskError \in BOOLEAN /\ troubled \in SUBSET Jobs

Init ==
    /\ incoming = [j \in Jobs |-> 0]
    /\ sidecar = [j \in Jobs |-> [status |-> "none", payload |-> 0]]
    /\ ckpt = [j \in Jobs |-> [at |-> "none", payload |-> 0]]
    /\ queue = <<>> /\ unfinished = 0 /\ handling = NoJob
    /\ pc = [e \in Runs |-> "idle"]
    /\ job = [e \in Runs |-> NoJob]
    /\ ver = [e \in Runs |-> 0]
    /\ atGate = [e \in Runs |-> FALSE] /\ overlapped = [e \in Runs |-> FALSE]
    /\ posts = 0 /\ resumes = 0 /\ restarts = 0
    /\ diskError = FALSE /\ troubled = {}

\* Mutated form of LoopFree: the alert handler gives the loop away while it writes.
LoopFreeAwaiting == pc[Worker] # "failing"

\* Nobody has the event loop: the alert handler and write_failed_result() keep
\* it while they write their file.
LoopFree == handling = NoJob /\ pc[Worker] # "failing"

Goto(e, step) == pc' = [pc EXCEPT ![e] = step]

\* A run lets go of its job.
Release(e) ==
    /\ Goto(e, "idle")
    /\ job' = [job EXCEPT ![e] = NoJob]
    /\ ver' = [ver EXCEPT ![e] = 0]
    /\ atGate' = [atGate EXCEPT ![e] = FALSE]

\* e no longer has a sidecar open.
Closes(e) == overlapped' = [overlapped EXCEPT ![e] = FALSE]

\* e writes to the sidecar and closes it, and others have the same file open.  Either
\* text can be the longer one: a "failed" sidecar holds the text of the exception.
Overlaps(e) ==
    overlapped' = [f \in Runs |->
        f # e /\ (overlapped[f] \/ (job[f] = job[e] /\ pc[f] \in {"writing", "failing"}))]

-----------------------------------------------------------------------------
(* POST /api/v1/alerts.                                                    *)

\* The handler opens the incoming file, overwriting what was there.
IngestOpen(j) ==
    /\ LoopFree
    /\ posts < MaxSubmits
    /\ posts' = posts + 1
    /\ incoming' = [incoming EXCEPT ![j] = Torn]
    /\ handling' = j
    /\ UNCHANGED <<sidecar, ckpt, queue, unfinished, runVars, resumes, restarts, diskError,
                   troubled>>

\* Mutated form of IngestPut: a job id that is queued or in the worker is not
\* queued again.
IngestPutOnce ==
    /\ handling # NoJob
    /\ incoming' = [incoming EXCEPT ![handling] = posts]
    /\ IF Contains(queue, handling) \/ job[Worker] = handling
       THEN UNCHANGED <<queue, unfinished>>
       ELSE queue' = Append(queue, handling) /\ unfinished' = unfinished + 1
    /\ handling' = NoJob
    /\ UNCHANGED <<sidecar, ckpt, runVars, history>>

\* It writes the payload, queues the job and answers 202.  The queue is
\* unbounded: put() does not give the loop away.
IngestPut ==
    /\ handling # NoJob
    /\ incoming' = [incoming EXCEPT ![handling] = posts]
    /\ queue' = Append(queue, handling)
    /\ unfinished' = unfinished + 1
    /\ handling' = NoJob
    /\ UNCHANGED <<sidecar, ckpt, runVars, history>>

\* Or the write fails and the client gets a 500: nothing is queued, and the file
\* stays truncated.  (When the file cannot even be opened nothing has happened.)
IngestFail ==
    /\ handling # NoJob
    /\ handling' = NoJob
    /\ diskError' = TRUE
    /\ UNCHANGED <<disk, queue, unfinished, runVars, posts, resumes, restarts, troubled>>

-----------------------------------------------------------------------------
(* Runs of the pipeline, in threads.                                       *)

\* queue.get() returned, and the pipeline is handed to a thread.
TakeJob ==
    /\ LoopFree
    /\ pc[Worker] = "idle"
    /\ queue # <<>>
    /\ job' = [job EXCEPT ![Worker] = Head(queue)]
    /\ queue' = Tail(queue)
    /\ Goto(Worker, "started")
    /\ UNCHANGED <<disk, unfinished, handling, ver, atGate, overlapped, history>>

\* run_pipeline() starts the graph over, and the first checkpoint is saved before any
\* node runs.
Begin ==
    /\ pc[Worker] = "started"
    /\ ckpt' = [ckpt EXCEPT ![job[Worker]] = [at |-> "running", payload |-> 0]]
    /\ ver' = [ver EXCEPT ![Worker] = 0]
    /\ Goto(Worker, "working")
    /\ UNCHANGED <<incoming, sidecar, queue, unfinished, handling, job, atGate, overlapped, history>>

\* Mutated form of Parse: parse_log takes what is in the file for a payload.
ParseAnything(e) ==
    /\ pc[e] = "working" /\ ver[e] = 0
    /\ ver' = [ver EXCEPT ![e] = incoming[job[e]]]
    /\ ckpt' = [ckpt EXCEPT ![job[e]] = [at |-> "running", payload |-> 0]]
    /\ UNCHANGED <<incoming, sidecar, queue, unfinished, handling, pc, job, atGate, overlapped,
                   history>>

\* POST /incidents/{id}/resume: a checkpoint of any kind will do.
ResumeRequest(r) ==
    /\ LoopFree
    /\ pc[r] = "idle"
    /\ resumes < MaxResumes
    /\ resumes' = resumes + 1
    /\ \E j \in Jobs : ckpt[j].at # "none" /\ job' = [job EXCEPT ![r] = j]
    /\ Goto(r, "started")
    /\ UNCHANGED <<disk, queue, unfinished, handling, ver, atGate, overlapped,
                   posts, restarts, diskError, troubled>>

\* Mutated form of BeginResumed: the checkpoint is looked up when the request arrives, and
\* the graph that has ended since is run again.
BeginResumedUnchecked(r) ==
    LET c == ckpt[job[r]]
    IN  /\ pc[r] = "started"
        /\ ver' = [ver EXCEPT ![r] = c.payload]
        /\ atGate' = [atGate EXCEPT ![r] = (c.at \in {"gate", "ended"})]
        /\ Goto(r, IF c.at = "running" THEN "working" ELSE "gate")
        /\ UNCHANGED <<job, overlapped, disk, queue, unfinished, handling, history>>

\* The resumed graph continues from the checkpoint there is now, from parse_log if it is
\* the first one; when that is the end there is nothing to do.
BeginResumed(r) ==
    LET c == ckpt[job[r]]
    IN  /\ pc[r] = "started"
        /\ \/ c.at = "ended" /\ Release(r) /\ Closes(r)
           \/ /\ c.at # "ended"
              /\ ver' = [ver EXCEPT ![r] = c.payload]
              /\ atGate' = [atGate EXCEPT ![r] = (c.at = "gate")]
              /\ Goto(r, IF c.at = "gate" THEN "gate" ELSE "working")
              /\ UNCHANGED <<job, overlapped>>
        /\ UNCHANGED <<disk, queue, unfinished, handling, history>>

\* A resume request that ends, answered or not, is gone; the worker's run comes
\* back to the worker coroutine.
Ends(e, how) ==
    IF e = Worker
    THEN Goto(e, how) /\ UNCHANGED <<job, ver, atGate, overlapped>>
    ELSE Release(e) /\ Closes(e)

\* A run raises before it has a checkpoint of its own: an import or the construction of
\* the graph fails, or PostgreSQL refuses the connection or the first checkpoint.
BeginFails(e) ==
    /\ pc[e] = "started"
    /\ troubled' = troubled \cup {job[e]}
    /\ Ends(e, "raised")
    /\ UNCHANGED <<disk, queue, unfinished, handling, posts, resumes, restarts, diskError>>

\* parse_log reads the file: the payload that is there now, or a parse error, which ends
\* the graph.
Parse(e) ==
    LET j == job[e]
    IN  /\ pc[e] = "working" /\ ver[e] = 0
        /\ \/ /\ incoming[j] # Torn
              /\ ver' = [ver EXCEPT ![e] = incoming[j]]
              /\ ckpt' = [ckpt EXCEPT ![j] = [at |-> "running", payload |-> incoming[j]]]
              /\ UNCHANGED <<pc, job, atGate, overlapped, troubled>>
           \/ /\ incoming[j] = Torn
              /\ ckpt' = [ckpt EXCEPT ![j] = [at |-> "ended", payload |-> 0]]
              /\ troubled' = troubled \cup {j}
              /\ Ends(e, "raised")
        /\ UNCHANGED <<incoming, sidecar, queue, unfinished, handling, posts, resumes, restarts,
                       diskError>>

\* A node returned and left its checkpoint.
Saves(e, place) == ckpt' = [ckpt EXCEPT ![job[e]] = [at |-> place, payload |-> ver[e]]]

\* A node on the same side of the gate returns.  When another run of the job had been
\* further, the checkpoint moves back.
SaveNode(e) ==
    /\ pc[e] \in {"working", "gate"} /\ ver[e] # 0
    /\ Saves(e, IF pc[e] = "gate" THEN "gate" ELSE "running")
    /\ UNCHANGED <<incoming, sidecar, queue, unfinished, handling, runVars, history>>

\* The reviewer returns.
ReachGate(e) ==
    /\ pc[e] = "working" /\ ver[e] # 0
    /\ Saves(e, "gate")
    /\ Goto(e, "gate")
    /\ UNCHANGED <<incoming, sidecar, queue, unfinished, handling, job, ver, atGate, overlapped,
                   history>>

\* The graph suspends at the gate, but not where it was resumed.  invoke() returns
\* normally, and Path(None) in run_pipeline() raises.
Suspend(e) ==
    /\ pc[e] = "gate" /\ ~atGate[e]
    /\ Ends(e, "raised")
    /\ UNCHANGED <<disk, queue, unfinished, handling, history>>

\* The budget is exhausted: the graph ends without a report.
Abort(e) ==
    /\ pc[e] = "working" /\ ver[e] # 0
    /\ Saves(e, "ended")
    /\ troubled' = troubled \cup {job[e]}
    /\ Ends(e, "raised")
    /\ UNCHANGED <<incoming, sidecar, queue, unfinished, handling, posts, resumes, restarts,
                   diskError>>

\* A node raises: an LLM error, PostgreSQL refuses its checkpoint, or format_report
\* cannot write.  The sidecar of a run whose last checkpoint is refused is written.
Raise(e) ==
    /\ pc[e] \in {"working", "gate", "writing", "written"}
    /\ troubled' = troubled \cup {job[e]}
    /\ diskError' = (diskError \/ pc[e] = "writing")
    /\ Ends(e, "raised")
    /\ UNCHANGED <<disk, queue, unfinished, handling, posts, resumes, restarts>>

\* The sidecar of e's job is opened for writing, which truncates it.
Truncate(e) ==
    /\ sidecar' = [sidecar EXCEPT ![job[e]] = [status |-> "torn", payload |-> 0]]
    /\ overlapped' = [overlapped EXCEPT ![e] = FALSE]

\* e writes content to the sidecar it truncated.  If somebody else wrote more there
\* in the meantime, the rest of that stays behind the content.
Writes(e, content) ==
    \/ sidecar' = [sidecar EXCEPT ![job[e]] = content]
    \/ /\ overlapped[e]
       /\ sidecar' = [sidecar EXCEPT ![job[e]] = [status |-> "torn", payload |-> 0]]

\* Mutated form of ReportOpen: the old sidecar is removed before a new one is
\* written.
ReportOpenAnew(e) ==
    /\ pc[e] = "gate"
    /\ sidecar' = [sidecar EXCEPT ![job[e]] = [status |-> "none", payload |-> 0]]
    /\ Goto(e, "writing")
    /\ UNCHANGED <<incoming, ckpt, queue, unfinished, handling, job, ver, atGate, overlapped,
                   history>>

\* format_report opens the sidecar.
ReportOpen(e) ==
    /\ pc[e] = "gate"
    /\ Truncate(e)
    /\ Goto(e, "writing")
    /\ UNCHANGED <<incoming, ckpt, queue, unfinished, handling, job, ver, atGate, history>>

\* It writes and closes it.
ReportWrite(e) ==
    /\ pc[e] = "writing"
    /\ Writes(e, [status |-> "completed", payload |-> ver[e]])
    /\ Overlaps(e)
    /\ Goto(e, "written")
    /\ UNCHANGED <<incoming, ckpt, queue, unfinished, handling, job, ver, atGate, history>>

\* The last checkpoint is saved, and the graph has ended.
ReportDone(e) ==
    /\ pc[e] = "written"
    /\ Saves(e, "ended")
    /\ Ends(e, "returned")
    /\ UNCHANGED <<incoming, sidecar, queue, unfinished, handling, history>>

-----------------------------------------------------------------------------
(* The worker coroutine, back on the event loop.                           *)

\* finally: queue.task_done().
TaskDone ==
    /\ unfinished' = unfinished - 1
    /\ Release(Worker)

\* run_pipeline() returned the report's path.
Completed ==
    /\ LoopFree
    /\ pc[Worker] = "returned"
    /\ TaskDone
    /\ Closes(Worker)
    /\ UNCHANGED <<disk, queue, handling, history>>

\* run_pipeline() raised: write_failed_result() opens the sidecar, or cannot and
\* logs that.
FailOpen ==
    /\ LoopFree
    /\ pc[Worker] = "raised"
    /\ \/ /\ Truncate(Worker)
          /\ Goto(Worker, "failing")
          /\ UNCHANGED <<unfinished, job, ver, atGate, diskError>>
       \/ /\ TaskDone
          /\ diskError' = TRUE
          /\ Closes(Worker)
          /\ UNCHANGED sidecar
    /\ UNCHANGED <<incoming, ckpt, queue, handling, posts, resumes, restarts, troubled>>

\* Mutated form of FailWrite: task_done() is called on success only.
FailWriteUndone ==
    /\ pc[Worker] = "failing"
    /\ Writes(Worker, [status |-> "failed", payload |-> 0])
    /\ Release(Worker) /\ Closes(Worker)
    /\ UNCHANGED <<incoming, ckpt, queue, unfinished, handling, history>>

\* Mutated form of FailWrite: the error is logged, and nothing is written.
FailWriteLogOnly ==
    /\ pc[Worker] = "failing"
    /\ TaskDone
    /\ Closes(Worker)
    /\ UNCHANGED <<disk, queue, handling, history>>

\* It writes status "failed"; an error leaves the file truncated.
FailWrite ==
    /\ pc[Worker] = "failing"
    /\ \/ /\ Writes(Worker, [status |-> "failed", payload |-> 0])
          /\ Overlaps(Worker)
          /\ UNCHANGED diskError
       \/ /\ diskError' = TRUE
          /\ Closes(Worker)
          /\ UNCHANGED sidecar
    /\ TaskDone
    /\ UNCHANGED <<incoming, ckpt, queue, handling, posts, resumes, restarts, troubled>>

\* The process dies and is restarted: what is in memory is gone.
Crash ==
    /\ restarts < MaxRestarts
    /\ restarts' = restarts + 1
    /\ queue' = <<>> /\ unfinished' = 0 /\ handling' = NoJob
    /\ pc' = [e \in Runs |-> "idle"]
    /\ job' = [e \in Runs |-> NoJob]
    /\ ver' = [e \in Runs |-> 0]
    /\ atGate' = [e \in Runs |-> FALSE]
    /\ overlapped' = [e \in Runs |-> FALSE]
    /\ UNCHANGED <<disk, posts, resumes, diskError, troubled>>

\* What takes a run that has begun closer to its end.
ThreadStep(e) ==
    \/ Parse(e) \/ ReachGate(e) \/ Suspend(e) \/ Abort(e) \/ Raise(e)
    \/ ReportOpen(e) \/ ReportWrite(e) \/ ReportDone(e)

WorkerStep ==
    \/ TakeJob \/ Begin \/ BeginFails(Worker) \/ ThreadStep(Worker)
    \/ Completed \/ FailOpen \/ FailWrite

ResumerStep(r) == BeginResumed(r) \/ BeginFails(r) \/ ThreadStep(r)

Next ==
    \/ \E j \in Jobs : IngestOpen(j)
    \/ IngestPut \/ IngestFail
    \/ WorkerStep
    \/ \E r \in Resumers : ResumeRequest(r) \/ ResumerStep(r)
    \/ \E e \in Runs : SaveNode(e)
    \/ Crash

Spec == Init /\ [][Next]_vars

\* The event loop and the threads are scheduled, and the graph has no cycle; nothing makes
\* clients act.
FairSpec ==
    /\ Spec
    /\ WF_vars(IngestPut \/ IngestFail)
    /\ WF_vars(WorkerStep)
    /\ \A r \in Resumers : WF_vars(ResumerStep(r))

-----------------------------------------------------------------------------
(* What the two GET endpoints answer from the files.                       *)

\* GET /api/v1/alerts/{job_id}; "error" is a 500.
Status(j) ==
    CASE sidecar[j].status = "torn" -> "error"
      [] sidecar[j].status \in {"completed", "failed"} -> sidecar[j].status
      [] OTHER -> IF incoming[j] = 0 THEN "not_found" ELSE "processing"

Terminal == {"completed", "failed"}

\* GET /api/v1/incidents goes through the sidecars and skips what it cannot parse;
\* the incoming file beside a sidecar is parsed with no such care, and one that is
\* torn makes the whole search a 500.
Corpus      == {j \in Jobs : sidecar[j].status \in Terminal}
SearchFails == \E j \in Corpus : incoming[j] = Torn

-----------------------------------------------------------------------------
(* Properties.                                                             *)

\* Nothing is queued and nobody works.
Quiet == queue = <<>> /\ handling = NoJob /\ \A e \in Runs : pc[e] = "idle"

\* A lifetime in which the worker alone wrote sidecars, and could.
WorkerAlone == restarts = 0 /\ resumes = 0 /\ ~diskError

\* Every accepted alert is answered: when the worker has nothing left to do, no
\* job it was given is "processing" or unreadable (spec 002 SC-002: no message
\* is lost within a server lifetime).
NoAlertForgotten ==
    WorkerAlone /\ Quiet => \A j \in Jobs : incoming[j] # 0 => Status(j) \in Terminal

\* ingest_alert(): "last write wins".  A result that is left when the worker has
\* nothing to do is never about a payload that was overwritten since.
LastWriteWins ==
    WorkerAlone /\ Quiet =>
        \A j \in Jobs : sidecar[j].status = "completed" => sidecar[j].payload = incoming[j]

\* A search, which can run whenever the event loop is free, is answered as long as
\* the process did not die and the disk did not refuse while an alert was written:
\* an alert that is being posted again never makes it fail.
SearchAnswers == LoopFree /\ restarts = 0 /\ ~diskError => ~SearchFails

\* A client that polls never sees an alert it posted disappear, nor one whose sidecar
\* was ever opened go back to "processing", restarts included.  It may see a 500 between
\* two answers: a job that is posted again goes from "completed" over "error" to either.
NoReturnToProcessing ==
    [][\A j \in Jobs :
        /\ Status(j) # "not_found" => Status(j)' # "not_found"
        /\ Status(j) \notin {"not_found", "processing"} => Status(j)' # "processing"]_vars

\* spec 002 SC-002: every alert in the queue is eventually answered, unless the
\* process dies, the disk refuses, or a resume writes to the same file.
EveryAlertAnswered ==
    \A j \in Jobs :
        Contains(queue, j) ~> Status(j) \in Terminal \/ ~WorkerAlone

\* The worker is never stuck, whatever resume requests do: the queue drains.
QueueDrains == unfinished > 0 ~> unfinished = 0

\* What e's run does for j, as GraphRuns has it.
StepFor(j, e) ==
    CASE job[e] = j /\ pc[e] = "working" -> "working"
      [] job[e] = j /\ pc[e] \in {"gate", "writing", "written"} -> "gate"
      [] OTHER -> "idle"

GraphOf(j) == INSTANCE GraphRuns WITH
    at      <- ckpt[j].at,
    step    <- [e \in Runs |-> StepFor(j, e)],
    resumed <- [e \in Runs |-> job[e] = j /\ atGate[e]],
    failed  <- j \in troubled

\* What the gateway does with the runs of one job is what GraphRuns has: however requests
\* and the worker interleave, no run takes up a checkpoint, asks a human or reports but
\* as the graph does.
RunsFollowGraph ==
    /\ \A j \in Jobs : GraphOf(j)!Init
    /\ [][\A j \in Jobs : GraphOf(j)!Next \/ UNCHANGED GraphOf(j)!vars]_vars

\* FR-002 and FR-003: "failed" is the answer for a pipeline that raised.  benchmark.py
\* says of a suspended one: "a designed control flow (SC-003), not a failure".
FailedOnlyOnFailure ==
    \A j \in Jobs : sidecar[j].status = "failed" => j \in troubled

\* load_result(): "a malformed file is a bug"; so when everything is done, no sidecar
\* is left malformed without a crash or a disk error.
SidecarsWellFormedAtRest ==
    Quiet /\ restarts = 0 /\ ~diskError => \A j \in Jobs : Status(j) # "error"
=============================================================================
