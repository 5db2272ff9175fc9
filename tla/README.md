# AutoSentinel in TLA+

AutoSentinel takes error alerts over HTTP, has a graph of LLM agents diagnose each
one and write a fix script, has the script reviewed, possibly approved by a human,
and runs it in a Docker sandbox. This directory models that system: TLA+ modules
translated from `autosentinel/`, TLC configurations that check them on small
instances, and proofs checked by TLAPS for every value of the constants.

`PROJECT.json` lists the components, the runs with their properties, the mutant that
shows each property can fail, the source lines behind every definition, the hazards
and the theorems.

## The system

| Component | State it keeps | Operations | Hard part | Module |
|---|---|---|---|---|
| LLM call path (`llm/ark_client.py`, `glm_client.py`, `cost_guard.py`) | process-wide spend, lazily built singleton, a lock | `complete()`: SDK call, retry on timeout, pricing, `accumulate()` | threads on one counter; money spent before it is counted | `CostGuard` |
| Multi-agent graph (`multi_agent_graph.py`, `agents/`, `run_pipeline`) | channels of one incident, checkpointed after every node | run, suspend at the gate, resume, abort on the budget | several invocations of one thread_id at once; crashes; channels of an earlier run; refused checkpoints | `Pipeline` |
| Ledger (what the call path promises) | one total, what each caller owes | ask, answer, give up, settle | | `Ledger` (abstract) |
| Approval gate (what the graph promises) | facts about artifacts | produce, clear, hold, release, execute | | `ApprovalGate` (abstract) |
| Graph runs (what the gateway takes the graph to do) | the checkpoint of one incident, what each run does | begin, save a node, reach the gate, suspend, abort, raise, report | | `GraphRuns` (abstract) |
| Event gateway (`api/main.py`, `queue.py`, `results.py`) | incoming files, result sidecars, an asyncio queue | POST alert, worker, GET status, resume | event loop against threads; files written in place; the same id posted again | `EventGateway` |
| Verifier (`agents/verifier.py`, `_artifact_normalizer.py`, `_producer_contract.py`) | one container for each run | normalise, create, start, wait, kill, remove | script, daemon and process fail independently | `Verifier` |
| Graph construction (the import of `multi_agent_graph.py`, `llm/factory.py`, `_resolve_checkpointer`) | clients of the agents, a saver for the DSN, open connections | import, build or reuse, close at exit | two threads build at once; imports and connections that fail half-way | `GraphBuild` |
| Benchmark runners (`scripts/run_benchmark.py`, `benchmark.py`) | the rows so far, the result in hand | one invocation for each scenario, the summary | an invocation that raises leaves an older result; the budget | `Benchmark` |
| Incident search (`search_incidents`) | none: reads the files | | files it meets half written | partly, in `EventGateway` |
| Holdout evaluation, protocol and mock, prompts, tracing, CLI, scripts | none that lasts | | | not modelled, see below |

How they interact. `POST /api/v1/alerts` writes `data/incoming/{id}.json` and queues a
job. One worker coroutine takes jobs and runs `run_pipeline()` in a thread, which
invokes the graph with thread_id = id. The LLM nodes call `complete()`, which charges the
one `CostGuard` of the process; a `CostGuardError` becomes the channel
`cost_exhausted`, which every later edge looks at. A HIGH_RISK verdict makes
`security_gate` call `interrupt()`: the invocation returns, and a later
`POST /incidents/{id}/resume` invokes the same thread_id again, in a thread of its own.
The Verifier runs the artifact; `format_report` writes the report and the sidecar that
`GET /api/v1/alerts/{id}` reads. Nothing keeps two invocations off one thread_id and
nothing orders the two writers of a sidecar. The first build imports the graph's module, which
makes one client per agent from `config/model_routing.yaml`; every build takes the saver of
the DSN from a cache that no lock protects. The benchmark runners use the same graph in a
process of their own, one scenario after another, and answer the gate themselves.

What has to be right: no charge is lost and the budget trips exactly when it is exceeded
(`CostGuard`); no artifact runs that was neither cleared nor answered for, the report
says so truthfully, and an invocation ends (`Pipeline`); an accepted alert is answered,
with the result of its last payload (`EventGateway`); the Verifier reports what happened and
leaves nothing running (`Verifier`); no connection leaks or is closed under a graph that uses it,
and the clients are those the routing file names (`GraphBuild`); a scenario passes only for its
own verified fix, and the summary hides no false negative and no spend (`Benchmark`).

## Modules

**CostGuard.** One action for each step between which another thread can run. `Start`,
`Answer`, `Malformed`, `Timeout` and `ProviderError` are `complete()` up to the pricing; `LookUp`,
`Build` and `BuildFails` are the double-checked locking of `get_cost_guard()`; `Acquire` and `Commit`
are `accumulate()` before and after the store. Guards are named after the caller that built
them, so that two of them would be told apart. Money is in abstract units. What the provider bills
for an attempt and what the guard is given for it are chosen apart, each up to `MaxCost` (`Bill`):
the price tables give zero for a model they do not have and one tier for every GLM answer, a timeout
or a connection that broke may be billed and is not charged, and an answer without choices or usage
raises before `accumulate()`. `unseen` counts the attempts that were billed higher than they were
charged. The environment holds a budget or does not (`budgeted`), once for the process. Both providers' clients are the same path. `GET`s of the
guard's state and `reset_for_test()` change nothing that a production run sees.

**Ledger.** The promise about money, without threads' locks, retries and the lazily built guard:
there is one total, an answer is added to it in one step, and its caller is refused exactly when
the total with its own answer in it exceeds the limit. `CostGuard` implements it under the mapping
`Books`: a caller past its SDK call owes the cost of its answer, and `Commit` is the step that
settles; `LookUp`, `Build` and `Acquire` are invisible. A second guard, or a store that uses an old
total, is a step the ledger does not have.

**Pipeline.** One incident, one thread_id. An invoker (the worker or a resume request) has
its own copy `ch` of the channels and its next node; `saved` is the latest checkpoint. Each
node of the graph is an action that returns, raises, suspends or trips the budget, and
then saves (`Advance`), as LangGraph does. A call that trips the budget only sets the flag
(`Flagged`); each node's outgoing edge reads it for itself (`OrCostExhausted`,
`RouteToSpecialist`), whoever set it and whenever. A review whose call gets no answer holds the
artifact (`HoldUnjudged`), and `vouched` are the artifacts some answer let through. `Verify` and `Verified` are separate: between
them the artifact runs and the checkpoint still says it has not. `ResumeRequest` looks at the
checkpoint on the event loop, and `ResumeInvoke` loads it again later in a thread. `Submit` is
`run_pipeline()`: its initial state overwrites the channels it mentions, and `cost_exhausted` is
not one of them. LangGraph is external and modelled by how the code uses it: a
checkpoint after every node, a resume value that is offered to the first superstep only, a
finished thread that has nothing to run. `Proceeds` is a node that runs and whose checkpoint is
accepted; `Refused` is one that ran for nothing, because PostgreSQL refuses its checkpoint or the
disk what `format_report` writes: the invocation raises, the checkpoint stays where it was, the LLM
call stays charged, an artifact that ran has run. What an LLM says is a choice; SAFE and CAUTION are one
verdict, because no node tells them apart.

**ApprovalGate.** The promise, without nodes and threads: an artifact is executed only after a
review cleared it, or after a human answered for the HIGH_RISK verdict it was held for.
`Pipeline` implements it under the mapping `Promise` of its history variables.

**GraphRuns.** The graph of one incident as an endpoint or the worker can see it: the checkpoint, as
"running", "gate" or "ended", and what each run does, as "working" or "gate". It is stated once and
implemented twice. `Pipeline`, which has nodes and channels, implements it under the mapping `Seen`
when the checkpoints are durable; `EventGateway`, which has only this much of the graph, implements
it for each job (`GraphOf`). So the gateway's runs suspend, abort, raise and report only where a
real invocation can, and a graph that did something else would show in `ImplementsGraphRuns`.
The checkpoint can go back: a slower run of the same thread saves an earlier node after a faster
one (`SaveNode`). What cannot happen is that a resumed run asks again, gets before the gate, or aborts.

**EventGateway.** Job ids, the two files of each, the queue, the worker and resume requests. The
event loop is `LoopFree`: a handler keeps the loop while it writes its file, and a thread does not
need it. `write_text()` truncates and then writes, so a file can be seen `Torn`; two writers that
overlap can leave a longer text's rest behind a shorter one (`overlapped`). Any write can fail
(`IngestFail`, `diskError`). `SearchFails` is what the unguarded read in `search_incidents()`
meets. Of the graph there is what `GraphRuns` has: `Begin`
saves the first checkpoint, before `Parse` reads the incoming file; `SaveNode`
and `ReachGate` leave checkpoints; `Suspend`, `Abort`, `Raise` and the report end a run. A run can
also raise before it has a checkpoint of its own, and leaves the one of an earlier run
(`BeginFails`). The report is three steps: its sidecar is opened, then written, and then the last
checkpoint is saved, which may be refused after the sidecar was written.

**Verifier.** `Take` is the producer's one retry and the normalisation, by what `compile()`
says of the text; a text over which it raises something else than a SyntaxError ("choking") ends
`run()` before its try. The other actions are the Docker requests of `run()`, each of which can fail
before or after the daemon carried it out. `Exit` is the script. `Crash` leaves the containers to
themselves.

**GraphBuild.** Two kinds of thread, the event loop (resume requests) and the worker's, go through
one build: under Python's import lock `MakeClient` reads the routing file and makes one agent's
client, or `MakeClientFails` throws the half-made module away; then `Lookup`, `Connect`,
`Setup`, `Register` and `Store` are the lines of `_resolve_checkpointer()` between which another
thread can run. When `setup()` raises nobody holds the context manager but the frame that is
unwound: the connection is closed when that frame is freed with the traceback, which is a step of
its own (`Unwind`). `Done` is the end of the invocation. `Exit`, `Close` and `Closed` are the
interpreter's exit handlers. `Drop` and `Edit` come from outside. A process that is killed keeps
nothing, so its next start is `Init`, and there is no action for it. Only the configured-DSN
branch is here; without a DSN every build has a `MemorySaver` of its own and shares nothing.

**Benchmark.** Both runners in one module, because their loop is the same and their differences are
what matters: the full runner drops the singleton guard (`Fresh`), keeps the result of the first
of two invocations (`Gate`) and aborts on the budget (`Record`); the smoke runner does none of
these. The graph is the sequential one of `Pipeline`, with what an answer costs as a choice
(0 for the mock's). `ch` is what the graph knows and `result` is what the runner has of it: they
differ whenever an invocation raises. The clock is read once per scenario and only enters the
percentiles, so `Finish` chooses all latencies. Scenario ids are taken to be unique, as
`tests/test_benchmark.py:73` requires of the scenario files.

## Runs

| Run | Instance | What it shows |
|---|---|---|
| `CostGuard_calls` | 2 threads, 3 calls, 2 attempts each, limit 2, answers cost 0 to 2 | no charge is lost; the bill is bounded by the limit, the refusals and what the guard was not given; `CostGuard` implements `Ledger`, so that a call is refused exactly when it is over the budget; under fairness, every call ends |
| `Pipeline_resumes` | worker and 1 resume request, 2 submissions, 2 artifacts, 1 crash, fair | the gate's safety properties; no edge misses the flag of a spent budget; executions are counted; `Pipeline` implements `ApprovalGate`, and `GraphRuns`, so that a resume repeats nothing and asks nobody again; an invocation always has a next step, and ends; an answered gate leads to the report |
| `EventGateway_alerts` | 2 job ids, 2 alerts, 2 resumes one after the other, 1 restart, fair | no alert is forgotten, and its answer is about the last payload; the queue drains; no alert goes back to not_found or processing; a search meets no half-written file; the runs of each job are those of `GraphRuns` |
| `Verifier_sandbox` | 2 verifications, 1 crash, fair | true results, containers removed, a script left running is reported as an error, `run()` always has a next step, scripts stopped |
| `GraphBuild_savers` | 2 threads, 2 agents, 8 routing files and none, 4 builds, 3 connections, 1 edit, fair | nothing leaks; savers are usable; one connection per thread; clients match a routing file; builds end |
| `Benchmark_runs` | 3 runners, 0 to 2 scenarios with any labels, limit 2, answers cost 0 to 2, up to 3 spent before, latencies 0, 1 and 5 | the budget decides; what passed was verified; no false negative is missed; the summary adds up |

The bounds. Three calls by two threads are enough for both to build the guard at once, for the
first to exceed the limit and for one to be made afterwards. Two artifacts let an incident be
fixed twice, by a resubmission or by a resume that runs the specialist again, so that a verdict
or a decision could reach the wrong one; the resume request can meet the worker anywhere. More
resume requests, one after another or at the same time, are left to the proofs, which hold for any
number; for the safety properties a second one, made after the first, has the same outcome. Two alerts on two ids are either one id whose second payload arrives at
any moment of the first one's way, or two jobs of which one waits for the other; the two resume requests
meet either, and the second finds what the first and the worker left. A third alert, with one resume request
less (2,459,046 states), has the same outcome for everything but `QueueDrains`, which was not tried there. Two
threads and three connections let both threads open one and a third be opened after a failure;
the eight routing files are right, swapped, and wrong in each of the six ways
`llm/factory.py` refuses. Two scenarios are enough for one to leave its result, cost or verdict
to the next, and for the budget to be met, exceeded in either, or exceeded and hidden by an
exception; an instance with three scenarios and limit and cost 1 has the same outcome. The
runs do not check deadlock: each model stops when its bounded clients have nothing left to
send.

Six runs expect a violation; each is a disagreement between the code and what its own
documentation says.

| Run | Says | The code |
|---|---|---|
| `CostGuard_failfast` | `cost_guard.py:13`: after the budget is spent the next outbound call fails fast | the call goes out, is billed, and raises afterwards |
| `Pipeline_reject` | `api/models.py:23`, constitution V: an unapproved HIGH_RISK fix is not verified | the gate ignores the decision, and "reject" executes |
| `Pipeline_presuspended` | `api/main.py:185`: 404 when nothing is suspended | any checkpoint will do, and a resume can answer the gate before it asks |
| `Pipeline_stale_budget` | `multi_agent_graph.py:95`: cost_exhausted is reached when a call trips the budget | the flag of an earlier run aborts a resubmission with a fresh budget |
| `EventGateway_suspended` | `benchmark.py:12`: an interrupt is not a failure | `Path(None)` raises, and the suspended incident is "failed" |
| `EventGateway_garbled` | `api/results.py:31`: a malformed sidecar is a bug | worker and resume write it at once and leave it malformed |

Further disagreements, which need no run:

- `llm/errors.py:5` and `:25` speak of three attempts; both clients stop after two.
- Spec 003 `python-interface.md:29` gives a ReadTimeout the status "timeout" and no execution
  error. `kill()` has no handler of its own: when the script has just ended, or the daemon
  refuses, `run()` reports an execution error instead. `ResultIsTrue` therefore says only that a
  late script is never reported as ended, and a timeout is never reported of one that was not late.
- SC-001 of spec 006 (`specs/006-fix-verification-integrity/spec.md:245`) says that no code scenario
  of the benchmark fails in the sandbox for a syntax error of the artifact's format. The text is compiled by the host, Python 3.11 or
  later (`pyproject.toml:5`), and run by `python:3.10-alpine` (`agents/verifier.py:21`): syntax that is
  newer than 3.10 passes the one and fails in the other. `Compiles` is the host's word only.
- `_producer_contract.py:8` says that its layer never raises over a bad artifact. `compile()` can
  raise a ValueError or a RecursionError, which neither layer catches: the Verifier's call of it is
  outside its try, and the invocation raises (`Unverifiable` in `Pipeline`).
- A HIGH_RISK fix that a human rejected is executed (`Pipeline_reject`) and then reported as "executed
  after human approval" (`nodes/format_report.py:59`); `ReportIsBacked` says only that some decision
  released it.
- The comment in front of the checkpointer cache speaks of one connection for each DSN. Two
  threads that look at once open two; `OneConnectionPerThread` is what holds, and no graph
  loses its connection by it.
- SC-013 defines a false negative by a non-HIGH_RISK verdict. The runner also counts a scenario
  that has no verdict, because it failed before the reviewer; `NoFalseNegativeMissed` says that
  it errs on that side only.
- FR-519 aborts a run whose budget trips. The smoke runner goes on and counts what follows as
  unresolved; and when an invocation raises after it tripped the budget, the full runner has no
  result to see that in. `BudgetDecides` excepts just that case (`hidden`).

Fairness. `CostGuard`: weak fairness for every step of a call that began, because the SDK timeout
ends an attempt and threads are scheduled; none for beginning a call. `Pipeline`: weak fairness of
each invoker's next node (`Proceeds`) and of a resume that passed its check, because LLM calls,
containers and threads all end; none for submissions, resumes, refusals and crashes.
`EventGateway`: weak fairness for the event loop's pending handler, the worker and the resume threads,
in the steps that take a run closer to its end; `SaveNode` is not one of them, and that the graph has
no cycle, so that a run does not save for ever, is what `InvocationEnds` shows of `Pipeline`. `Verifier`: weak fairness of
`run()`, not of the script, which need not end. `GraphBuild`: weak fairness of each thread's
build and of the exit handler once it runs; none for starting a build, ending the process,
dropping a connection or editing the file. An alert's handler ends by writing or by failing,
as one fair action. `Benchmark` is sequential and states no liveness: its loop is over a list.

## Proofs

Seven modules beside the components (two of them for `Pipeline`) prove for every value of the
constants what the runs show on an instance; an eighth, `Induction`, has what they need of induction.
They assume only the named ASSUMEs of the modules, `PipelineRunsTheGraph` that there is a DSN, and the
four theorems about liveness what is said below.

*CostGuard.* The properties speak of the quiescent state or of the history; the inductive
invariant fills in what holds in the middle of a call: the guard's lock is held exactly by the
caller at `commit`, whose `newTotal` is the total plus its cost; only the singleton is charged;
and the answers not yet charged account for the difference between the total and what was
answered. The sums over callers are sums over the finite set `Callers`, and the lemmas about
them come first. `Inductive` gives `TypeCorrect`, `NothingIsLost`, `BudgetHolds`,
`OvershootIsBounded` and `BillIsBounded`. `CallPathKeepsBooks` adds that every step is
one of `Ledger` or a stutter: who is at `commit` computed `newTotal` from the total that is still
there (`ReadUnderLock`), and it is the total of the one guard (`OneGuard`).

*Pipeline.* The safety properties are not inductive, because a checkpoint or another invocation
may carry channels from long ago. The invariant says of every set of channels a node may start
from that it is backed by history: past the reviewer its artifact was reviewed with just that
verdict, past the gate it was cleared or released, with a report it was executed, and where the flag of a spent
budget is there is no verdict and no report. History
only grows (`Grows`), so what is backed stays backed whoever acts; one lemma says so, and each
action needs to show only that the channels it makes are backed. From the same invariant,
`PipelineKeepsPromise` shows that every step maps to a step of `ApprovalGate` or a stutter.
`ExecutionsArePaid` needs a second invariant (`Paid`): an artifact's executions, the resume
requests that were checked and have not run it yet (`Unspent`), and the submission while it
still can (`Owed`), never exceed one plus the resume requests made. It counts a set, so it
rests on the library's theorems on finite sets.

`CompletedNodesAreSkipped` is what `GraphRuns` says of a resumed run, in terms of nodes; it is proved
by itself because the liveness needs it, and no run checks it beside `ImplementsGraphRuns`.

`PipelineRunsTheGraph`, in `PipelineGraphProofs`, shows that `Pipeline` implements `GraphRuns` when
`Durable` holds. Whatever the node, its return is one of five outcomes: the invocation goes on, asks,
gives up, aborts or completes (`Outcomes`, one step for each action of `Pipeline`). Each outcome is a
step of `GraphRuns` (`NodeIsSeen`), given an invariant about resumed invocations (`Placed`): who
continued from the gate or from behind it is still there, and who is at the gate itself has its answer
in hand. Without durable checkpoints a run leaves none and the theorem is false, as it should be.

*Verifier.* The invariant says where the container is at each step of `run()` and that the end
of a script is written once, and that a timeout was late; runs do not touch each other
(`UntouchedKeeps`). `ResultsAreTrue`, `StrayScriptsAreReported` and `NothingDangles` follow.

*EventGateway.* An alert the gateway owes an answer to is in its handler's hands, in the queue, in
the worker's, or has a final sidecar (`Remembered`); and what is in the worker's hands alone is
about the payload in the incoming file (`Fresh`). Both need that only one run exists when no
resume is made, and that the event loop is in one pair of hands. `NeverBackToProcessing` follows as an
action property, one step for each action; it says nothing of a job that is posted again, whose status
may go from "completed" over a 500 to "completed" again. `GatewayFollowsGraph` shows for each job that every step of
the gateway is one of `GraphRuns` or does not show in it. A step of one run leaves the others alone
(`Alone`), so what has to be shown is what it does to its own job (`OwnJob`), given that only a
resumed run continues from the gate, and has a checkpoint to continue from (`Waypoints`).

*GraphBuild.* `InHand` says what connection a thread has at each step of its build. An open
connection is registered or in its opener's hands, and a thread on the way to open one has none
registered, because it would have found a saver in the cache (`OpenersOK`): that is why the
missing lock costs at most one connection for each thread.

*Benchmark.* `FactOK` relates channels, result and what really happened at each place of the graph;
rows inherit it (`RowsOK`); `BudgetOK` says where a run over its budget can be. The percentiles
of any sorted sequence are in order (`PercentilesAreInOrder`), with the ties of the rounding
treated explicitly. `SummaryIsRight` needs that the sum of the rows' costs is what was charged
(`TallyOK`: a row that is appended adds its cost to the sum), and that what `sorted()` returns is a
sorted permutation of the latencies. `Sorted` chooses one, and `CanBeSorted` proves that there is
one to choose.

*Induction.* The library's induction rules take a predicate as a parameter, which the provers
cannot instantiate. `SetInduction` takes the set of the numbers for which a claim holds instead; it
follows from the library's theorem that a well-founded order has minimal elements. `CanBeSorted`
is by induction on the length: the largest element is put last.

*Liveness.* `InvocationsEnd`, `AnsweredGatesComplete` (both of `Pipeline`) and `ScriptsAreStopped`
(of `Verifier`) are proved from `FairSpec`. A fourth, `AlertsAreAnswered` (of `EventGateway`),
needs no fairness of its own: where `QueueDrains` holds, which the run checks, so does
`EveryAlertAnswered`, because a queued job leaves the queue, and then the worker's hands, only for
a sidecar (`ComingStays`). The prover's temporal logic knows what weak fairness
is; what it cannot do is to expand ENABLED. So the other three have the hypothesis `[]NeverStuck`, which
says that who is in the middle of something has a step to take, and the runs check that invariant.
Everything else is proved: `Left` numbers the nodes so that every edge, abort, suspension and error
leads to a smaller number, `NodeGetsCloser` shows it for each node, `NeverFurther` that no step of
another invocation, of a client or of a crash takes one back, and at most twelve such steps lead
to the end. For the answered gate, `AnswerInHand` says that the resume value is still there when
the gate is reached, so that the gate does not ask again; the report follows unless the process dies,
the database or the disk refuses, or `compile()` raises over the artifact. `InvocationsAreSomewhere` proves the part
of `NeverStuck` that is not about ENABLED: whoever runs is at a node of the graph, and whoever
passed the 404 check still has a checkpoint to continue from.

*Without a DSN* (`Durable = FALSE`, a `MemorySaver` for each graph) there is no run, as nothing is
ever loaded; `WithoutDsnSuspendedIsGone` proves what that means. No resume request finds a
checkpoint, no artifact is ever released, and what is executed was cleared by a review: an incident
that suspends at the gate in that configuration can never be resumed.

Checked by TLC only:

- `NeverStuck` of `Pipeline` and of `Verifier`, since ENABLED is out of the prover's reach.
- `EveryCallEnds`, `QueueDrains` and `BuildsEnd`. What has to be waited for
  there has no fixed length: a caller can lose the lock of the guard to as many calls as others
  make, an alert waits for all that are queued before it and for the handlers of those that arrive, a build for the imports that fail
  before it, and the exit handler closes any number of connections. That needs an induction over
  a temporal formula, which neither the temporal prover nor a set as in `SetInduction` can express.

## Not modelled

- Report and sidecar contents beyond the status and the approval: formatting.
- Incident search beyond the files it parses: matching, ranking and the limit are a read-only
  text scan.
- Holdout evaluation and the operational scripts: one loop over a single agent that counts
  hits, and manual checks against live services. Nothing is kept between two steps of them.
- Protocol and mock client: data validation, and a stand-in for tests.
- What `Benchmark` leaves out of the reports: names, category counts, average durations, and the
  `execution_error` of the smoke runner, which it does not look at.
- Which graphs get a saver whose connection PostgreSQL dropped. `GraphBuild` has the drop (`Drop`), and
  `SaversAreUsable` allows it, as nothing promises otherwise; what a refused checkpoint does to a run is
  `Refused` in `Pipeline`; that all later graphs of the process get the same saver is in neither.
- Which Python a text is compiled by and for: the versions of the host and the sandbox are data.
- Tracing and logging: best effort, nothing decides on it. Prompts: text.
- The dead branch of the Verifier for an artifact that is None.
- A shutdown by cancelling the worker: it loses what `Crash` loses.

## Plan

Done in this order: `CostGuard` with its proofs, `ApprovalGate` and `Pipeline` with the refinement,
`EventGateway`, `Verifier` with its proofs; then the proofs of `EventGateway`, `GraphBuild` and
`Benchmark` with theirs, and the accounts of executions and overshoot; then `Ledger` and its
refinement, `Induction` and the summary, and the liveness of `Pipeline` and `Verifier`; then `Refused`,
and `GraphRuns` with the proofs that both sides of it, `Pipeline` and `EventGateway`, implement it.
What is left:

1. A composition of `Pipeline` and `CostGuard`: whether a call trips the budget is a choice in
   `Pipeline` today; composed, the spend of one incident could be shown to abort another.
2. What a call, a build or the queue still has to do, as a number that every step decreases: the
   part of their liveness that needs no temporal induction.
3. The ranking of `search_incidents()` as a pure operator against a reference definition.
