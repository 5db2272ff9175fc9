------------------------------ MODULE Pipeline ------------------------------
(***************************************************************************)
(* The multi-agent graph of multi_agent_graph.py run for one incident (one *)
(* LangGraph thread_id), with everything that can invoke it: the gateway's *)
(* worker through run_pipeline(), and the requests to                      *)
(* POST /incidents/{id}/resume.                                            *)
(*                                                                         *)
(* An invocation loads the latest checkpoint, runs one node after another  *)
(* on its own copy of the channels and saves the channels after each node. *)
(* Nothing keeps two invocations off the same thread_id.                   *)
(*                                                                         *)
(* Artifacts are numbered in the order the specialists emit them.          *)
(***************************************************************************)
EXTENDS Integers, FiniteSets

CONSTANTS
    Worker,         \* the gateway's one worker task
    Resumers,       \* requests to the resume endpoint
    Durable,        \* AUTOSENTINEL_CHECKPOINTER_DSN is set (PostgresSaver)
    MaxArtifacts,   \* bound: artifacts emitted in one run of the model
    MaxRuns,        \* bound: submissions of this incident
    MaxResumes,     \* bound: resume requests
    MaxCrashes      \* bound: restarts of the process

ASSUME ExecsAssumption   == Worker \notin Resumers
ASSUME DurableAssumption == Durable \in BOOLEAN
ASSUME PipelineBounds    == /\ MaxArtifacts \in Nat /\ MaxRuns \in Nat
                            /\ MaxResumes \in Nat /\ MaxCrashes \in Nat

Execs     == {Worker} \cup Resumers
Artifacts == 1..MaxArtifacts
\* No node after the reviewer tells SAFE from CAUTION: both are "cleared".
Verdicts  == {"cleared", "HIGH_RISK"}
Decisions == {"approve", "reject"}
Fixers    == {"code_fixer_agent", "infra_sre_agent"}
Nodes     == {"dispatch", "parse_log", "diagnosis_agent", "supervisor_route",
              "security_reviewer", "security_gate", "verifier_agent",
              "format_report", "cost_exhausted"} \cup Fixers
LlmNodes  == {"diagnosis_agent", "supervisor_route", "security_reviewer"} \cup Fixers

\* The nodes from the approval gate on.
Gated     == {"security_gate", "verifier_agent", "format_report"}

\* The channels of AgentState that decide what happens, and the node to run.
\* "none": there is no checkpoint; "END": the graph is done.
Channels == [next : Nodes \cup {"none", "END"},
             exhausted : BOOLEAN,                   \* cost_exhausted
             artifact  : 0..MaxArtifacts,           \* fix_artifact; 0 is None
             verdict   : Verdicts \cup {"none"},    \* security_verdict
             approval  : BOOLEAN,                   \* approval_required
             report    : BOOLEAN]                   \* report_path is set

Failures == {"parse_error", "cost_exhausted", "raised", "refused"}

Results == {"none", "completed", "parse_error", "cost_exhausted", "interrupted",
            "raised", "refused", "not_found", "no_op", "killed"}

VARIABLES
    saved,      \* the latest checkpoint of the thread
    pc,         \* what each invoker does
    ch,         \* the channels each invocation works on
    decision,   \* the decision of a resume request
    pending,    \* Command(resume=...) not yet used by a superstep
    result,     \* how the last invocation ended
    over,       \* the process's CostGuard total exceeds its limit
    runs, resumes, crashes,
    \* history
    made,       \* artifacts emitted so far
    denied,     \* artifacts that contain a deny-listed operation or a secret
    reviews,    \* verdicts given to each artifact
    vouched,    \* artifacts some answer of the reviewer's LLM did not call HIGH_RISK
    asked,      \* artifacts a human was asked about (the gate suspended)
    released,   \* decisions that let each artifact pass the gate
    execs,      \* how often each artifact was handed to the Verifier
    from,       \* the node at which the invocation started
    tripped,    \* a CostGuardError was raised in this invocation
    failed      \* some invocation has raised or aborted

counters == <<runs, resumes, crashes>>
gateVars == <<reviews, vouched, asked, released>>
vars == <<saved, pc, ch, decision, pending, result, over, counters,
          made, denied, gateVars, execs, from, tripped, failed>>

NoCheckpoint ==
    [next |-> "none", exhausted |-> FALSE, artifact |-> 0, verdict |-> "none",
     approval |-> FALSE, report |-> FALSE]

TypeOK ==
    /\ saved \in Channels
    /\ pc \in [Execs -> {"idle", "checked", "running", "verifying"}]
    /\ ch \in [Execs -> Channels]
    /\ decision \in [Execs -> Decisions \cup {"none"}]
    /\ pending \in [Execs -> BOOLEAN]
    /\ result \in [Execs -> Results]
    /\ over \in BOOLEAN
    /\ runs \in 0..MaxRuns /\ resumes \in 0..MaxResumes /\ crashes \in 0..MaxCrashes
    /\ made \in 0..MaxArtifacts
    /\ denied \in SUBSET Artifacts
    /\ reviews \in [Artifacts -> SUBSET Verdicts]
    /\ vouched \in SUBSET Artifacts /\ asked \in SUBSET Artifacts
    /\ released \in [Artifacts -> SUBSET Decisions]
    /\ execs \in [Artifacts -> Nat]
    /\ from \in [Execs -> Nodes \cup {"none"}]
    /\ tripped \in [Execs -> BOOLEAN]
    /\ failed \in BOOLEAN

Init ==
    /\ saved = NoCheckpoint
    /\ pc = [e \in Execs |-> "idle"]
    /\ ch = [e \in Execs |-> NoCheckpoint]
    /\ decision = [e \in Execs |-> "none"]
    /\ pending = [e \in Execs |-> FALSE]
    /\ result = [e \in Execs |-> "none"]
    /\ over = FALSE
    /\ runs = 0 /\ resumes = 0 /\ crashes = 0
    /\ made = 0
    /\ denied = {} /\ vouched = {} /\ asked = {}
    /\ execs = [a \in Artifacts |-> 0]
    /\ reviews = [a \in Artifacts |-> {}]
    /\ released = [a \in Artifacts |-> {}]
    /\ from = [e \in Execs |-> "none"]
    /\ tripped = [e \in Execs |-> FALSE]
    /\ failed = FALSE

-----------------------------------------------------------------------------
(* What every invocation does.                                             *)

At(e, node) == pc[e] = "running" /\ ch[e].next = node

\* MemorySaver is made anew by every build_multi_agent_graph(): what it saves
\* is never seen by another invocation.
Save(x) == saved' = IF Durable THEN x ELSE saved

\* A node returned: the channels are updated and saved, and the resume value,
\* if any, was offered to this superstep only.
Advance(e, x) ==
    /\ ch' = [ch EXCEPT ![e] = x]
    /\ Save(x)
    /\ pending' = [pending EXCEPT ![e] = FALSE]

\* The invocation ends: it returns, suspends or raises, and what it worked on is
\* gone but for the checkpoint.
Stop(e, how) ==
    /\ pc' = [pc EXCEPT ![e] = "idle"]
    /\ ch' = [ch EXCEPT ![e] = NoCheckpoint]
    /\ pending' = [pending EXCEPT ![e] = FALSE]
    /\ from' = [from EXCEPT ![e] = "none"]
    /\ tripped' = [tripped EXCEPT ![e] = FALSE]
    /\ result' = [result EXCEPT ![e] = how]
    /\ failed' = (failed \/ how \in Failures)

\* The last node returned.
Finish(e, x, how) ==
    /\ Save([x EXCEPT !.next = "END"])
    /\ Stop(e, how)

\* _or_cost_exhausted: the edge out of an LLM node reads the flag.
OrCostExhausted(x, node) == [x EXCEPT !.next = IF x.exhausted THEN "cost_exhausted" ELSE node]

\* Mutated form of RouteToSpecialist: the supervisor's own edge does not read the flag.
RouteToSpecialistBlind(x, f) == [x EXCEPT !.next = f]

\* _route_to_specialist, the supervisor's edge, has its own reading of the flag.
\* _parse_routing falls back to code_fixer, so an answer always routes.
RouteToSpecialist(x, f) == [x EXCEPT !.next = IF x.exhausted THEN "cost_exhausted" ELSE f]

\* An LLM node whose calls were answered within the budget; y is what it returned, with
\* the node its edge leads to.
Answered(e, y) ==
    /\ ~over
    /\ Advance(e, y)
    /\ UNCHANGED <<pc, result, over, from, tripped, failed>>

\* What _guarded returns for a node whose call raised CostGuardError: the flag alone.
Flagged(e) == [ch[e] EXCEPT !.exhausted = TRUE]

\* accumulate() raised CostGuardError; the edge out of the node leads wherever it makes
\* of the flag.  Once over, the total stays over.
Trips(e, y) ==
    /\ over' = TRUE
    /\ tripped' = [tripped EXCEPT ![e] = TRUE]
    /\ Advance(e, y)
    /\ UNCHANGED <<pc, result, from, failed>>

\* Mutated form of Raises: the graph is started over until the node works.
RaisesAndRestarts(e) ==
    /\ Advance(e, [ch[e] EXCEPT !.next = "dispatch"])
    /\ UNCHANGED <<pc, result, over, from, tripped, failed>>

\* An exception other than the budget's (a timeout, a provider error, an answer without
\* the fields it should have) leaves the node and the graph; the checkpoint still has
\* the node to run.
Raises(e) ==
    /\ Stop(e, "raised")
    /\ UNCHANGED <<saved, over>>

-----------------------------------------------------------------------------
(* run_pipeline() and the nodes.                                           *)

\* Mutated form of InitialState: security_verdict is left out of the initial
\* state, so the previous run's verdict stays in the thread.
InitialStateKeepingVerdict ==
    [NoCheckpoint EXCEPT !.next = "dispatch", !.exhausted = saved.exhausted,
                         !.verdict = saved.verdict]

\* The initial state run_pipeline() passes in, applied to what the thread holds:
\* keys it does not mention keep their value, and cost_exhausted is one.
InitialState ==
    [NoCheckpoint EXCEPT !.next = "dispatch", !.exhausted = saved.exhausted]

\* The worker invokes the graph for a job of this incident; the build of the graph or
\* the first access to its checkpointer may raise, and leaves the thread as it was.
Submit ==
    /\ pc[Worker] = "idle"
    /\ runs < MaxRuns
    /\ runs' = runs + 1
    /\ \/ /\ pc' = [pc EXCEPT ![Worker] = "running"]
          /\ Advance(Worker, InitialState)
          /\ from' = [from EXCEPT ![Worker] = "dispatch"]
          /\ result' = [result EXCEPT ![Worker] = "none"]
          /\ UNCHANGED <<tripped, failed>>
       \/ /\ Stop(Worker, "raised")
          /\ UNCHANGED saved
    /\ UNCHANGED <<decision, over, resumes, crashes, made, denied, gateVars, execs>>

\* dispatch: the trace id is already there.
Dispatch(e) ==
    /\ At(e, "dispatch")
    /\ Advance(e, [ch[e] EXCEPT !.next = "parse_log"])
    /\ UNCHANGED <<pc, decision, result, over, counters, made, denied, gateVars, execs,
                   from, tripped, failed>>

ParseLog(e) ==
    /\ At(e, "parse_log")
    /\ \/ /\ Advance(e, [ch[e] EXCEPT !.next = "diagnosis_agent"])
          /\ UNCHANGED <<pc, result, from, tripped, failed>>
       \/ Finish(e, ch[e], "parse_error")
    /\ UNCHANGED <<decision, over, counters, made, denied, gateVars, execs>>

Diagnose(e) ==
    /\ At(e, "diagnosis_agent")
    /\ \/ Answered(e, OrCostExhausted(ch[e], "supervisor_route"))
       \/ Trips(e, OrCostExhausted(Flagged(e), "supervisor_route"))
       \/ Raises(e)
    /\ UNCHANGED <<decision, counters, made, denied, gateVars, execs>>

Supervise(e) ==
    /\ At(e, "supervisor_route")
    /\ \/ \E f \in Fixers : Answered(e, RouteToSpecialist(ch[e], f))
       \/ \E f \in Fixers : Trips(e, RouteToSpecialist(Flagged(e), f))
       \/ Raises(e)
    /\ UNCHANGED <<decision, counters, made, denied, gateVars, execs>>

\* A specialist emits an artifact, which may contain something deny-listed.
Fix(e) ==
    /\ \E f \in Fixers : At(e, f)
    /\ \/ /\ made < MaxArtifacts
          /\ Answered(e, OrCostExhausted([ch[e] EXCEPT !.artifact = made + 1], "security_reviewer"))
          /\ made' = made + 1
          /\ denied' \in {denied, denied \cup {made + 1}}
       \/ /\ Trips(e, OrCostExhausted(Flagged(e), "security_reviewer")) \/ Raises(e)
          /\ UNCHANGED <<made, denied>>
    /\ UNCHANGED <<decision, counters, gateVars, execs>>

\* Mutated form of FinalVerdict: the deny-list does not override the LLM.
FinalVerdictOfLlm(a, v) == v

\* Mutated form of FinalVerdict: an unparsable answer yields no verdict instead
\* of CAUTION.
FinalVerdictUnparsed(a, v) == IF a \in denied THEN "HIGH_RISK" ELSE "none"

\* The deny-list overrides trump the LLM verdict.
FinalVerdict(a, v) == IF a \in denied THEN "HIGH_RISK" ELSE v

\* The reviewer's verdict v is recorded for the artifact.
Reviewed(e, v) ==
    LET a == ch[e].artifact
        x == [ch[e] EXCEPT !.verdict = FinalVerdict(a, v)]
    IN  /\ Advance(e, OrCostExhausted(x, "security_gate"))
        /\ reviews' = [reviews EXCEPT ![a] = @ \cup {FinalVerdict(a, v)}]
        /\ UNCHANGED <<pc, result, over, from, tripped, failed>>

\* The LLM's answer; content that is no JSON or has no valid verdict is CAUTION.
Judge(e) ==
    /\ ~over
    /\ \E v \in Verdicts :
          /\ Reviewed(e, v)
          /\ vouched' = IF v = "cleared" THEN vouched \cup {ch[e].artifact} ELSE vouched

\* A timeout or a provider error: there is no answer, and the artifact is HIGH_RISK.
HoldUnjudged(e) ==
    /\ Reviewed(e, "HIGH_RISK")
    /\ UNCHANGED vouched

Review(e) ==
    /\ At(e, "security_reviewer")
    /\ \/ Judge(e) \/ HoldUnjudged(e)
       \/ /\ Trips(e, OrCostExhausted(Flagged(e), "security_gate")) \/ Raises(e)
          /\ UNCHANGED <<reviews, vouched>>
    /\ UNCHANGED <<decision, counters, made, denied, asked, released, execs>>

\* interrupt(): no resume value, so the invocation suspends at the gate and a
\* human is asked.
Suspend(e) ==
    /\ ch[e].verdict = "HIGH_RISK" /\ ~pending[e]
    /\ asked' = asked \cup {ch[e].artifact}
    /\ Stop(e, "interrupted")
    /\ UNCHANGED <<saved, released>>

\* interrupt() returns the resume value, and the gate ignores what it says.
LetPass(e) ==
    /\ ch[e].verdict = "HIGH_RISK" /\ pending[e]
    /\ released' = [released EXCEPT ![ch[e].artifact] = @ \cup {decision[e]}]
    /\ Advance(e, [ch[e] EXCEPT !.next = "verifier_agent", !.approval = TRUE])
    /\ UNCHANGED <<pc, result, from, tripped, failed, asked>>

\* Any other verdict needs no approval.
PassFreely(e) ==
    /\ ch[e].verdict # "HIGH_RISK"
    /\ Advance(e, [ch[e] EXCEPT !.next = "verifier_agent", !.approval = FALSE])
    /\ UNCHANGED <<pc, result, from, tripped, failed, asked, released>>

\* Mutated form of SecurityGate: the gate only logs that approval is required.
SecurityGateLogOnly(e) ==
    /\ At(e, "security_gate")
    /\ Advance(e, [ch[e] EXCEPT !.next = "verifier_agent",
                                !.approval = (ch[e].verdict = "HIGH_RISK")])
    /\ UNCHANGED <<pc, result, asked, released, decision, over, counters, made, denied,
                   reviews, vouched, execs, from, tripped, failed>>

\* Mutated form of SecurityGate: interrupt() is called again after the resume.
SecurityGateAsksAgain(e) ==
    /\ At(e, "security_gate")
    /\ \/ /\ ch[e].verdict = "HIGH_RISK"
          /\ asked' = asked \cup {ch[e].artifact}
          /\ Stop(e, "interrupted")
          /\ UNCHANGED <<saved, released>>
       \/ PassFreely(e)
    /\ UNCHANGED <<decision, over, counters, made, denied, reviews, vouched, execs>>

\* Mutated form of SecurityGate: it blocks its thread until there is an answer.
SecurityGateBlocks(e) ==
    /\ At(e, "security_gate")
    /\ LetPass(e) \/ PassFreely(e)
    /\ UNCHANGED <<decision, over, counters, made, denied, reviews, vouched, execs>>

SecurityGate(e) ==
    /\ At(e, "security_gate")
    /\ Suspend(e) \/ LetPass(e) \/ PassFreely(e)
    /\ UNCHANGED <<decision, over, counters, made, denied, reviews, vouched, execs>>

\* The Verifier starts on the artifact.  The checkpoint still has verifier_agent
\* to run.
Verify(e) ==
    /\ At(e, "verifier_agent")
    /\ pc' = [pc EXCEPT ![e] = "verifying"]
    /\ execs' = [a \in Artifacts |-> IF a = ch[e].artifact THEN execs[a] + 1 ELSE execs[a]]
    /\ UNCHANGED <<saved, ch, decision, pending, result, over, counters, made, denied,
                   gateVars, from, tripped, failed>>

\* compile() raises something else than SyntaxError over the text of the artifact, before
\* the Verifier has a container.
Unverifiable(e) ==
    /\ At(e, "verifier_agent")
    /\ Raises(e)
    /\ UNCHANGED <<decision, counters, made, denied, gateVars, execs>>

\* Mutated form of Verified: the edge leads back to the Verifier.
VerifiedAgain(e) ==
    /\ pc[e] = "verifying"
    /\ pc' = [pc EXCEPT ![e] = "running"]
    /\ Advance(e, [ch[e] EXCEPT !.next = "verifier_agent"])
    /\ UNCHANGED <<decision, result, over, counters, made, denied, gateVars, execs,
                   from, tripped, failed>>

\* The Verifier returns a result or an error; no edge looks at either.
Verified(e) ==
    /\ pc[e] = "verifying"
    /\ pc' = [pc EXCEPT ![e] = "running"]
    /\ Advance(e, [ch[e] EXCEPT !.next = "format_report"])
    /\ UNCHANGED <<decision, result, over, counters, made, denied, gateVars, execs,
                   from, tripped, failed>>

FormatReport(e) ==
    /\ At(e, "format_report")
    /\ Finish(e, [ch[e] EXCEPT !.report = TRUE], "completed")
    /\ UNCHANGED <<decision, over, counters, made, denied, gateVars, execs>>

CostExhausted(e) ==
    /\ At(e, "cost_exhausted")
    /\ Finish(e, ch[e], "cost_exhausted")
    /\ UNCHANGED <<decision, over, counters, made, denied, gateVars, execs>>

\* PostgreSQL refuses the checkpoint that a returning node should leave, or the disk
\* refuses what format_report writes: the invocation raises, and whoever continues it
\* runs the node again.  What the node's LLM call was charged, stays charged.
Refused(e) ==
    /\ pc[e] \in {"running", "verifying"}
    /\ Durable \/ At(e, "format_report")
    /\ Stop(e, "refused")
    /\ UNCHANGED over \/ (ch[e].next \in LlmNodes /\ over' = TRUE)
    /\ UNCHANGED <<saved, decision, counters, made, denied, gateVars, execs>>

\* The invocation goes on: a node runs, and its checkpoint is accepted.
Proceeds(e) ==
    \/ Dispatch(e) \/ ParseLog(e) \/ Diagnose(e) \/ Supervise(e) \/ Fix(e) \/ Review(e)
    \/ SecurityGate(e) \/ Verify(e) \/ Unverifiable(e) \/ Verified(e)
    \/ FormatReport(e) \/ CostExhausted(e)

Node(e) == Proceeds(e) \/ Refused(e)

-----------------------------------------------------------------------------
(* The resume endpoint.                                                    *)

\* A request arrives with a decision.  It is answered 404 when the thread has no
\* checkpoint at all; whether anything is suspended is not asked.
ResumeRequest(r) ==
    /\ pc[r] = "idle"
    /\ resumes < MaxResumes
    /\ resumes' = resumes + 1
    /\ decision' \in {[decision EXCEPT ![r] = d] : d \in Decisions}
    /\ \/ /\ saved.next = "none"
          /\ result' = [result EXCEPT ![r] = "not_found"]
          /\ UNCHANGED pc
       \/ /\ saved.next # "none"
          /\ pc' = [pc EXCEPT ![r] = "checked"]
          /\ result' = [result EXCEPT ![r] = "none"]
    /\ UNCHANGED <<saved, ch, pending, over, runs, crashes, made, denied, gateVars, execs,
                   from, tripped, failed>>

\* Mutated form of Load: the resumed invocation starts the graph from the top.
LoadFromStart == [saved EXCEPT !.next = "diagnosis_agent"]

\* The checkpoint a resumed invocation continues from.
Load == saved

\* Later, in a thread: graph.invoke(Command(resume=...)) continues from the
\* checkpoint there is now.  A finished thread has nothing to run, and a database that
\* refuses to be read lets nothing run.
ResumeInvoke(r) ==
    /\ pc[r] = "checked"
    /\ \/ /\ saved.next = "END"
          /\ Stop(r, "no_op")
       \/ /\ Durable
          /\ Stop(r, "refused")
       \/ /\ saved.next # "END"
          /\ pc' = [pc EXCEPT ![r] = "running"]
          /\ ch' = [ch EXCEPT ![r] = Load]
          /\ pending' = [pending EXCEPT ![r] = TRUE]
          /\ from' = [from EXCEPT ![r] = saved.next]
          /\ UNCHANGED <<tripped, failed, result>>
    /\ UNCHANGED <<saved, decision, over, counters, made, denied, gateVars, execs>>

\* The process dies and is restarted.  The CostGuard starts from zero.
Crash ==
    /\ crashes < MaxCrashes
    /\ crashes' = crashes + 1
    /\ pc' = [e \in Execs |-> "idle"]
    /\ result' = [e \in Execs |-> IF pc[e] = "idle" THEN result[e] ELSE "killed"]
    /\ ch' = [e \in Execs |-> NoCheckpoint]
    /\ pending' = [e \in Execs |-> FALSE]
    /\ from' = [e \in Execs |-> "none"]
    /\ tripped' = [e \in Execs |-> FALSE]
    /\ over' = FALSE
    /\ UNCHANGED <<saved, decision, runs, resumes, made, denied, gateVars, execs, failed>>

Next ==
    \/ Submit
    \/ \E e \in Execs : Node(e)
    \/ \E r \in Resumers : ResumeRequest(r) \/ ResumeInvoke(r)
    \/ Crash

Spec == Init /\ [][Next]_vars

\* Every started invocation is run to its end: worker threads are scheduled,
\* LLM calls and containers time out.  Clients, refusals and crashes are not forced.
Scheduled(e) == WF_vars(Proceeds(e))
Served(r)    == WF_vars(ResumeInvoke(r))

FairSpec ==
    /\ Spec
    /\ \A e \in Execs : Scheduled(e)
    /\ \A r \in Resumers : Served(r)

-----------------------------------------------------------------------------
(* Properties.                                                             *)

\* The channel states a later node may start from.
Loaded == {saved} \cup {ch[e] : e \in Execs}

\* The security_verdict channel is always a verdict some review gave to the
\* very artifact in the fix_artifact channel: no verdict of an earlier artifact,
\* run or invocation is ever read by the gate.
VerdictBelongsToArtifact ==
    \A x \in Loaded : x.verdict # "none" =>
        x.artifact \in Artifacts /\ x.verdict \in reviews[x.artifact]

\* Constitution V: whichever invocation gets there, an artifact with a destructive
\* operation or a secret in it, whatever the LLM said of it, and one that no answer of
\* the LLM let through (it said HIGH_RISK, or timed out, or failed) reach the Verifier
\* only after a resume decision.
UnsafeNeedsResume ==
    \A a \in Artifacts : a \in denied \/ a \notin vouched =>
        (execs[a] > 0 => released[a] # {})

\* A report speaks of an artifact that was reviewed and handed to the Verifier, and
\* _security_section prints "executed after human approval" exactly for a HIGH_RISK
\* artifact that some resume decision released; the decision may have been "reject".
ReportIsBacked ==
    \A x \in Loaded : x.report =>
        /\ x.artifact \in Artifacts
        /\ execs[x.artifact] > 0
        /\ x.verdict \in reviews[x.artifact]
        /\ x.approval <=> (x.verdict = "HIGH_RISK")
        /\ x.approval => released[x.artifact] # {}

\* _guarded and the edges: wherever cost_exhausted is set, by this run or by an earlier
\* one of the thread, before a restart or after, nothing is fixed, reviewed, executed or
\* reported any more until a new run starts, and that one makes at most one LLM call.
SpentBudgetStopsTheFix ==
    \A x \in Loaded : x.exhausted =>
        /\ x.next \in {"dispatch", "parse_log", "diagnosis_agent", "cost_exhausted", "END"}
        /\ x.verdict = "none" /\ ~x.report

\* An artifact is handed to the Verifier at most once without a resume request,
\* and at most once more for each of them, crashes included.
ExecutionsCounted == \A a \in Artifacts : execs[a] <= 1 + resumes

\* resume_incident(): "The already-completed specialist nodes are NOT re-run".
\* An invocation resumed at the gate runs only what comes after it.
ResumeSkipsCompletedNodes ==
    \A r \in Resumers : pc[r] \in {"running", "verifying"} /\ from[r] = "security_gate" =>
        ch[r].next \in Gated

\* The pipeline implements the approval gate: its history, seen as facts about
\* artifacts, is a behaviour of ApprovalGate.
Promise == INSTANCE ApprovalGate WITH
    produced <- 1..made,
    cleared  <- {a \in Artifacts : reviews[a] \ {"HIGH_RISK"} # {}},
    held     <- {a \in Artifacts : "HIGH_RISK" \in reviews[a]},
    released <- {a \in Artifacts : released[a] # {}},
    executed <- {a \in Artifacts : execs[a] > 0}

ImplementsApprovalGate == Promise!Spec

\* What GraphRuns sees of the checkpoint and of an invocation.
SeenAt ==
    CASE saved.next = "none"   -> "none"
      [] saved.next = "END"    -> "ended"
      [] saved.next \in Gated  -> "gate"
      [] OTHER                 -> "running"

SeenStep(e) ==
    CASE pc[e] \in {"idle", "checked"} -> "idle"
      [] pc[e] \in {"running", "verifying"} /\ ch[e].next \in Gated -> "gate"
      [] OTHER -> "working"

\* The pipeline implements GraphRuns, what EventGateway takes it to do: however many
\* invocations move its checkpoint, only one that met the gate on its own suspends, one
\* that was resumed there reports, fails or dies, and from the gate on nobody aborts.
Seen == INSTANCE GraphRuns WITH
    at       <- SeenAt,
    step     <- [e \in Execs |-> SeenStep(e)],
    resumed  <- [e \in Execs |-> from[e] \in Gated],
    restarts <- crashes

ImplementsGraphRuns == Seen!Spec

\* No invocation waits for anything but its own turn: wherever it is, whatever the
\* other invocations did to the checkpoint and the budget, it has a next step.
NeverStuck ==
    /\ \A e \in Execs : pc[e] \in {"running", "verifying"} => ENABLED <<Proceeds(e)>>_vars
    /\ \A r \in Resumers : pc[r] = "checked" => ENABLED <<ResumeInvoke(r)>>_vars

\* Every invocation of the graph comes to an end: it completes, suspends at the
\* gate, aborts on the budget, raises, or dies with the process.
InvocationEnds == \A e \in Execs : pc[e] # "idle" ~> pc[e] = "idle"

\* A human's answer is enough: an incident resumed at the gate gets its report,
\* unless the process dies first, the database or the disk refuses, or compile() raises
\* over the artifact.  It is never asked about a second time.
AnsweredGateCompletes ==
    \A r \in Resumers :
        pc[r] = "running" /\ from[r] = "security_gate"
            ~> pc[r] = "idle" /\ result[r] \in {"completed", "refused", "raised", "killed"}

\* Constitution V and ResumeRequest.decision ("approve" | "reject"): a HIGH_RISK
\* fix nobody approved is not handed to the Verifier.
UnapprovedNotExecuted ==
    \A a \in asked : execs[a] > 0 /\ reviews[a] = {"HIGH_RISK"}
        => "approve" \in released[a]

\* resume_incident(): "404 when there is no suspended checkpoint for this
\* incident", so only artifacts a human was asked about are released.
OnlySuspendedReleased == \A a \in Artifacts : released[a] # {} => a \in asked

\* cost_exhausted_node: "Terminal node reached when an LLM-call agent trips the
\* CostGuard", so an invocation that ends there had a call that tripped it.
AbortedOnlyByOwnTrip ==
    \A e \in Execs : At(e, "cost_exhausted") /\ from[e] = "dispatch" => tripped[e]
=============================================================================
