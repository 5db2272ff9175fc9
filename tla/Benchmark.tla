------------------------------ MODULE Benchmark ------------------------------
(***************************************************************************)
(* The two benchmark runners: scripts/run_benchmark.py, with real or with  *)
(* mock clients, and the smoke runner of autosentinel/benchmark.py.  Each  *)
(* runs the graph for one scenario after another, answers the approval     *)
(* gate itself, and turns what came back, or did not, into one row and in  *)
(* the end into a summary.                                                 *)
(*                                                                         *)
(* Two states must not be confused: the channels of the graph, which are   *)
(* gone when an invocation raises, and the `result` the runner has, which  *)
(* is what the last invocation that returned had returned.                 *)
(***************************************************************************)
EXTENDS Integers, Sequences, FiniteSets, Functions

CONSTANTS
    Limit,          \* --budget
    MaxCost,        \* the most one LLM answer can cost
    MaxPrior,       \* bound: what the process had spent before the run
    MaxScenarios,   \* bound: scenario files
    Latencies       \* what the clock can measure for a scenario, in ms

ASSUME LimitAssumption   == Limit \in Nat /\ MaxCost \in Nat /\ MaxPrior \in Nat
ASSUME ScenarioBounds    == MaxScenarios \in Nat /\ Latencies \subseteq Nat

Runners   == {"real", "mock", "smoke"}
Verdicts  == {"cleared", "HIGH_RISK"}           \* "cleared": SAFE or CAUTION
Statuses  == {"success", "other", "none"}       \* execution_result.status; "none": no result
Scenarios == [security : BOOLEAN,               \* category is SECURITY
              high : BOOLEAN]                   \* expected_security_verdict is HIGH_RISK
Channels  == [verdict : Verdicts \cup {"none"}, exhausted : BOOLEAN,
              report : BOOLEAN, status : Statuses]
Rows      == [passed : BOOLEAN, cost : Nat, verdict : Verdicts \cup {"none"}]
Facts     == [verdict : Verdicts \cup {"none"}, asked : BOOLEAN, exit : Statuses]
LlmNodes  == {"diagnosis_agent", "supervisor_route", "specialist", "security_reviewer"}
Graph     == LlmNodes \cup {"parse_log", "security_gate", "verifier_agent", "format_report",
                            "cost_exhausted"}

VARIABLES
    runner,
    scenarios,  \* the scenario files, in order
    pc,
    spent,      \* total_spent of the CostGuard
    before,     \* cost_before
    ch,         \* the channels of the graph
    result,     \* what the runner has of the current scenario
    rows,       \* v2_results and v2_verdicts
    latencies,  \* the latency_ms of the rows; the clock is read into them, and
                \* nothing reads them before the summary
    summary,
    written,    \* how far writing the files came
    \* history
    charged,    \* what the answers of this run cost
    fact, facts,\* of each scenario: the reviewer's verdict, whether a human was
                \* asked, and what the sandbox did
    hidden      \* an invocation raised after its budget error

vars == <<runner, scenarios, pc, spent, before, ch, result, rows, latencies, summary,
          written, charged, fact, facts, hidden>>

Nothing   == [verdict |-> "none", exhausted |-> FALSE, report |-> FALSE, status |-> "none"]
NoFact    == [verdict |-> "none", asked |-> FALSE, exit |-> "none"]
NoSummary == [resolved |-> 0, total |-> 0, p50 |-> 0, p95 |-> 0, missed |-> {}]

TypeOK ==
    /\ runner \in Runners
    /\ scenarios \in Seq(Scenarios)
    /\ pc \in Graph \cup {"start", "loop", "record", "done", "aborted", "failed"}
    /\ spent \in Nat /\ before \in Nat /\ charged \in Nat
    /\ ch \in Channels /\ result \in Channels
    /\ rows \in Seq(Rows) /\ Len(rows) <= Len(scenarios)
    /\ latencies \in Seq(Latencies)
    /\ summary.missed \subseteq DOMAIN scenarios     \* for its numbers see SummaryAddsUp
    /\ written \in {"nothing", "results", "summary"}
    /\ fact \in Facts /\ facts \in Seq(Facts) /\ Len(facts) = Len(rows)
    /\ hidden \in BOOLEAN

Init ==
    /\ runner \in Runners
    /\ \E n \in 0..MaxScenarios : scenarios \in [1..n -> Scenarios]
    /\ pc = "start"
    /\ spent \in 0..MaxPrior
    /\ before = 0 /\ charged = 0
    /\ ch = Nothing /\ result = Nothing
    /\ rows = <<>> /\ latencies = <<>>
    /\ summary = NoSummary /\ written = "nothing"
    /\ fact = NoFact /\ facts = <<>> /\ hidden = FALSE

Scenario == scenarios[Len(rows) + 1]

\* The graph goes on with channels x at the next node.
Step(x, node) == ch' = x /\ pc' = node

\* graph.invoke() returns: both runners keep the channels.
Return == result' = ch /\ pc' = "record" /\ UNCHANGED ch

\* Mutated form of Fresh: the guard of earlier runs is kept.
FreshKept == spent

\* Only the full runner drops the singleton, so that the guard reads --budget.
Fresh == IF runner = "smoke" THEN spent ELSE 0

\* The scenario files are loaded; one that is malformed ends the run.
Start ==
    /\ pc = "start"
    /\ spent' = Fresh
    /\ pc' \in {"loop", "failed"}
    /\ UNCHANGED <<runner, scenarios, before, ch, result, rows, latencies, summary, written,
                   charged, fact, facts, hidden>>

\* Mutated form of Begin: the result of the scenario before is still there.
BeginWithStaleResult ==
    /\ pc = "loop" /\ Len(rows) < Len(scenarios)
    /\ before' = spent
    /\ ch' = Nothing /\ fact' = NoFact
    /\ pc' = "parse_log"
    /\ UNCHANGED <<runner, scenarios, spent, result, rows, latencies, summary, written, charged,
                   facts, hidden>>

\* The next scenario.  The graph is built outside of the full runner's try, and
\* inside of the smoke runner's.
Begin ==
    /\ pc = "loop" /\ Len(rows) < Len(scenarios)
    /\ before' = spent
    /\ ch' = Nothing /\ result' = Nothing /\ fact' = NoFact
    /\ pc' \in {"parse_log", IF runner = "smoke" THEN "record" ELSE "failed"}
    /\ UNCHANGED <<runner, scenarios, spent, rows, latencies, summary, written, charged, facts,
                   hidden>>

-----------------------------------------------------------------------------
(* The graph (see Pipeline), for one invocation at a time.                 *)

\* A log that cannot be parsed ends the graph.
ParseLog ==
    /\ pc = "parse_log"
    /\ \/ Step(ch, "diagnosis_agent") /\ UNCHANGED result
       \/ Return
    /\ UNCHANGED <<runner, scenarios, spent, before, rows, latencies, summary, written, charged,
                   fact, facts, hidden>>

\* A mock client answers for nothing.
Costs == IF runner = "mock" THEN {0} ELSE 0..MaxCost

\* An answer is charged, and raises CostGuardError once the total exceeds the limit.
Charge ==
    \E cost \in Costs : spent' = spent + cost /\ charged' = charged + cost

\* _guarded: the graph is diverted to its end.
Trip ==
    /\ pc \in LlmNodes
    /\ Charge /\ spent' > Limit /\ runner # "mock"
    /\ Step([ch EXCEPT !.exhausted = TRUE], "cost_exhausted")
    /\ UNCHANGED <<runner, scenarios, before, result, rows, latencies, summary, written, fact,
                   facts, hidden>>

\* The agents in front of the reviewer.
Answer ==
    /\ Charge /\ (spent' <= Limit \/ runner = "mock")
    /\ \/ pc = "diagnosis_agent" /\ Step(ch, "supervisor_route")
       \/ pc = "supervisor_route" /\ Step(ch, "specialist")
       \/ pc = "specialist" /\ Step(ch, "security_reviewer")
    /\ UNCHANGED <<runner, scenarios, before, result, rows, latencies, summary, written, fact,
                   facts, hidden>>

\* The verdicts of the LLM: the mock's is the scenario's label.
Opinions ==
    IF runner # "mock" THEN Verdicts
    ELSE {IF Scenario.high THEN "HIGH_RISK" ELSE "cleared"}

\* The LLM's verdict, or HIGH_RISK for what is deny-listed or could not be reviewed.
Review ==
    /\ pc = "security_reviewer"
    /\ \E v \in Opinions \cup {"HIGH_RISK"} :
           /\ Step([ch EXCEPT !.verdict = v], "security_gate")
           /\ fact' = [fact EXCEPT !.verdict = v]
    /\ \/ Charge /\ (spent' <= Limit \/ runner = "mock")
       \/ /\ runner # "mock" /\ ch'.verdict = "HIGH_RISK"   \* timeout, provider error
          /\ UNCHANGED <<spent, charged>>
    /\ UNCHANGED <<runner, scenarios, before, result, rows, latencies, summary, written, facts,
                   hidden>>

\* interrupt() makes the first invocation return, and the runner resumes it with
\* "approved".  The full runner has the first result in hand by then; the smoke
\* runner keeps it under another name.
Gate ==
    /\ pc = "security_gate"
    /\ \/ /\ ch.verdict = "HIGH_RISK"
          /\ result' = IF runner = "smoke" THEN result ELSE ch
          /\ fact' = [fact EXCEPT !.asked = TRUE]
       \/ ch.verdict # "HIGH_RISK" /\ UNCHANGED <<result, fact>>
    /\ Step(ch, "verifier_agent")
    /\ UNCHANGED <<runner, scenarios, spent, before, rows, latencies, summary, written, charged,
                   facts, hidden>>

\* The sandbox; a docker-level error leaves no execution_result.
Verify ==
    /\ pc = "verifier_agent"
    /\ \E s \in Statuses : /\ Step([ch EXCEPT !.status = s], "format_report")
                           /\ fact' = [fact EXCEPT !.exit = s]
    /\ UNCHANGED <<runner, scenarios, spent, before, result, rows, latencies, summary, written,
                   charged, facts, hidden>>

FormatReport ==
    /\ pc = "format_report"
    /\ ch' = [ch EXCEPT !.report = TRUE]
    /\ result' = ch' /\ pc' = "record"
    /\ UNCHANGED <<runner, scenarios, spent, before, rows, latencies, summary, written, charged,
                   fact, facts, hidden>>

CostExhausted ==
    /\ pc = "cost_exhausted"
    /\ Return
    /\ UNCHANGED <<runner, scenarios, spent, before, rows, latencies, summary, written, charged,
                   fact, facts, hidden>>

\* A node raises, or its checkpoint cannot be saved: the runner catches it and goes
\* on with the result it has.
Raise ==
    /\ pc \in Graph
    /\ pc' = "record"
    /\ hidden' = (hidden \/ ch.exhausted)
    /\ UNCHANGED <<runner, scenarios, spent, before, ch, result, rows, latencies, summary,
                   written, charged, fact, facts>>

-----------------------------------------------------------------------------
(* Rows and summary.                                                       *)

\* The tightened definition: a report, and a fix that succeeded in the sandbox.  The
\* full runner also asks for no execution_error, which a status excludes.
Resolved == result.report /\ result.status = "success"

\* The row of the scenario.
Row == [passed |-> Resolved, cost |-> spent - before, verdict |-> result.verdict]

AppendRow ==
    /\ rows' = Append(rows, Row)
    /\ facts' = Append(facts, fact)
    /\ pc' = "loop"

\* Mutated form of Record: the row of the scenario is recorded twice.
RecordTwice ==
    /\ pc = "record"
    /\ rows' = rows \o <<Row, Row>> /\ facts' = facts \o <<fact, fact>>
    /\ pc' = "loop"
    /\ UNCHANGED <<runner, scenarios, spent, before, ch, result, latencies, summary, written,
                   charged, fact, hidden>>

\* A budget that tripped ends a full run with CostGuardError; the smoke runner goes
\* on, and its later scenarios trip as well.
Record ==
    /\ pc = "record"
    /\ IF result.exhausted /\ runner # "smoke"
       THEN pc' = "aborted" /\ UNCHANGED <<rows, facts>>
       ELSE AppendRow
    /\ UNCHANGED <<runner, scenarios, spent, before, ch, result, latencies, summary, written,
                   charged, fact, hidden>>

\* The sum of the first k costs.
Total(k) == LET sum[i \in 0..k] == IF i = 0 THEN 0 ELSE sum[i - 1] + rows[i].cost
            IN  sum[k]

\* sorted(): the same values, in order.
Sorted(s) ==
    LET order == CHOOSE p \in Bijection(DOMAIN s, DOMAIN s) :
                     \A i, j \in DOMAIN s : i <= j => s[p[i]] <= s[p[j]]
    IN  [i \in DOMAIN s |-> s[order[i]]]

\* x * num / 100 rounded to the nearest integer, so that a tie makes base + it even.
Rounded(base, x, num) ==
    LET q == (x * num) \div 100
        r == (x * num) % 100
    IN  IF r > 50 \/ (r = 50 /\ (base + q) % 2 = 1) THEN q + 1 ELSE q

\* Linear interpolation between two neighbours of a sorted sequence.
Interpolated(s, pct) ==
    LET k  == (Len(s) - 1) * pct
        lo == k \div 100 + 1
        hi == IF lo < Len(s) THEN lo + 1 ELSE Len(s)
    IN  s[lo] + Rounded(s[lo], s[hi] - s[lo], k % 100)

\* Mutated form of Percentile: the values are not sorted.
PercentileUnsorted(s, pct) == IF s = <<>> THEN 0 ELSE Interpolated(s, pct)

\* _percentile().
Percentile(s, pct) == IF s = <<>> THEN 0 ELSE Interpolated(Sorted(s), pct)

\* Mutated form of Missed: a scenario without a verdict is not counted.
MissedOnlyJudged ==
    {i \in DOMAIN rows : /\ scenarios[i].security /\ scenarios[i].high
                         /\ rows[i].verdict = "cleared"}

\* The false negatives of SC-013: no HIGH_RISK verdict, whatever the reason.
Missed ==
    {i \in DOMAIN rows : /\ scenarios[i].security /\ scenarios[i].high
                         /\ rows[i].verdict # "HIGH_RISK"}

Passed == Cardinality({i \in DOMAIN rows : rows[i].passed})

\* The summary, of which the smoke runner has only the resolutions.
Summarise ==
    IF runner = "smoke"
    THEN summary' = [NoSummary EXCEPT !.resolved = Passed]
    ELSE summary' = [resolved |-> Passed, total |-> Total(Len(rows)),
                     p50 |-> Percentile(latencies', 50), p95 |-> Percentile(latencies', 95),
                     missed |-> Missed]

\* Every scenario has its row: the files are written, or as much of them as goes.
\* The smoke runner divides by the number of scenarios.
Finish ==
    /\ pc = "loop" /\ Len(rows) = Len(scenarios)
    /\ latencies' \in [1..Len(rows) -> Latencies]
    /\ IF runner = "smoke" /\ rows = <<>>
       THEN pc' = "failed" /\ UNCHANGED <<summary, written>>
       ELSE /\ Summarise
            /\ written' \in IF runner = "smoke" THEN {"nothing", "summary"}
                            ELSE {"nothing", "results", "summary"}
            /\ pc' = IF written' = "summary" THEN "done" ELSE "failed"
    /\ UNCHANGED <<runner, scenarios, spent, before, ch, result, rows, charged, fact, facts,
                   hidden>>

Next ==
    \/ Start \/ Begin
    \/ ParseLog \/ Answer \/ Trip \/ Review \/ Gate \/ Verify \/ FormatReport
    \/ CostExhausted \/ Raise
    \/ Record \/ Finish

Spec == Init /\ [][Next]_vars

-----------------------------------------------------------------------------
(* Properties.                                                             *)

Full == runner # "smoke"

\* FR-519: a full run aborts only when what it spent itself exceeds the budget, and it
\* cannot come to a summary then, unless the invocation that went over raised before it
\* could return.
BudgetDecides ==
    Full => /\ pc = "aborted" => charged > Limit
            /\ pc = "done" /\ charged > Limit => hidden

\* 006 data-model.md, section 3: a scenario passes only when its own fix succeeded in
\* the sandbox, and not before a human was asked about one that is HIGH_RISK; what is
\* left of another scenario, or of the first of two invocations, does not count.
PassedIsVerified ==
    \A i \in DOMAIN rows :
        rows[i].passed => /\ facts[i].exit = "success"
                          /\ facts[i].verdict = "HIGH_RISK" => facts[i].asked

\* SC-013: no SECURITY scenario that is HIGH_RISK and was let through is missing from
\* the false negatives, whatever failed afterwards; and none that a human was asked
\* about is counted among them.
NoFalseNegativeMissed ==
    Full /\ written = "summary" =>
        \A i \in DOMAIN scenarios :
            scenarios[i].security /\ scenarios[i].high =>
                /\ facts[i].verdict = "cleared" => i \in summary.missed
                /\ facts[i].asked => i \notin summary.missed

\* cost-guard.md: the total is the sum of what the calls cost, each in the row of its
\* scenario.  The percentiles are in order, and between the fastest and the slowest.
SummaryAddsUp ==
    Full /\ written = "summary" =>
        /\ summary.total = charged
        /\ rows # <<>> => /\ summary.p50 <= summary.p95
                          /\ \E i \in DOMAIN latencies : latencies[i] <= summary.p50
                          /\ \E i \in DOMAIN latencies : summary.p95 <= latencies[i]
=============================================================================
