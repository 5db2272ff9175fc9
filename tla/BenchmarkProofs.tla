--------------------------- MODULE BenchmarkProofs ---------------------------
(***************************************************************************)
(* Proofs about Benchmark, for any budget, prices, number of scenarios and *)
(* latencies: type correctness, that a passed scenario was verified, that  *)
(* no false negative is missed, that the budget decides whether a full run *)
(* aborts, and that the numbers of a summary are right: its total is what  *)
(* the calls cost, and its percentiles are in order.                       *)
(***************************************************************************)
EXTENDS Benchmark, Induction

-----------------------------------------------------------------------------
(* The inductive invariant.                                                *)

Early == LlmNodes \cup {"parse_log", "security_gate"}    \* before the gate has decided

\* How the channels, the runner's result and what really happened agree.
FactOK ==
    /\ pc \in Graph => ch.verdict = fact.verdict /\ ch.status = fact.exit /\ result.status = "none"
    /\ pc \in Early => result.verdict = "none" /\ ~fact.asked /\ fact.exit = "none"
    /\ result.status = "success" => fact.exit = "success"
    /\ result.verdict \in {"none", fact.verdict}
    /\ fact.asked => fact.verdict = "HIGH_RISK"
    /\ fact.exit # "none" \/ pc \in {"verifier_agent", "format_report"} =>
           (fact.verdict = "HIGH_RISK" => fact.asked)
    /\ Full /\ fact.asked => result.verdict = "HIGH_RISK"

\* The same of the rows.
RowsOK ==
    \A i \in 1..Len(rows) :
        /\ rows[i].passed => facts[i].exit = "success" /\ (facts[i].verdict = "HIGH_RISK" => facts[i].asked)
        /\ rows[i].verdict \in {"none", facts[i].verdict}
        /\ Full /\ facts[i].asked => rows[i].verdict = "HIGH_RISK"

SummaryOK ==
    written = "summary" => /\ pc = "done" /\ Len(rows) = Len(scenarios)
                           /\ Full => summary.missed = Missed

\* Who is over the budget is on the way to abort, or has hidden it.
BudgetOK ==
    Full =>
        /\ IF pc = "start" THEN charged = 0 ELSE spent = charged
        /\ charged > Limit =>
               \/ hidden
               \/ pc = "cost_exhausted" /\ ch.exhausted
               \/ pc = "record" /\ result.exhausted
               \/ pc = "aborted"
        /\ pc \in Graph /\ ch.exhausted => charged > Limit
        /\ result.exhausted => charged > Limit
        /\ pc = "aborted" => charged > Limit

\* The costs of the rows are not negative, and the next row has a scenario.
Counted ==
    /\ before <= spent
    /\ pc = "start" => before = 0
    /\ pc \in Graph \cup {"record"} => Len(rows) < Len(scenarios)

\* The rows add up to what was spent before the scenario that is running.
TallyOK ==
    Full =>
        /\ pc = "start" => rows = <<>>
        /\ pc = "loop" => Total(Len(rows)) = spent
        /\ pc \in Graph \cup {"record"} => Total(Len(rows)) = before
        /\ written = "summary" => /\ summary.total = charged
                                 /\ summary.p50 = Percentile(latencies, 50)
                                 /\ summary.p95 = Percentile(latencies, 95)
                                 /\ Len(latencies) = Len(rows)

IInv == TypeOK /\ Counted /\ FactOK /\ RowsOK /\ SummaryOK /\ BudgetOK /\ TallyOK

-----------------------------------------------------------------------------
(* Type correctness.                                                       *)

\* What a charge does to the counters.
LEMMA ChargeAdds ==
  ASSUME spent \in Nat, charged \in Nat, Charge
  PROVE  /\ spent' \in Nat /\ charged' \in Nat
         /\ \E cost \in Nat : /\ spent' = spent + cost /\ charged' = charged + cost
                              /\ runner = "mock" => cost = 0
<1>1. PICK cost \in Costs : spent' = spent + cost /\ charged' = charged + cost
  BY DEF Charge
<1>2. cost \in Nat /\ (runner = "mock" => cost = 0)
  BY LimitAssumption DEF Costs
<1>. QED BY <1>1, <1>2

LEMMA RowType ==
  ASSUME TypeOK, Counted
  PROVE  Row \in Rows
BY DEF TypeOK, Counted, Row, Rows, Resolved, Channels

LEMMA TypeStep == TypeOK /\ Counted /\ [Next]_vars => TypeOK'
<1> SUFFICES ASSUME TypeOK, Counted, [Next]_vars PROVE TypeOK'
  OBVIOUS
<1>0. /\ Nothing \in Channels /\ NoFact \in Facts
      /\ spent \in Nat /\ charged \in Nat /\ before \in Nat
  BY DEF Nothing, NoFact, Channels, Facts, TypeOK, Statuses
<1>1. CASE Start
  <2>1. spent' \in Nat
    BY <1>0, <1>1 DEF Start, Fresh
  <2>. QED BY <1>1, <2>1 DEF TypeOK, Start
<1>2. CASE Begin
  BY <1>0, <1>2 DEF TypeOK, Begin, Graph
<1>3. CASE ParseLog
  BY <1>3 DEF TypeOK, ParseLog, Step, Return, Graph, LlmNodes
<1>4. CASE Answer
  <2>1. spent' \in Nat /\ charged' \in Nat
    BY <1>0, <1>4, ChargeAdds DEF Answer
  <2>2. ch' = ch /\ pc' \in Graph
    BY <1>4 DEF Answer, Step, Graph, LlmNodes
  <2>. QED BY <1>4, <2>1, <2>2 DEF TypeOK, Answer
<1>5. CASE Trip
  <2>1. spent' \in Nat /\ charged' \in Nat
    BY <1>0, <1>5, ChargeAdds DEF Trip
  <2>2. ch' \in Channels /\ pc' \in Graph
    BY <1>5 DEF TypeOK, Trip, Step, Graph, Channels
  <2>. QED BY <1>5, <2>1, <2>2 DEF TypeOK, Trip
<1>6. CASE Review
  <2>1. spent' \in Nat /\ charged' \in Nat
    BY <1>0, <1>6, ChargeAdds DEF Review
  <2>2. PICK v \in Opinions \cup {"HIGH_RISK"} :
          ch' = [ch EXCEPT !.verdict = v] /\ pc' = "security_gate" /\ fact' = [fact EXCEPT !.verdict = v]
    BY <1>6 DEF Review, Step
  <2>3. v \in Verdicts
    BY DEF Opinions, Verdicts
  <2>4. ch' \in Channels /\ fact' \in Facts
    BY <2>2, <2>3 DEF TypeOK, Channels, Facts
  <2>. QED BY <1>6, <2>1, <2>2, <2>4 DEF TypeOK, Review, Graph
<1>7. CASE Gate
  <2>1. result' \in Channels /\ fact' \in Facts
    BY <1>7 DEF TypeOK, Gate, Facts
  <2>. QED BY <1>7, <2>1 DEF TypeOK, Gate, Step, Graph
<1>8. CASE Verify
  <2>1. ch' \in Channels /\ fact' \in Facts
    BY <1>8 DEF TypeOK, Verify, Step, Channels, Facts
  <2>. QED BY <1>8, <2>1 DEF TypeOK, Verify, Step, Graph
<1>9. CASE FormatReport
  <2>1. ch' \in Channels
    BY <1>9 DEF TypeOK, FormatReport, Channels
  <2>. QED BY <1>9, <2>1 DEF TypeOK, FormatReport
<1>10. CASE CostExhausted \/ Raise
  BY <1>10 DEF TypeOK, CostExhausted, Raise, Return
<1>11. CASE Record
  <2>1. CASE result.exhausted /\ runner # "smoke"
    BY <1>11, <2>1 DEF TypeOK, Record
  <2>2. CASE ~(result.exhausted /\ runner # "smoke")
    <3>1. rows' = Append(rows, Row) /\ facts' = Append(facts, fact) /\ pc' = "loop"
      BY <1>11, <2>2 DEF Record, AppendRow
    <3>2. rows' \in Seq(Rows) /\ Len(rows') = Len(rows) + 1
      BY <3>1, RowType DEF TypeOK
    <3>3. facts' \in Seq(Facts) /\ Len(facts') = Len(facts) + 1
      BY <3>1 DEF TypeOK
    <3>4. Len(rows) < Len(scenarios)
      BY <1>11 DEF Record, Counted
    <3>. QED BY <1>11, <3>1, <3>2, <3>3, <3>4 DEF TypeOK, Record
  <2>. QED BY <2>1, <2>2
<1>12. CASE Finish
  <2>0. latencies' \in [1..Len(rows) -> Latencies] /\ Len(rows) \in Nat
    BY <1>12 DEF TypeOK, Finish
  <2>1. latencies' \in Seq(Latencies) /\ pc' \in {"done", "failed"}
    BY <1>12, <2>0 DEF Finish
  <2>2. /\ written' \in {"nothing", "results", "summary"}
        /\ UNCHANGED <<runner, scenarios, spent, before, ch, result, rows, charged, fact, facts, hidden>>
    BY <1>12 DEF TypeOK, Finish
  <2>3. summary'.missed \subseteq DOMAIN scenarios
    BY <1>12 DEF TypeOK, Finish, Summarise, Missed, NoSummary
  <2>. QED BY <2>1, <2>2, <2>3 DEF TypeOK
<1>13. CASE UNCHANGED vars
  BY <1>13 DEF TypeOK, vars
<1>. QED
  BY <1>1, <1>2, <1>3, <1>4, <1>5, <1>6, <1>7, <1>8, <1>9, <1>10, <1>11, <1>12, <1>13 DEF Next

LEMMA CountedStep == TypeOK /\ Counted /\ [Next]_vars => Counted'
<1> SUFFICES ASSUME TypeOK, Counted, [Next]_vars PROVE Counted'
  OBVIOUS
<1>0. spent \in Nat /\ charged \in Nat /\ before \in Nat
  BY DEF TypeOK
<1>1. CASE Start
  BY <1>0, <1>1 DEF Counted, Start, Fresh, Graph, LlmNodes
<1>2. CASE Begin
  BY <1>0, <1>2 DEF Counted, Begin, Graph, LlmNodes
<1>3. CASE Answer \/ Trip \/ Review
  <2>1. pc \in Graph /\ pc' \in Graph /\ UNCHANGED <<before, rows, scenarios>>
    BY <1>3 DEF Answer, Trip, Review, Step, Graph, LlmNodes
  <2>2. spent' >= spent
    BY <1>0, <1>3, ChargeAdds DEF Answer, Trip, Review
  <2>3. spent' \in Nat
    BY <1>0, <1>3, ChargeAdds DEF Answer, Trip, Review
  <2>. QED BY <1>0, <2>1, <2>2, <2>3 DEF Counted, Graph, LlmNodes
<1>4. CASE ParseLog \/ Gate \/ Verify \/ FormatReport \/ CostExhausted \/ Raise
  <2>1. /\ pc \in Graph /\ pc' \in Graph \cup {"record"}
        /\ UNCHANGED <<before, spent, rows, scenarios>>
    BY <1>4 DEF ParseLog, Gate, Verify, FormatReport, CostExhausted, Raise, Step, Return, Graph, LlmNodes
  <2>. QED BY <2>1 DEF Counted, Graph, LlmNodes
<1>5. CASE Record \/ Finish
  <2>1. pc' \in {"loop", "aborted", "done", "failed"} /\ UNCHANGED <<before, spent>>
    BY <1>5 DEF Record, Finish, AppendRow
  <2>. QED BY <2>1 DEF Counted, Graph, LlmNodes
<1>6. CASE UNCHANGED vars
  BY <1>6 DEF Counted, vars
<1>. QED BY <1>1, <1>2, <1>3, <1>4, <1>5, <1>6 DEF Next

-----------------------------------------------------------------------------
(* Facts, rows and the summary.                                            *)

LEMMA FactStep == TypeOK /\ FactOK /\ [Next]_vars => FactOK'
<1> SUFFICES ASSUME TypeOK, FactOK, [Next]_vars PROVE FactOK'
  OBVIOUS
<1>1. CASE Start
  BY <1>1 DEF FactOK, Start, Full, Graph, Early, LlmNodes
<1>2. CASE Begin
  BY <1>2 DEF FactOK, Begin, Full, Nothing, NoFact, Graph, Early, LlmNodes
<1>3. CASE ParseLog
  BY <1>3 DEF FactOK, ParseLog, Step, Return, Full, Graph, Early, LlmNodes
<1>4. CASE Answer
  BY <1>4 DEF FactOK, Answer, Step, Full, Graph, Early, LlmNodes
<1>5. CASE Trip
  <2>1. ch'.verdict = ch.verdict /\ ch'.status = ch.status /\ pc' = "cost_exhausted"
    BY <1>5 DEF Trip, Step, TypeOK, Channels
  <2>. QED BY <1>5, <2>1 DEF FactOK, Trip, Full, Graph, Early, LlmNodes
<1>6. CASE Review
  <2>1. PICK v \in Opinions \cup {"HIGH_RISK"} :
          ch' = [ch EXCEPT !.verdict = v] /\ pc' = "security_gate" /\ fact' = [fact EXCEPT !.verdict = v]
    BY <1>6 DEF Review, Step
  <2>2. /\ ch'.verdict = v /\ ch'.status = ch.status
        /\ fact'.verdict = v /\ fact'.asked = fact.asked /\ fact'.exit = fact.exit
    BY <2>1 DEF TypeOK, Channels, Facts
  <2>3. pc = "security_reviewer" /\ UNCHANGED <<result, runner>>
    BY <1>6 DEF Review
  <2>. QED BY <2>1, <2>2, <2>3 DEF FactOK, Full, Graph, Early, LlmNodes
<1>7. CASE Gate
  <2>1. pc = "security_gate" /\ UNCHANGED <<runner, ch>> /\ pc' = "verifier_agent"
    BY <1>7 DEF Gate, Step
  <2>2. CASE ch.verdict = "HIGH_RISK"
    <3>1. /\ fact'.verdict = fact.verdict /\ fact'.asked = TRUE /\ fact'.exit = fact.exit
          /\ result' = IF runner = "smoke" THEN result ELSE ch
      BY <1>7, <2>2 DEF Gate, TypeOK, Facts
    <3>. QED BY <2>1, <2>2, <3>1 DEF FactOK, Full, Graph, Early, LlmNodes
  <2>3. CASE ch.verdict # "HIGH_RISK"
    BY <1>7, <2>1, <2>3 DEF FactOK, Gate, Full, Graph, Early, LlmNodes
  <2>. QED BY <2>2, <2>3
<1>8. CASE Verify
  <2>1. PICK s \in Statuses : /\ ch' = [ch EXCEPT !.status = s] /\ pc' = "format_report"
                              /\ fact' = [fact EXCEPT !.exit = s]
    BY <1>8 DEF Verify, Step
  <2>2. /\ ch'.verdict = ch.verdict /\ ch'.status = s
        /\ fact'.verdict = fact.verdict /\ fact'.asked = fact.asked /\ fact'.exit = s
    BY <2>1 DEF TypeOK, Channels, Facts
  <2>3. pc = "verifier_agent" /\ UNCHANGED <<result, runner>>
    BY <1>8 DEF Verify
  <2>. QED BY <2>1, <2>2, <2>3 DEF FactOK, Full, Graph, Early, LlmNodes
<1>9. CASE FormatReport
  <2>1. ch'.verdict = ch.verdict /\ ch'.status = ch.status /\ result' = ch' /\ pc' = "record"
    BY <1>9 DEF FormatReport, TypeOK, Channels
  <2>2. pc = "format_report" /\ UNCHANGED <<fact, runner>>
    BY <1>9 DEF FormatReport
  <2>. QED BY <2>1, <2>2 DEF FactOK, Full, Graph, Early, LlmNodes
<1>10. CASE CostExhausted
  BY <1>10 DEF FactOK, CostExhausted, Return, Full, Graph, Early, LlmNodes
<1>11. CASE Raise
  BY <1>11 DEF FactOK, Raise, Full, Graph, Early, LlmNodes
<1>12. CASE Record \/ Finish
  <2>1. pc' \in {"loop", "aborted", "done", "failed"} /\ UNCHANGED <<fact, result, runner>>
    BY <1>12 DEF Record, Finish, AppendRow
  <2>. QED BY <2>1 DEF FactOK, Full, Graph, Early, LlmNodes
<1>13. CASE UNCHANGED vars
  BY <1>13 DEF FactOK, vars, Full
<1>. QED
  BY <1>1, <1>2, <1>3, <1>4, <1>5, <1>6, <1>7, <1>8, <1>9, <1>10, <1>11, <1>12, <1>13 DEF Next

LEMMA RowsStep == TypeOK /\ FactOK /\ RowsOK /\ [Next]_vars => RowsOK'
<1> SUFFICES ASSUME TypeOK, FactOK, RowsOK, [Next]_vars PROVE RowsOK'
  OBVIOUS
<1>1. CASE UNCHANGED <<rows, facts, runner>>
  BY <1>1 DEF RowsOK, Full
<1>2. CASE rows' = Append(rows, Row) /\ facts' = Append(facts, fact) /\ UNCHANGED runner
  <2>1. /\ Len(rows) = Len(facts) /\ rows \in Seq(Rows) /\ facts \in Seq(Facts)
        /\ Len(rows') = Len(rows) + 1 /\ Len(rows) \in Nat
    BY <1>2 DEF TypeOK
  <2>2. ASSUME NEW i \in 1..Len(rows')
        PROVE  /\ rows'[i].passed => facts'[i].exit = "success"
                                      /\ (facts'[i].verdict = "HIGH_RISK" => facts'[i].asked)
               /\ rows'[i].verdict \in {"none", facts'[i].verdict}
               /\ Full /\ facts'[i].asked => rows'[i].verdict = "HIGH_RISK"
    <3>1. CASE i \in 1..Len(rows)
      <4>1. rows'[i] = rows[i] /\ facts'[i] = facts[i]
        BY <1>2, <2>1, <3>1
      <4>. QED BY <3>1, <4>1 DEF RowsOK
    <3>2. CASE i = Len(rows) + 1
      <4>1. rows'[i] = Row /\ facts'[i] = fact
        BY <1>2, <2>1, <3>2
      <4>2. Row.passed = Resolved /\ Row.verdict = result.verdict
        BY DEF Row
      <4>. QED BY <4>1, <4>2 DEF FactOK, Resolved
    <3>. QED BY <2>1, <2>2, <3>1, <3>2
  <2>3. Full' <=> Full
    BY <1>2 DEF Full
  <2>. QED BY <2>2, <2>3 DEF RowsOK
<1>3. Start \/ Begin \/ ParseLog \/ Answer \/ Trip \/ Review \/ Gate \/ Verify \/ FormatReport
      \/ CostExhausted \/ Raise \/ Finish \/ UNCHANGED vars => UNCHANGED <<rows, facts, runner>>
  BY DEF Start, Begin, ParseLog, Answer, Trip, Review, Gate, Verify, FormatReport, CostExhausted,
     Raise, Finish, vars
<1>4. CASE Record
  BY <1>1, <1>2, <1>4 DEF Record, AppendRow
<1>. QED BY <1>1, <1>3, <1>4 DEF Next

LEMMA SummaryStep == TypeOK /\ SummaryOK /\ [Next]_vars => SummaryOK'
<1> SUFFICES ASSUME TypeOK, SummaryOK, [Next]_vars PROVE SummaryOK'
  OBVIOUS
<1>1. CASE Finish
  <2>1. CASE written' = "summary" /\ written # "summary"
    <3>1. ~(runner = "smoke" /\ rows = <<>>)
      BY <1>1, <2>1 DEF Finish
    <3>2. Summarise /\ pc' = "done" /\ Len(rows) = Len(scenarios)
          /\ UNCHANGED <<rows, scenarios, runner>>
      BY <1>1, <2>1, <3>1 DEF Finish
    <3>3. Full => summary'.missed = Missed
      BY <3>2 DEF Summarise, Full
    <3>4. Missed' = Missed /\ (Full' <=> Full)
      BY <3>2 DEF Missed, Full
    <3>. QED BY <3>2, <3>3, <3>4 DEF SummaryOK
  <2>2. CASE written = "summary"
    BY <1>1, <2>2 DEF SummaryOK, Finish
  <2>. QED BY <2>1, <2>2 DEF SummaryOK
<1>2. CASE Start \/ Begin \/ ParseLog \/ Answer \/ Trip \/ Review \/ Gate \/ Verify \/ FormatReport
           \/ CostExhausted \/ Raise \/ Record
  <2>1. pc # "done" /\ UNCHANGED written
    BY <1>2 DEF Start, Begin, ParseLog, Answer, Trip, Review, Gate, Verify, FormatReport,
       CostExhausted, Raise, Record, Graph, LlmNodes
  <2>. QED BY <2>1 DEF SummaryOK
<1>3. CASE UNCHANGED vars
  BY <1>3 DEF SummaryOK, vars, Missed, Full
<1>. QED BY <1>1, <1>2, <1>3 DEF Next

-----------------------------------------------------------------------------
(* The budget.                                                             *)

LEMMA BudgetStep == TypeOK /\ BudgetOK /\ [Next]_vars => BudgetOK'
<1> SUFFICES ASSUME TypeOK, BudgetOK, [Next]_vars, Full PROVE BudgetOK'
  BY DEF BudgetOK, Full, Next, vars, Start, Begin, ParseLog, Answer, Trip, Review, Gate, Verify,
     FormatReport, CostExhausted, Raise, Record, Finish
<1>0. spent \in Nat /\ charged \in Nat /\ Limit \in Nat /\ hidden \in BOOLEAN
  BY LimitAssumption DEF TypeOK
<1>1. CASE Start
  BY <1>0, <1>1 DEF BudgetOK, Full, Start, Fresh, Graph, LlmNodes
<1>2. CASE Begin
  BY <1>0, <1>2 DEF BudgetOK, Full, Begin, Nothing, Graph, LlmNodes
<1>3. CASE ParseLog
  BY <1>0, <1>3 DEF BudgetOK, Full, ParseLog, Step, Return, Graph, LlmNodes
<1>4. CASE Answer
  <2>1. /\ pc \in LlmNodes /\ pc' \in LlmNodes /\ UNCHANGED <<ch, result, hidden, runner>>
        /\ Charge /\ (spent' <= Limit \/ runner = "mock")
    BY <1>4 DEF Answer, Step, LlmNodes
  <2>2. PICK cost \in Nat : /\ spent' = spent + cost /\ charged' = charged + cost
                            /\ runner = "mock" => cost = 0
    BY <1>0, <2>1, ChargeAdds
  <2>. QED BY <1>0, <2>1, <2>2 DEF BudgetOK, Full, Graph, LlmNodes
<1>5. CASE Trip
  <2>1. /\ pc \in LlmNodes /\ pc' = "cost_exhausted" /\ UNCHANGED <<result, hidden, runner>>
        /\ Charge /\ spent' > Limit /\ ch'.exhausted = TRUE
    BY <1>5 DEF Trip, Step, TypeOK, Channels
  <2>2. PICK cost \in Nat : spent' = spent + cost /\ charged' = charged + cost
    BY <1>0, <2>1, ChargeAdds
  <2>. QED BY <1>0, <2>1, <2>2 DEF BudgetOK, Full, Graph, LlmNodes
<1>6. CASE Review
  <2>1. /\ pc = "security_reviewer" /\ pc' = "security_gate" /\ UNCHANGED <<result, hidden, runner>>
        /\ ch'.exhausted = ch.exhausted
    BY <1>6 DEF Review, Step, TypeOK, Channels
  <2>2. CASE UNCHANGED <<spent, charged>>
    BY <1>0, <2>1, <2>2 DEF BudgetOK, Full, Graph, LlmNodes
  <2>3. CASE Charge /\ (spent' <= Limit \/ runner = "mock")
    <3>1. PICK cost \in Nat : /\ spent' = spent + cost /\ charged' = charged + cost
                              /\ runner = "mock" => cost = 0
      BY <1>0, <2>3, ChargeAdds
    <3>. QED BY <1>0, <2>1, <2>3, <3>1 DEF BudgetOK, Full, Graph, LlmNodes
  <2>. QED BY <1>6, <2>2, <2>3 DEF Review
<1>7. CASE Gate \/ Verify \/ FormatReport
  <2>1. /\ pc \in {"security_gate", "verifier_agent", "format_report"}
        /\ pc' \in {"verifier_agent", "format_report", "record"}
        /\ UNCHANGED <<spent, charged, hidden, runner>>
        /\ ch'.exhausted = ch.exhausted
    BY <1>7 DEF Gate, Verify, FormatReport, Step, TypeOK, Channels
  <2>2. result'.exhausted \in {result.exhausted, ch.exhausted}
    BY <1>7, <2>1 DEF Gate, Verify, FormatReport
  <2>. QED BY <1>0, <2>1, <2>2 DEF BudgetOK, Full, Graph, LlmNodes
<1>8. CASE CostExhausted
  BY <1>0, <1>8 DEF BudgetOK, Full, CostExhausted, Return, Graph, LlmNodes
<1>9. CASE Raise
  BY <1>0, <1>9 DEF BudgetOK, Full, Raise, Graph, LlmNodes
<1>10. CASE Record
  <2>1. /\ pc = "record" /\ pc' = IF result.exhausted THEN "aborted" ELSE "loop"
        /\ UNCHANGED <<spent, charged, hidden, runner, ch, result>>
    BY <1>10 DEF Record, AppendRow, Full
  <2>. QED BY <1>0, <2>1 DEF BudgetOK, Full, Graph, LlmNodes
<1>11. CASE Finish
  <2>1. /\ pc = "loop" /\ pc' \in {"done", "failed"}
        /\ UNCHANGED <<spent, charged, hidden, runner, ch, result>>
    BY <1>11 DEF Finish
  <2>. QED BY <1>0, <2>1 DEF BudgetOK, Full, Graph, LlmNodes
<1>12. CASE UNCHANGED vars
  BY <1>12 DEF BudgetOK, Full, vars
<1>. QED
  BY <1>1, <1>2, <1>3, <1>4, <1>5, <1>6, <1>7, <1>8, <1>9, <1>10, <1>11, <1>12 DEF Next

-----------------------------------------------------------------------------
(* Percentiles.                                                            *)

LEMMA TimesMonotone ==
  ASSUME NEW x \in Nat, NEW m \in Nat, NEW n \in Nat, m <= n
  PROVE  x * m <= x * n /\ x * m \in Nat /\ x * n \in Nat
OBVIOUS

\* Rounding a share of x stays between 0 and x, and a larger share is not less.
LEMMA RoundedInOrder ==
  ASSUME NEW base \in Nat, NEW x \in Nat, NEW m \in 0..99, NEW n \in 0..99, m <= n
  PROVE  /\ Rounded(base, x, m) \in Nat /\ Rounded(base, x, n) \in Nat
         /\ Rounded(base, x, m) <= Rounded(base, x, n)
         /\ Rounded(base, x, n) <= x
<1> DEFINE A == x * m
           B == x * n
<1>1. A \in Nat /\ B \in Nat /\ A <= B /\ B <= x * 99
  BY TimesMonotone
<1> HIDE DEF A, B
<1> DEFINE R(a) == IF a % 100 > 50 \/ (a % 100 = 50 /\ (base + (a \div 100)) % 2 = 1)
                   THEN (a \div 100) + 1 ELSE a \div 100
<1>2. R(A) \in Nat /\ R(B) \in Nat /\ R(A) <= R(B)
  BY <1>1
<1>3. R(B) <= x
  BY <1>1
<1>4. Rounded(base, x, m) = R(A) /\ Rounded(base, x, n) = R(B)
  BY DEF Rounded, A, B
<1>. QED BY <1>2, <1>3, <1>4

LEMMA RoundedBounded ==
  ASSUME NEW base \in Nat, NEW x \in Nat, NEW m \in 0..99
  PROVE  Rounded(base, x, m) \in Nat /\ Rounded(base, x, m) <= x
<1>1. m <= m
  OBVIOUS
<1>. QED BY <1>1, RoundedInOrder

\* Of a sorted sequence, a higher percentile is not less than a lower one, and both
\* are between its first and its last element.
THEOREM PercentilesAreInOrder ==
  ASSUME NEW s \in Seq(Nat), s # <<>>,
         \A i, j \in 1..Len(s) : i <= j => s[i] <= s[j],
         NEW p \in 0..100, NEW q \in 0..100, p <= q
  PROVE  /\ s[1] <= Interpolated(s, p)
         /\ Interpolated(s, p) <= Interpolated(s, q)
         /\ Interpolated(s, q) <= s[Len(s)]
<1> DEFINE N == Len(s) - 1
           Lo(k) == k \div 100 + 1
           Hi(k) == IF Lo(k) < Len(s) THEN Lo(k) + 1 ELSE Len(s)
           Share(k) == Rounded(s[Lo(k)], s[Hi(k)] - s[Lo(k)], k % 100)
           K == N * p
           L == N * q
<1>1. N \in Nat /\ Len(s) = N + 1
  OBVIOUS
<1>2. K \in Nat /\ L \in Nat /\ K <= L /\ L <= N * 100 /\ K <= N * 100
  <2> HIDE DEF N
  <2>1. p \in Nat /\ q \in Nat /\ p <= 100 /\ q <= 100
    OBVIOUS
  <2>2. N * p <= N * q /\ N * p \in Nat /\ N * q \in Nat
    BY <1>1, <2>1, TimesMonotone
  <2>3. N * q <= N * 100 /\ N * 100 \in Nat
    BY <1>1, <2>1, TimesMonotone
  <2>. QED BY <2>2, <2>3
<1>3. /\ Interpolated(s, p) = s[Lo(K)] + Share(K)
      /\ Interpolated(s, q) = s[Lo(L)] + Share(L)
  BY DEF Interpolated
<1> HIDE DEF K, L, N
<1>4. ASSUME NEW k \in Nat, k <= N * 100
      PROVE  /\ Lo(k) \in 1..Len(s) /\ Hi(k) \in 1..Len(s) /\ Lo(k) <= Hi(k)
             /\ k % 100 \in 0..99
  <2>1. Lo(k) \in 1..Len(s) /\ k % 100 \in 0..99
    BY <1>1, <1>4
  <2>. QED BY <1>1, <2>1
<1>5. Lo(K) <= Lo(L) /\ (Lo(K) = Lo(L) => K % 100 <= L % 100)
  BY <1>2
<1>6. Lo(K) < Lo(L) => Hi(K) <= Lo(L)
  BY <1>1, <1>2, <1>4
<1>7. Lo(K) = Lo(L) => Hi(K) = Hi(L)
  OBVIOUS
<1> HIDE DEF Lo, Hi
<1>8. ASSUME NEW k \in Nat, k <= N * 100
      PROVE  /\ s[Lo(k)] \in Nat /\ s[Hi(k)] \in Nat /\ s[Lo(k)] <= s[Hi(k)]
             /\ Share(k) \in Nat /\ s[Lo(k)] + Share(k) <= s[Hi(k)]
             /\ s[1] <= s[Lo(k)] /\ s[Hi(k)] <= s[Len(s)]
             /\ s[1] \in Nat /\ s[Len(s)] \in Nat
  <2>0. /\ 1 \in 1..Len(s) /\ Len(s) \in 1..Len(s) /\ Lo(k) \in 1..Len(s) /\ Hi(k) \in 1..Len(s)
        /\ 1 <= Lo(k) /\ Lo(k) <= Hi(k) /\ Hi(k) <= Len(s)
    BY <1>1, <1>4, <1>8
  <2>1. /\ s[Lo(k)] \in Nat /\ s[Hi(k)] \in Nat /\ s[Lo(k)] <= s[Hi(k)]
        /\ s[1] <= s[Lo(k)] /\ s[Hi(k)] <= s[Len(s)]
        /\ s[1] \in Nat /\ s[Len(s)] \in Nat
    BY <2>0
  <2>2. s[Hi(k)] - s[Lo(k)] \in Nat
    BY <2>1
  <2>3. Share(k) \in Nat /\ Share(k) <= s[Hi(k)] - s[Lo(k)]
    BY <1>4, <1>8, <2>1, <2>2, RoundedBounded
  <2>. QED BY <2>1, <2>3
<1>9. s[Lo(K)] + Share(K) <= s[Lo(L)] + Share(L)
  <2>1. CASE Lo(K) = Lo(L)
    <3>0. s[Lo(L)] \in Nat /\ s[Hi(L)] \in Nat /\ s[Lo(L)] <= s[Hi(L)]
      BY <1>2, <1>8
    <3>1. s[Lo(L)] \in Nat /\ s[Hi(L)] - s[Lo(L)] \in Nat
      BY <3>0
    <3>2. K % 100 \in 0..99 /\ L % 100 \in 0..99 /\ K % 100 <= L % 100
      BY <1>2, <1>4, <1>5, <2>1
    <3>3. Share(K) = Rounded(s[Lo(L)], s[Hi(L)] - s[Lo(L)], K % 100)
      BY <1>7, <2>1
    <3>4. Share(K) <= Share(L)
      <4>1. Share(L) = Rounded(s[Lo(L)], s[Hi(L)] - s[Lo(L)], L % 100)
        OBVIOUS
      <4>2. Rounded(s[Lo(L)], s[Hi(L)] - s[Lo(L)], K % 100)
              <= Rounded(s[Lo(L)], s[Hi(L)] - s[Lo(L)], L % 100)
        BY <3>1, <3>2, RoundedInOrder
      <4> HIDE DEF Share
      <4>. QED BY <3>3, <4>1, <4>2
    <3> HIDE DEF Share
    <3>5. Share(K) \in Nat /\ Share(L) \in Nat
      BY <1>2, <1>8
    <3>. QED BY <2>1, <3>1, <3>4, <3>5
  <2>2. CASE Lo(K) # Lo(L)
    <3>1. Lo(K) \in Nat /\ Lo(L) \in Nat
      BY <1>2, <1>4
    <3>2. Hi(K) <= Lo(L) /\ Hi(K) \in 1..Len(s) /\ Lo(L) \in 1..Len(s)
      BY <1>2, <1>4, <1>5, <1>6, <2>2, <3>1
    <3>3. s[Hi(K)] <= s[Lo(L)]
      BY <3>2
    <3> HIDE DEF Share
    <3>4. s[Hi(K)] \in Nat /\ s[Lo(K)] + Share(K) <= s[Hi(K)]
      BY <1>2, <1>8
    <3>5. s[Lo(K)] \in Nat /\ Share(K) \in Nat /\ s[Lo(L)] \in Nat /\ Share(L) \in Nat
      BY <1>2, <1>8
    <3>. QED BY <3>3, <3>4, <3>5
  <2>. QED BY <2>1, <2>2
<1> HIDE DEF Share
<1>10. s[1] <= s[Lo(K)] + Share(K) /\ s[Lo(L)] + Share(L) <= s[Len(s)]
  <2>1. s[1] <= s[Lo(K)] + Share(K)
    BY <1>2, <1>8
  <2>2. s[Lo(L)] + Share(L) <= s[Hi(L)] /\ s[Hi(L)] <= s[Len(s)]
    BY <1>2, <1>8
  <2>3. s[Lo(L)] + Share(L) \in Nat /\ s[Hi(L)] \in Nat /\ s[Len(s)] \in Nat
    BY <1>2, <1>8
  <2>. QED BY <2>1, <2>2, <2>3
<1>. QED BY <1>3, <1>9, <1>10

-----------------------------------------------------------------------------
(* Sums.                                                                   *)

\* s sums the costs of the first k rows of r: what Total chooses.
Sums(s, r, k) == s = [i \in 0..k |-> IF i = 0 THEN 0 ELSE s[i - 1] + r[i].cost]

SameUpTo(r, q, k) == \A i \in 1..k : q[i] = r[i]

SumOf(r, k) == (CHOOSE s : Sums(s, r, k))[k]

LEMMA TotalIsSum == ASSUME NEW k \in Nat PROVE Total(k) = SumOf(rows, k)
BY DEF Total, SumOf, Sums

LEMMA SumExists ==
  ASSUME NEW r, NEW k \in Nat
  PROVE  \E s : Sums(s, r, k)
<1> DEFINE S == {n \in Nat : \E s : Sums(s, r, n)}
<1>1. 0 \in S
  <2>1. Sums([i \in 0..0 |-> 0], r, 0)
    BY DEF Sums
  <2>. QED BY <2>1
<1>2. ASSUME NEW n \in S PROVE n + 1 \in S
  <2>1. PICK s : Sums(s, r, n)
    OBVIOUS
  <2> DEFINE t == [i \in 0..(n + 1) |-> IF i = n + 1 THEN s[n] + r[n + 1].cost ELSE s[i]]
  <2>2. ASSUME NEW i \in 0..(n + 1)
        PROVE  t[i] = IF i = 0 THEN 0 ELSE t[i - 1] + r[i].cost
    <3>1. CASE i = n + 1
      <4>1. i # 0 /\ n \in 0..(n + 1) /\ n # n + 1 /\ i - 1 = n
        BY <3>1
      <4>. QED BY <3>1, <4>1
    <3>2. CASE i # n + 1
      <4>1. i \in 0..n
        BY <3>2
      <4>2. s[i] = IF i = 0 THEN 0 ELSE s[i - 1] + r[i].cost
        BY <2>1, <4>1 DEF Sums
      <4>3. i # 0 => i - 1 \in 0..(n + 1) /\ i - 1 # n + 1
        BY <4>1
      <4>. QED BY <3>2, <4>2, <4>3
    <3>. QED BY <3>1, <3>2
  <2>3. Sums(t, r, n + 1)
    BY <2>2 DEF Sums
  <2>. QED BY <2>3
<1>3. S = Nat
  <2>1. S \in SUBSET Nat
    OBVIOUS
  <2> HIDE DEF S
  <2>. QED BY <1>1, <1>2, <2>1, SetInduction
<1>. QED BY <1>3

\* Where the rows agree, so do the sums, whichever of the functions is chosen.
LEMMA SumsAgree ==
  ASSUME NEW r, NEW q, NEW k \in Nat,
         NEW s, NEW t, Sums(s, r, k), Sums(t, q, k + 1), SameUpTo(r, q, k)
  PROVE  s[k] = t[k]
<1> DEFINE S == {i \in Nat : i <= k => s[i] = t[i]}
<1>1. /\ \A i \in 0..k : s[i] = IF i = 0 THEN 0 ELSE s[i - 1] + r[i].cost
      /\ \A i \in 0..(k + 1) : t[i] = IF i = 0 THEN 0 ELSE t[i - 1] + q[i].cost
      /\ \A i \in 1..k : q[i] = r[i]
  BY DEF Sums, SameUpTo
<1>2. 0 \in S
  BY <1>1
<1>3. ASSUME NEW i \in S PROVE i + 1 \in S
  <2>1. CASE i + 1 <= k
    <3>1. /\ i + 1 \in 0..k /\ i + 1 \in 0..(k + 1) /\ i + 1 \in 1..k
          /\ i + 1 # 0 /\ (i + 1) - 1 = i /\ s[i] = t[i]
      BY <2>1
    <3>2. s[i + 1] = s[i] + r[i + 1].cost /\ t[i + 1] = t[i] + q[i + 1].cost
      BY <1>1, <3>1
    <3>3. q[i + 1] = r[i + 1]
      BY <1>1, <3>1
    <3>4. s[i + 1] = t[i + 1]
      BY <3>1, <3>2, <3>3
    <3>. QED BY <3>4
  <2>. QED BY <2>1
<1>4. S = Nat
  <2>1. S \in SUBSET Nat
    OBVIOUS
  <2> HIDE DEF S
  <2>. QED BY <1>2, <1>3, <2>1, SetInduction
<1>. QED BY <1>4

LEMMA SumChosen ==
  ASSUME NEW r, NEW k \in Nat
  PROVE  Sums(CHOOSE s : Sums(s, r, k), r, k)
BY SumExists

\* No row costs nothing; one row more costs that row more.
LEMMA SumOfNothing == ASSUME NEW r PROVE SumOf(r, 0) = 0
<1>1. Sums(CHOOSE s : Sums(s, r, 0), r, 0)
  BY SumChosen
<1>. QED BY <1>1 DEF Sums, SumOf

LEMMA SumOfAppended ==
  ASSUME NEW r \in Seq(Rows), NEW x \in Rows
  PROVE  SumOf(Append(r, x), Len(r) + 1) = SumOf(r, Len(r)) + x.cost
<1> DEFINE n == Len(r)
           q == Append(r, x)
           s == CHOOSE f : Sums(f, r, n)
           t == CHOOSE f : Sums(f, q, n + 1)
<1>1. n \in Nat /\ n + 1 \in Nat /\ SameUpTo(r, q, n)
  BY DEF SameUpTo
<1>2. q[n + 1] = x
  OBVIOUS
<1> HIDE DEF n, q
<1>3. Sums(s, r, n) /\ Sums(t, q, n + 1)
  BY <1>1, SumChosen
<1> HIDE DEF s, t
<1>4. s[n] = t[n]
  BY <1>1, <1>3, SumsAgree
<1>5. t[n + 1] = t[n] + q[n + 1].cost
  <2>1. n + 1 \in 0..(n + 1) /\ n + 1 # 0 /\ (n + 1) - 1 = n
    BY <1>1
  <2>. QED BY <1>3, <2>1 DEF Sums
<1>6. SumOf(r, n) = s[n] /\ SumOf(q, n + 1) = t[n + 1]
  BY DEF SumOf, s, t
<1>. QED BY <1>2, <1>4, <1>5, <1>6 DEF n, q

LEMMA TallyStep == IInv /\ [Next]_vars => TallyOK'
<1> SUFFICES ASSUME IInv, [Next]_vars, Full PROVE TallyOK'
  BY DEF TallyOK, Full, Next, vars, Start, Begin, ParseLog, Answer, Trip, Review, Gate, Verify,
     FormatReport, CostExhausted, Raise, Record, Finish
<1>0. /\ spent \in Nat /\ charged \in Nat /\ before \in Nat
      /\ rows \in Seq(Rows) /\ Len(rows) \in Nat
      /\ TallyOK /\ SummaryOK /\ BudgetOK
  BY DEF IInv, TypeOK
<1>a. Total(Len(rows)) = SumOf(rows, Len(rows))
  BY <1>0, TotalIsSum
<1>b. Len(rows') \in Nat => Total(Len(rows))' = SumOf(rows', Len(rows'))
  BY DEF Total, SumOf, Sums
<1>c. UNCHANGED rows => Total(Len(rows))' = Total(Len(rows))
  BY <1>0, <1>a, <1>b
<1>d. pc # "done" => written # "summary"
  BY <1>0 DEF SummaryOK
<1>1. CASE Start
  <2>1. /\ pc = "start" /\ pc' \in {"loop", "failed"} /\ spent' = 0
        /\ UNCHANGED <<rows, written, runner>>
    BY <1>1 DEF Start, Fresh, Full
  <2>2. rows = <<>> /\ Len(rows) = 0
    BY <1>0, <2>1 DEF TallyOK
  <2>3. Total(Len(rows))' = 0
    BY <1>b, <2>1, <2>2, SumOfNothing
  <2>. QED BY <1>d, <2>1, <2>3 DEF TallyOK, Graph, LlmNodes
<1>2. CASE Begin
  <2>1. /\ pc = "loop" /\ pc' \in Graph \cup {"failed"} /\ before' = spent
        /\ UNCHANGED <<rows, written, runner>>
    BY <1>2 DEF Begin, Full, Graph
  <2>. QED BY <1>0, <1>c, <1>d, <2>1 DEF TallyOK, Graph, LlmNodes
<1>3. CASE \/ ParseLog \/ Answer \/ Trip \/ Review \/ Gate \/ Verify \/ FormatReport
           \/ CostExhausted \/ Raise
  <2>1. /\ pc \in Graph /\ pc' \in Graph \cup {"record"}
        /\ UNCHANGED <<rows, before, written, runner>>
    BY <1>3 DEF ParseLog, Answer, Trip, Review, Gate, Verify, FormatReport, CostExhausted, Raise,
       Step, Return, Graph, LlmNodes
  <2>. QED BY <1>0, <1>c, <1>d, <2>1 DEF TallyOK, Graph, LlmNodes
<1>4. CASE Record
  <2>1. /\ pc = "record" /\ UNCHANGED <<spent, before, written, runner>>
        /\ pc' = IF result.exhausted THEN "aborted" ELSE "loop"
    BY <1>4 DEF Record, AppendRow, Full
  <2>2. CASE result.exhausted
    BY <1>d, <2>1, <2>2 DEF TallyOK, Graph, LlmNodes
  <2>3. CASE ~result.exhausted
    <3>1. rows' = Append(rows, Row)
      BY <1>4, <2>3 DEF Record, AppendRow
    <3>2. Row \in Rows /\ Row.cost = spent - before
      BY RowType DEF IInv, Row
    <3>3. Len(rows') = Len(rows) + 1
      BY <1>0, <3>1
    <3>4. Total(Len(rows))' = Total(Len(rows)) + (spent - before)
      BY <1>0, <1>a, <1>b, <3>1, <3>2, <3>3, SumOfAppended
    <3>5. Total(Len(rows)) = before
      BY <1>0, <2>1 DEF TallyOK
    <3>6. Total(Len(rows))' = spent'
      BY <1>0, <2>1, <3>4, <3>5
    <3>. QED BY <1>d, <2>1, <2>3, <3>6 DEF TallyOK, Graph, LlmNodes
  <2>. QED BY <2>2, <2>3
<1>5. CASE Finish
  <2>1. /\ pc = "loop" /\ pc' \in {"done", "failed"} /\ Summarise
        /\ UNCHANGED <<rows, charged, spent, runner>>
        /\ latencies' \in [1..Len(rows) -> Latencies]
    BY <1>5 DEF Finish, Full
  <2>2. /\ summary'.total = Total(Len(rows))
        /\ summary'.p50 = Percentile(latencies', 50) /\ summary'.p95 = Percentile(latencies', 95)
    BY <2>1 DEF Summarise, Full
  <2>3. Total(Len(rows)) = charged
    BY <1>0, <2>1 DEF TallyOK, BudgetOK
  <2>4. Len(latencies') = Len(rows')
    BY <1>0, <2>1
  <2>. QED BY <2>1, <2>2, <2>3, <2>4 DEF TallyOK, Graph, LlmNodes
<1>6. CASE UNCHANGED vars
  BY <1>0, <1>c, <1>6 DEF TallyOK, vars, Full
<1>. QED BY <1>1, <1>2, <1>3, <1>4, <1>5, <1>6 DEF Next

-----------------------------------------------------------------------------
(* The theorems.                                                           *)

\* The percentiles of measurements in any order.
LEMMA PercentilesOfMeasurements ==
  ASSUME NEW s \in Seq(Nat), s # <<>>
  PROVE  /\ Percentile(s, 50) <= Percentile(s, 95)
         /\ \E i \in DOMAIN s : s[i] <= Percentile(s, 50)
         /\ \E i \in DOMAIN s : Percentile(s, 95) <= s[i]
<1> DEFINE D == 1..Len(s)
           InOrder(p) == \A i, j \in D : i <= j => s[p[i]] <= s[p[j]]
           order == CHOOSE p \in Bijection(D, D) : InOrder(p)
           t == [i \in D |-> s[order[i]]]
<1>1. Len(s) \in Nat /\ s \in [D -> Nat] /\ DOMAIN s = D /\ 1 \in D /\ Len(s) \in D
  OBVIOUS
<1>2. order \in Bijection(D, D) /\ InOrder(order)
  <2>1. \E p \in Bijection(D, D) : InOrder(p)
    BY <1>1, CanBeSorted
  <2> HIDE DEF InOrder
  <2>. QED BY <2>1
<1>3. order \in [D -> D]
  BY <1>2 DEF Bijection, Injection
<1>4. Sorted(s) = t
  BY <1>1 DEF Sorted
<1> HIDE DEF order
<1>5. t \in Seq(Nat) /\ Len(t) = Len(s) /\ t # <<>>
  BY <1>1, <1>3
<1>6. \A i, j \in 1..Len(t) : i <= j => t[i] <= t[j]
  BY <1>2, <1>5
<1>7. t[1] = s[order[1]] /\ t[Len(t)] = s[order[Len(s)]] /\ order[1] \in D /\ order[Len(s)] \in D
  BY <1>1, <1>3, <1>5
<1> HIDE DEF t, D
<1>8. /\ t[1] <= Interpolated(t, 50)
      /\ Interpolated(t, 50) <= Interpolated(t, 95)
      /\ Interpolated(t, 95) <= t[Len(t)]
  <2>1. 50 \in 0..100 /\ 95 \in 0..100 /\ 50 <= 95
    OBVIOUS
  <2>. QED BY <1>5, <1>6, <2>1, PercentilesAreInOrder
<1>9. Percentile(s, 50) = Interpolated(t, 50) /\ Percentile(s, 95) = Interpolated(t, 95)
  BY <1>4 DEF Percentile
<1>. QED BY <1>1, <1>7, <1>8, <1>9

LEMMA InitInv == Init => IInv
<1> SUFFICES ASSUME Init PROVE IInv
  OBVIOUS
<1> USE LimitAssumption, ScenarioBounds
<1>1. Nothing \in Channels /\ NoFact \in Facts
  BY DEF Nothing, NoFact, Channels, Facts, Statuses
<1>2. scenarios \in Seq(Scenarios)
  BY DEF Init
<1>3. spent \in Nat
  BY DEF Init
<1>4. TypeOK
  <2>1. ch \in Channels /\ result \in Channels /\ fact \in Facts
    BY <1>1 DEF Init
  <2>2. rows \in Seq(Rows) /\ Len(rows) <= Len(scenarios) /\ latencies \in Seq(Latencies)
        /\ facts \in Seq(Facts) /\ Len(facts) = Len(rows)
    BY <1>2 DEF Init
  <2>3. summary.missed \subseteq DOMAIN scenarios /\ written \in {"nothing", "results", "summary"}
    BY DEF Init, NoSummary
  <2>4. hidden \in BOOLEAN /\ runner \in Runners
    BY DEF Init
  <2>5. before \in Nat /\ charged \in Nat /\ pc = "start"
    BY DEF Init
  <2>. QED BY <1>2, <1>3, <2>1, <2>2, <2>3, <2>4, <2>5 DEF TypeOK
<1>5. Counted
  BY <1>3 DEF Init, Counted, Graph, LlmNodes
<1>6. FactOK
  BY DEF Init, FactOK, Nothing, NoFact, Graph, Early, LlmNodes
<1>7. RowsOK /\ SummaryOK
  BY DEF Init, RowsOK, SummaryOK
<1>8. BudgetOK
  BY DEF Init, BudgetOK, Nothing, Graph, LlmNodes
<1>9. TallyOK
  BY DEF Init, TallyOK, Graph, LlmNodes
<1>. QED BY <1>4, <1>5, <1>6, <1>7, <1>8, <1>9 DEF IInv

\* The invariant every other theorem here follows from.
THEOREM Inductive == Spec => []IInv
<1>1. IInv /\ [Next]_vars => IInv'
  BY TypeStep, CountedStep, FactStep, RowsStep, SummaryStep, BudgetStep, TallyStep DEF IInv
<1>. QED BY InitInv, <1>1, PTL DEF Spec

\* Channels, rows and facts keep their types, and no scenario has two rows.
THEOREM TypeCorrect == Spec => []TypeOK
<1>1. IInv => TypeOK
  BY DEF IInv
<1>. QED BY Inductive, <1>1, PTL

\* A full run aborts only for what it spent itself, and an overspent one comes to a
\* summary only if the invocation that went over raised.
THEOREM BudgetIsDecisive == Spec => []BudgetDecides
<1>1. IInv => BudgetDecides
  BY DEF IInv, BudgetOK, BudgetDecides
<1>. QED BY Inductive, <1>1, PTL

\* A scenario passes only when its own fix was allowed to run and succeeded.
THEOREM PassedWasVerified == Spec => []PassedIsVerified
<1>1. ASSUME IInv PROVE PassedIsVerified
  <2>1. DOMAIN rows = 1..Len(rows)
    BY <1>1 DEF IInv, TypeOK
  <2>. QED BY <1>1, <2>1 DEF IInv, RowsOK, PassedIsVerified
<1>. QED BY Inductive, <1>1, PTL

\* The false negatives of a summary are complete, for any number of scenarios and
\* whichever of their invocations raised.
THEOREM FalseNegativesAreCounted == Spec => []NoFalseNegativeMissed
<1>1. ASSUME IInv, Full, written = "summary", NEW i \in DOMAIN scenarios,
             scenarios[i].security, scenarios[i].high
      PROVE  /\ facts[i].verdict = "cleared" => i \in summary.missed
             /\ facts[i].asked => i \notin summary.missed
  <2>1. i \in DOMAIN rows /\ i \in 1..Len(rows) /\ summary.missed = Missed
    BY <1>1 DEF IInv, TypeOK, SummaryOK
  <2>2. /\ rows[i].verdict \in {"none", facts[i].verdict}
        /\ facts[i].asked => rows[i].verdict = "HIGH_RISK"
    BY <1>1, <2>1 DEF IInv, RowsOK
  <2>. QED BY <1>1, <2>1, <2>2 DEF Missed
<1>2. IInv => NoFalseNegativeMissed
  BY <1>1 DEF NoFalseNegativeMissed
<1>. QED BY Inductive, <1>2, PTL

\* The total of a summary is the sum of what the answers of the run cost, and its
\* percentiles are in order and between the fastest and the slowest scenario.
THEOREM SummaryIsRight == Spec => []SummaryAddsUp
<1>1. ASSUME IInv, Full, written = "summary"
      PROVE  /\ summary.total = charged
             /\ rows # <<>> => /\ summary.p50 <= summary.p95
                               /\ \E i \in DOMAIN latencies : latencies[i] <= summary.p50
                               /\ \E i \in DOMAIN latencies : summary.p95 <= latencies[i]
  <2>1. /\ summary.total = charged
        /\ summary.p50 = Percentile(latencies, 50) /\ summary.p95 = Percentile(latencies, 95)
        /\ Len(latencies) = Len(rows)
    BY <1>1 DEF IInv, TallyOK
  <2>2. latencies \in Seq(Latencies) /\ rows \in Seq(Rows)
    BY <1>1 DEF IInv, TypeOK
  <2>3. latencies \in Seq(Nat)
    <3>1. Latencies \subseteq Nat /\ Len(latencies) \in Nat /\ latencies \in [1..Len(latencies) -> Latencies]
      BY <2>2, ScenarioBounds
    <3>2. latencies \in [1..Len(latencies) -> Nat]
      BY <3>1
    <3>. QED BY <3>1, <3>2
  <2>4. rows # <<>> => latencies # <<>>
    BY <2>1, <2>2
  <2>. QED BY <2>1, <2>3, <2>4, PercentilesOfMeasurements
<1>2. IInv => SummaryAddsUp
  BY <1>1 DEF SummaryAddsUp
<1>. QED BY Inductive, <1>2, PTL
=============================================================================
