--------------------------- MODULE PipelineProofs ---------------------------
(***************************************************************************)
(* Proofs about Pipeline, for any number of resume requests, submissions,  *)
(* artifacts and restarts: type correctness, that no verdict is ever read  *)
(* for another artifact, that what is deny-listed runs only after a resume *)
(* decision, that a report is backed by the history, that a spent budget    *)
(* stops the fix, that a resume at the gate repeats nothing, that executions    *)
(* are counted, and that the pipeline implements ApprovalGate.             *)
(*                                                                         *)
(* The argument: every copy of the channels, the checkpoint and the one    *)
(* each invocation works on, is Backed by the history at all times.  The   *)
(* history only grows, so a copy that a step leaves alone stays backed;    *)
(* a step needs to be looked at only for the one copy it writes.           *)
(*                                                                         *)
(* Then that every invocation ends and that an answered gate leads to the  *)
(* report: an invocation is at most twelve steps from its end, each of its *)
(* steps brings it closer, and nobody else's step takes it back.  These    *)
(* two assume NeverStuck, which speaks of ENABLED.                         *)
(***************************************************************************)
EXTENDS Pipeline, FiniteSetTheorems, TLAPS

-----------------------------------------------------------------------------
(* The inductive invariant.                                                *)

\* Before a verdict can have been given, and from the gate on.
Unreviewed == {"dispatch", "parse_log", "diagnosis_agent", "supervisor_route",
               "security_reviewer"} \cup Fixers
Passed     == {"verifier_agent", "format_report"}

\* Where a copy of the channels can be with cost_exhausted set.
Unspending == {"dispatch", "parse_log", "diagnosis_agent", "cost_exhausted", "END"}

\* What the history, of m artifacts with reviews rv, decisions rl and
\* executions ex, must hold for a copy x of the channels to be as it is.
Backed(x, m, rv, rl, ex) ==
    /\ x.artifact \in 0..m
    /\ x.next \in Gated \cup {"security_reviewer"} => x.artifact # 0
    /\ x.next \in Unreviewed => x.verdict = "none"
    /\ x.next \in Gated => x.verdict # "none"
    /\ x.verdict # "none" => x.artifact # 0 /\ x.verdict \in rv[x.artifact]
    /\ x.next \in Passed \/ x.report =>
        /\ x.approval <=> (x.verdict = "HIGH_RISK")
        /\ x.approval => rl[x.artifact] # {}
    /\ x.next = "format_report" \/ x.report =>
        x.verdict # "none" /\ ex[x.artifact] > 0
    /\ x.report => x.next = "END"
    /\ x.exhausted => x.next \in Unspending /\ x.verdict = "none" /\ ~x.report

ChannelsBacked ==
    /\ Backed(saved, made, reviews, released, execs)
    /\ \A e \in Execs : Backed(ch[e], made, reviews, released, execs)

\* Reviews and executions speak of artifacts that exist, an artifact that is deny-listed
\* or that no answer let through has no other verdict than HIGH_RISK, and what ran was
\* cleared or released.
HistoryOK ==
    /\ denied \subseteq 1..made
    /\ \A a \in Artifacts : a > made => reviews[a] = {}
    /\ \A a \in Artifacts : a \in denied \/ a \notin vouched => reviews[a] \subseteq {"HIGH_RISK"}
    /\ \A a \in Artifacts : execs[a] > 0 => "cleared" \in reviews[a] \/ released[a] # {}

\* The artifact in the Verifier's hands was counted.
VerifyingCounted ==
    \A e \in Execs : pc[e] = "verifying" =>
        ch[e].next = "verifier_agent" /\ execs[ch[e].artifact] > 0

\* A resume value that is still to be used is a decision.
Answering ==
    \A e \in Execs : pc[e] = "checked" \/ pending[e] => decision[e] \in Decisions

IInv == TypeOK /\ Answering /\ ChannelsBacked /\ HistoryOK /\ VerifyingCounted
-----------------------------------------------------------------------------
(* Type correctness.                                                       *)

\* A thread without a checkpoint has well-typed channels.
LEMMA NoCheckpointTyped == NoCheckpoint \in Channels
  BY PipelineBounds DEF Channels, NoCheckpoint

\* The two kinds of edges out of the LLM nodes do the same.
Route(x, n) == [x EXCEPT !.next = IF x.exhausted THEN "cost_exhausted" ELSE n]

\* What an LLM node can do to its invocation: it is answered and returns x, it trips the
\* budget, or it raises.
LlmStep(e, x, n) == Answered(e, Route(x, n)) \/ Trips(e, Route(Flagged(e), n)) \/ Raises(e)

LEMMA EdgesRoute ==
  \A x, n : OrCostExhausted(x, n) = Route(x, n) /\ RouteToSpecialist(x, n) = Route(x, n)
  BY DEF OrCostExhausted, RouteToSpecialist, Route

LEMMA LlmSteps ==
  ASSUME NEW e \in Execs
  PROVE  /\ Diagnose(e) => LlmStep(e, ch[e], "supervisor_route")
         /\ Supervise(e) => \E f \in Fixers : LlmStep(e, ch[e], f)
         /\ Fix(e) =>
              \/ /\ made < MaxArtifacts /\ made' = made + 1
                 /\ denied' \in {denied, denied \cup {made + 1}}
                 /\ LlmStep(e, [ch[e] EXCEPT !.artifact = made + 1], "security_reviewer")
              \/ /\ UNCHANGED <<made, denied>>
                 /\ LlmStep(e, ch[e], "security_reviewer")
         /\ Review(e) =>
              \/ \E v \in Verdicts : Reviewed(e, v)
              \/ UNCHANGED <<reviews, vouched>> /\ LlmStep(e, ch[e], "security_gate")
<1>1. Fixers # {} /\ "HIGH_RISK" \in Verdicts
  BY DEF Fixers, Verdicts
<1>. QED
  BY <1>1, EdgesRoute DEF Diagnose, Supervise, Fix, Review, Judge, HoldUnjudged, LlmStep

\* The flag's edge leads to cost_exhausted.
LEMMA FlagDiverts ==
  ASSUME TypeOK, NEW e \in Execs, NEW n
  PROVE  /\ Flagged(e) \in Channels
         /\ Route(Flagged(e), n) = [[ch[e] EXCEPT !.exhausted = TRUE] EXCEPT !.next = "cost_exhausted"]
         /\ Route(Flagged(e), n).next = "cost_exhausted"
         /\ Route(Flagged(e), n).artifact = ch[e].artifact
         /\ Route(Flagged(e), n) \in Channels
<1>1. ch[e] \in Channels
  BY DEF TypeOK
<1>2. Flagged(e) \in Channels /\ Flagged(e).exhausted
  BY <1>1 DEF Flagged, Channels
<1>3. Route(Flagged(e), n) = [Flagged(e) EXCEPT !.next = "cost_exhausted"]
  BY <1>2 DEF Route
<1>. QED BY <1>1, <1>2, <1>3 DEF Flagged, Channels, Nodes

\* The edges out of the LLM nodes lead to nodes.
LEMMA RouteTyped == \A x \in Channels, n \in Nodes : Route(x, n) \in Channels
<1>. SUFFICES ASSUME NEW x \in Channels, NEW n \in Nodes PROVE Route(x, n) \in Channels
  OBVIOUS
<1>1. (IF x.exhausted THEN "cost_exhausted" ELSE n) \in Nodes \cup {"none", "END"}
  BY DEF Nodes
<1>. QED BY <1>1 DEF Route, Channels

\* What the end of an invocation does to the types.
LEMMA StopTyped ==
  ASSUME TypeOK, NEW e \in Execs, NEW how \in Results, Stop(e, how)
  PROVE  /\ pc' \in [Execs -> {"idle", "checked", "running", "verifying"}]
         /\ ch' \in [Execs -> Channels]
         /\ pending' \in [Execs -> BOOLEAN]
         /\ from' \in [Execs -> Nodes \cup {"none"}]
         /\ tripped' \in [Execs -> BOOLEAN]
         /\ result' \in [Execs -> Results]
         /\ failed' \in BOOLEAN
<1>1. failed' \in BOOLEAN
  BY DEF Stop, TypeOK
<1>. QED BY <1>1, NoCheckpointTyped DEF TypeOK, Stop

\* What a node that returns does to the types.
LEMMA AdvanceTyped ==
  ASSUME TypeOK, NEW e \in Execs, NEW x \in Channels, Advance(e, x)
  PROVE  /\ saved' \in Channels
         /\ ch' \in [Execs -> Channels]
         /\ pending' \in [Execs -> BOOLEAN]
  BY DEF TypeOK, Advance, Save

\* An LLM node that is answered, trips the budget or raises.
LEMMA LlmTyped ==
  ASSUME TypeOK, NEW e \in Execs, NEW x \in Channels, NEW n \in Nodes,
         LlmStep(e, x, n)
  PROVE  /\ saved' \in Channels /\ ch' \in [Execs -> Channels]
         /\ pc' \in [Execs -> {"idle", "checked", "running", "verifying"}]
         /\ pending' \in [Execs -> BOOLEAN]
         /\ from' \in [Execs -> Nodes \cup {"none"}]
         /\ tripped' \in [Execs -> BOOLEAN]
         /\ result' \in [Execs -> Results]
         /\ over' \in BOOLEAN /\ failed' \in BOOLEAN
<1>1. CASE Answered(e, Route(x, n))
  <2>1. Route(x, n) \in Channels
    BY RouteTyped
  <2>. QED BY <1>1, <2>1, AdvanceTyped DEF Answered, TypeOK
<1>2. CASE Trips(e, Route(Flagged(e), n))
  <2>1. Route(Flagged(e), n) \in Channels
    BY FlagDiverts
  <2>2. saved' \in Channels /\ ch' \in [Execs -> Channels] /\ pending' \in [Execs -> BOOLEAN]
    BY <1>2, <2>1, AdvanceTyped DEF Trips
  <2>. QED BY <1>2, <2>2 DEF Trips, TypeOK
<1>3. CASE Raises(e)
  <2>1. "raised" \in Results
    BY DEF Results
  <2>2. Stop(e, "raised")
    BY <1>3 DEF Raises
  <2>3. saved' \in Channels /\ over' \in BOOLEAN
    BY <1>3 DEF Raises, TypeOK
  <2>. QED BY <2>1, <2>2, <2>3, StopTyped
<1>. QED BY <1>1, <1>2, <1>3 DEF LlmStep

\* Every step keeps the types.
LEMMA TypeStep == IInv /\ [Next]_vars => TypeOK'
<1>. USE PipelineBounds
<1>. SUFFICES ASSUME IInv, [Next]_vars PROVE TypeOK'
  OBVIOUS
<1>c. TypeOK
  BY DEF IInv
<1>a. \A e \in Execs : ch[e] \in Channels
  BY <1>c DEF TypeOK
<1>b. Worker \in Execs /\ Resumers \subseteq Execs /\ Nodes \subseteq Nodes \cup {"none", "END"}
  BY DEF Execs
<1>. USE <1>c
<1>1. ASSUME Submit PROVE TypeOK'
  <2>1. InitialState \in Channels
    <3>1. saved.exhausted \in BOOLEAN
      BY DEF Channels, TypeOK
    <3>2. "dispatch" \in Nodes \cup {"none", "END"}
      BY DEF Nodes
    <3>. QED BY <3>1, <3>2, NoCheckpointTyped DEF InitialState, Channels
  <2>2. CASE Advance(Worker, InitialState)
             /\ from' = [from EXCEPT ![Worker] = "dispatch"]
             /\ result' = [result EXCEPT ![Worker] = "none"]
             /\ pc' = [pc EXCEPT ![Worker] = "running"]
             /\ UNCHANGED <<tripped, failed>>
    <3>1. saved' \in Channels /\ ch' \in [Execs -> Channels] /\ pending' \in [Execs -> BOOLEAN]
      BY <1>b, <2>1, <2>2, AdvanceTyped
    <3>2. "dispatch" \in Nodes \cup {"none"} /\ "none" \in Results
      BY DEF Nodes, Results
    <3>3. from' \in [Execs -> Nodes \cup {"none"}] /\ result' \in [Execs -> Results]
      BY <1>b, <2>2, <3>2 DEF TypeOK
    <3>. QED BY <1>1, <1>b, <2>2, <3>1, <3>3 DEF Submit, TypeOK, gateVars
  <2>3. CASE Stop(Worker, "raised") /\ UNCHANGED saved
    <3>1. "raised" \in Results
      BY DEF Results
    <3>. QED BY <1>1, <1>b, <2>3, <3>1, StopTyped DEF Submit, TypeOK, gateVars
  <2>. QED BY <1>1, <2>2, <2>3 DEF Submit
<1>2. ASSUME NEW e \in Execs, Dispatch(e) PROVE TypeOK'
  <2>1. [ch[e] EXCEPT !.next = "parse_log"] \in Channels
    BY <1>a DEF Channels, Nodes
  <2>. QED BY <1>2, <2>1, AdvanceTyped DEF Dispatch, TypeOK, counters, gateVars
<1>3. ASSUME NEW e \in Execs, ParseLog(e) PROVE TypeOK'
  <2>1. /\ [ch[e] EXCEPT !.next = "diagnosis_agent"] \in Channels
        /\ [ch[e] EXCEPT !.next = "END"] \in Channels
    BY <1>a DEF Channels, Nodes
  <2>2. CASE Finish(e, ch[e], "parse_error")
    <3>1. "parse_error" \in Results
      BY DEF Results
    <3>2. saved' \in Channels
      BY <2>1, <2>2 DEF Finish, Save, TypeOK
    <3>. QED BY <1>3, <2>2, <3>1, <3>2, StopTyped
            DEF ParseLog, Finish, TypeOK, counters, gateVars
  <2>3. CASE Advance(e, [ch[e] EXCEPT !.next = "diagnosis_agent"])
             /\ UNCHANGED <<pc, result, from, tripped, failed>>
    BY <1>3, <2>1, <2>3, AdvanceTyped DEF ParseLog, TypeOK, counters, gateVars
  <2>. QED BY <1>3, <2>2, <2>3 DEF ParseLog
<1>4. ASSUME NEW e \in Execs, Diagnose(e) PROVE TypeOK'
  <2>1. "supervisor_route" \in Nodes
    BY DEF Nodes
  <2>2. LlmStep(e, ch[e], "supervisor_route")
    BY <1>4, LlmSteps
  <2>. QED BY <1>4, <1>a, <2>1, <2>2, LlmTyped DEF Diagnose, TypeOK, counters, gateVars
<1>5. ASSUME NEW e \in Execs, Supervise(e) PROVE TypeOK'
  <2>1. Fixers \subseteq Nodes
    BY DEF Nodes
  <2>2. PICK f \in Fixers : LlmStep(e, ch[e], f)
    BY <1>5, LlmSteps
  <2>. QED BY <1>5, <1>a, <2>1, <2>2, LlmTyped DEF Supervise, TypeOK, counters, gateVars
<1>6. ASSUME NEW e \in Execs, Fix(e) PROVE TypeOK'
  <2>1. "security_reviewer" \in Nodes
    BY DEF Nodes
  <2>2. CASE /\ made < MaxArtifacts /\ made' = made + 1
             /\ denied' \in {denied, denied \cup {made + 1}}
             /\ LlmStep(e, [ch[e] EXCEPT !.artifact = made + 1], "security_reviewer")
    <3>1. made + 1 \in Artifacts /\ made + 1 \in 0..MaxArtifacts
      BY <2>2 DEF TypeOK, Artifacts
    <3>2. [ch[e] EXCEPT !.artifact = made + 1] \in Channels
      BY <1>a, <3>1 DEF Channels
    <3>. QED BY <1>6, <2>1, <2>2, <3>1, <3>2, LlmTyped DEF Fix, TypeOK, counters, gateVars
  <2>3. CASE UNCHANGED <<made, denied>> /\ LlmStep(e, ch[e], "security_reviewer")
    BY <1>6, <1>a, <2>1, <2>3, LlmTyped DEF Fix, TypeOK, counters, gateVars
  <2>. QED BY <1>6, <2>2, <2>3, LlmSteps
<1>7. ASSUME NEW e \in Execs, Review(e) PROVE TypeOK'
  <2>0. ch[e].artifact \in Artifacts
    \* the specialist has emitted something
    BY <1>7, <1>a DEF IInv, ChannelsBacked, Backed, Review, At, Channels, Artifacts
  <2>v. vouched' \in SUBSET Artifacts
    BY <1>7, <2>0 DEF Review, Judge, HoldUnjudged, TypeOK
  <2>1. ASSUME NEW v \in Verdicts, Reviewed(e, v) PROVE TypeOK'
    <3>1. FinalVerdict(ch[e].artifact, v) \in Verdicts
      BY DEF FinalVerdict, Verdicts
    <3>r. [ch[e] EXCEPT !.verdict = FinalVerdict(ch[e].artifact, v)] \in Channels
      BY <1>a, <3>1 DEF Channels
    <3>2. Route([ch[e] EXCEPT !.verdict = FinalVerdict(ch[e].artifact, v)], "security_gate")
            \in Channels
      BY <3>r, RouteTyped DEF Nodes
    <3>3. reviews' \in [Artifacts -> SUBSET Verdicts]
      BY <2>1, <3>1 DEF Reviewed, TypeOK
    <3>4. saved' \in Channels /\ ch' \in [Execs -> Channels] /\ pending' \in [Execs -> BOOLEAN]
      BY <2>1, <3>2, AdvanceTyped, EdgesRoute DEF Reviewed
    <3>. QED BY <1>7, <2>v, <2>1, <3>3, <3>4 DEF Review, Reviewed, TypeOK, counters
  <2>2. CASE UNCHANGED <<reviews, vouched>> /\ LlmStep(e, ch[e], "security_gate")
    BY <1>7, <1>a, <2>2, LlmTyped DEF Review, TypeOK, counters, Nodes
  <2>. QED BY <1>7, <2>1, <2>2, LlmSteps
<1>8. ASSUME NEW e \in Execs, SecurityGate(e) PROVE TypeOK'
  <2>0. ch[e].artifact \in Artifacts
    \* only what a specialist emitted gets to the gate
    BY <1>8, <1>a DEF IInv, ChannelsBacked, Backed, Gated, SecurityGate, At, Channels, Artifacts
  <2>1. CASE Suspend(e)
    <3>1. "interrupted" \in Results
      BY DEF Results
    <3>2. asked' \in SUBSET Artifacts
      BY <2>0, <2>1 DEF Suspend, TypeOK
    <3>. QED BY <1>8, <2>1, <3>1, <3>2, StopTyped DEF SecurityGate, Suspend, TypeOK, counters
  <2>2. CASE LetPass(e)
    <3>1. [ch[e] EXCEPT !.next = "verifier_agent", !.approval = TRUE] \in Channels
      BY <1>a DEF Channels, Nodes
    <3>2. released' \in [Artifacts -> SUBSET Decisions]
      BY <2>2 DEF LetPass, IInv, Answering, TypeOK
    <3>. QED BY <1>8, <2>2, <3>1, <3>2, AdvanceTyped DEF SecurityGate, LetPass, TypeOK, counters
  <2>3. CASE PassFreely(e)
    <3>1. [ch[e] EXCEPT !.next = "verifier_agent", !.approval = FALSE] \in Channels
      BY <1>a DEF Channels, Nodes
    <3>. QED BY <1>8, <2>3, <3>1, AdvanceTyped DEF SecurityGate, PassFreely, TypeOK, counters
  <2>. QED BY <1>8, <2>1, <2>2, <2>3 DEF SecurityGate
<1>9. ASSUME NEW e \in Execs, Verify(e) PROVE TypeOK'
  BY <1>9 DEF Verify, TypeOK, counters, gateVars
<1>10. ASSUME NEW e \in Execs, Verified(e) PROVE TypeOK'
  <2>1. [ch[e] EXCEPT !.next = "format_report"] \in Channels
    BY <1>a DEF Channels, Nodes
  <2>. QED BY <1>10, <2>1, AdvanceTyped DEF Verified, TypeOK, counters, gateVars
<1>11. ASSUME NEW e \in Execs, FormatReport(e) \/ CostExhausted(e) PROVE TypeOK'
  <2>1. /\ [ch[e] EXCEPT !.report = TRUE] \in Channels
        /\ {"completed", "cost_exhausted"} \subseteq Results
    BY <1>a DEF Channels, Results
  <2>2. PICK x \in Channels, how \in Results : Finish(e, x, how)
    BY <1>11, <1>a, <2>1 DEF FormatReport, CostExhausted
  <2>3. [x EXCEPT !.next = "END"] \in Channels
    BY DEF Channels
  <2>4. saved' \in Channels
    BY <2>2, <2>3 DEF Finish, Save, TypeOK
  <2>. QED BY <1>11, <2>2, <2>4, StopTyped
          DEF FormatReport, CostExhausted, Finish, TypeOK, counters, gateVars
<1>12. ASSUME NEW r \in Resumers, ResumeRequest(r) PROVE TypeOK'
  BY <1>12, <1>b DEF ResumeRequest, TypeOK, Results, gateVars
<1>13. ASSUME NEW r \in Resumers, ResumeInvoke(r) PROVE TypeOK'
  <2>1. CASE saved.next = "END" /\ Stop(r, "no_op")
    <3>1. "no_op" \in Results
      BY DEF Results
    <3>. QED BY <1>13, <1>b, <2>1, <3>1, StopTyped DEF ResumeInvoke, TypeOK, counters, gateVars
  <2>2. CASE saved.next # "END" /\ ~Stop(r, "refused")
    <3>1. saved.next \in Nodes \cup {"none"} /\ saved \in Channels
      BY <2>2 DEF TypeOK, Channels
    <3>2. from' \in [Execs -> Nodes \cup {"none"}]
      BY <1>13, <1>b, <2>2, <3>1 DEF ResumeInvoke, TypeOK
    <3>3. ch' \in [Execs -> Channels]
      BY <1>13, <1>b, <2>2, <3>1 DEF ResumeInvoke, Load, TypeOK
    <3>4. pending' \in [Execs -> BOOLEAN]
      BY <1>13, <1>b, <2>2 DEF ResumeInvoke, TypeOK
    <3>. QED BY <1>13, <1>b, <2>2, <3>2, <3>3, <3>4 DEF ResumeInvoke, TypeOK, counters, gateVars
  <2>3. CASE Stop(r, "refused")
    <3>1. "refused" \in Results
      BY DEF Results
    <3>. QED BY <1>13, <1>b, <2>3, <3>1, StopTyped DEF ResumeInvoke, TypeOK, counters, gateVars
  <2>. QED BY <1>13, <2>1, <2>2, <2>3 DEF ResumeInvoke
<1>14. ASSUME Crash PROVE TypeOK'
  <2>1. /\ pc' \in [Execs -> {"idle", "checked", "running", "verifying"}]
        /\ ch' \in [Execs -> Channels]
        /\ pending' \in [Execs -> BOOLEAN]
        /\ from' \in [Execs -> Nodes \cup {"none"}]
        /\ tripped' \in [Execs -> BOOLEAN]
    BY <1>14, NoCheckpointTyped DEF Crash
  <2>2. result' \in [Execs -> Results]
    BY <1>14 DEF Crash, TypeOK, Results
  <2>3. over' \in BOOLEAN
    BY <1>14 DEF Crash
  <2>4. crashes' \in 0..MaxCrashes
    BY <1>14 DEF Crash, TypeOK
  <2>5. UNCHANGED <<saved, decision, runs, resumes, made, denied, reviews, vouched, asked,
                    released, execs, failed>>
    BY <1>14 DEF Crash, gateVars
  <2>. QED BY <2>1, <2>2, <2>3, <2>4, <2>5 DEF TypeOK
<1>15. CASE UNCHANGED vars
  BY <1>15 DEF vars, TypeOK, counters, gateVars
<1>16. ASSUME NEW e \in Execs, Refused(e) PROVE TypeOK'
  <2>1. "refused" \in Results /\ over' \in BOOLEAN
    BY <1>16 DEF Results, Refused, TypeOK
  <2>. QED BY <1>16, <2>1, StopTyped DEF Refused, TypeOK, counters, gateVars
<1>17. ASSUME NEW e \in Execs, Unverifiable(e) PROVE TypeOK'
  <2>1. "raised" \in Results
    BY DEF Results
  <2>. QED BY <1>17, <2>1, StopTyped DEF Unverifiable, Raises, TypeOK, counters, gateVars
<1>. QED
  BY <1>1, <1>2, <1>3, <1>4, <1>5, <1>6, <1>7, <1>8, <1>9, <1>10, <1>11, <1>12,
     <1>13, <1>14, <1>15, <1>16, <1>17 DEF Next, Node, Proceeds
-----------------------------------------------------------------------------
(* The history grows, and what it backs stays backed.                      *)

Grows ==
    /\ made <= made'
    /\ \A a \in Artifacts : /\ reviews[a] \subseteq reviews'[a]
                            /\ released[a] # {} => released'[a] # {}
                            /\ execs[a] <= execs'[a]

\* No step takes an artifact, a review, a decision or an execution back.
LEMMA HistoryGrows == IInv /\ [Next]_vars => Grows
<1>. USE DEF Grows, TypeOK
<1>. SUFFICES ASSUME IInv, [Next]_vars PROVE Grows
  OBVIOUS
<1>c. TypeOK
  BY DEF IInv
<1>1. ASSUME UNCHANGED <<made, reviews, released, execs>> PROVE Grows
  BY <1>1, <1>c
<1>2. ASSUME NEW e \in Execs, Fix(e) PROVE Grows
  BY <1>2, <1>c DEF Fix, gateVars
<1>3. ASSUME NEW e \in Execs, Review(e) PROVE Grows
  <2>1. UNCHANGED <<made, released, execs>>
    BY <1>3 DEF Review
  <2>2. UNCHANGED reviews \/ \E v \in Verdicts : Reviewed(e, v)
    BY <1>3, LlmSteps
  <2>3. \A a \in Artifacts : reviews[a] \subseteq reviews'[a]
    BY <2>2, <1>c DEF Reviewed
  <2>. QED BY <2>1, <2>3, <1>c
<1>4. ASSUME NEW e \in Execs, SecurityGate(e) PROVE Grows
  BY <1>4, <1>c DEF SecurityGate, Suspend, LetPass, PassFreely
<1>5. ASSUME NEW e \in Execs, Verify(e) PROVE Grows
  BY <1>5, <1>c DEF Verify, gateVars
<1>. QED
  BY <1>1, <1>2, <1>3, <1>4, <1>5
     DEF Next, Node, Proceeds, Submit, Dispatch, ParseLog, Diagnose, Supervise, Unverifiable, Verified, FormatReport,
         CostExhausted, Refused, ResumeRequest, ResumeInvoke, Crash, vars, gateVars

\* A copy of the channels that a step leaves alone stays backed.
LEMMA StaysBacked ==
  ASSUME TypeOK, Grows, NEW x \in Channels, Backed(x, made, reviews, released, execs),
         made' \in 0..MaxArtifacts, execs' \in [Artifacts -> Nat]
  PROVE  Backed(x, made', reviews', released', execs')
<1>1. /\ x.artifact \in 0..made /\ made \in Nat /\ made' \in Nat /\ made <= made'
      /\ MaxArtifacts \in Nat /\ made <= MaxArtifacts
  BY PipelineBounds DEF Backed, TypeOK, Grows
<1>2. x.artifact \in 0..made' /\ (x.artifact # 0 => x.artifact \in Artifacts)
  BY <1>1 DEF Artifacts
<1>3. x.verdict # "none" => x.artifact # 0 /\ x.verdict \in reviews'[x.artifact]
  BY <1>2 DEF Backed, Grows
<1>4. x.next \in Passed \/ x.report => x.artifact \in Artifacts
  BY <1>2 DEF Backed, Passed, Gated
<1>5. x.next \in Passed \/ x.report => (x.approval => released'[x.artifact] # {})
  BY <1>4 DEF Backed, Grows
<1>6. x.next = "format_report" \/ x.report => execs'[x.artifact] > 0
  <2>1. ASSUME x.next = "format_report" \/ x.report PROVE execs'[x.artifact] > 0
    <3>1. x.artifact \in Artifacts
      BY <2>1, <1>4 DEF Passed
    <3>2. execs[x.artifact] > 0
      BY <2>1 DEF Backed
    <3>3. /\ execs[x.artifact] \in Nat /\ execs'[x.artifact] \in Nat
          /\ execs[x.artifact] <= execs'[x.artifact]
      BY <3>1 DEF TypeOK, Grows
    <3>. QED BY <3>2, <3>3
  <2>. QED BY <2>1
<1>. QED BY <1>2, <1>3, <1>5, <1>6 DEF Backed

\* No channels at all are backed by any history.
LEMMA NothingIsBacked ==
  ASSUME NEW m \in Nat, NEW rv, NEW rl, NEW ex
  PROVE  Backed(NoCheckpoint, m, rv, rl, ex)
  BY DEF Backed, NoCheckpoint, Unreviewed, Unspending, Gated, Passed, Fixers

\* It is enough to look at the one copy x that a step writes, to the checkpoint
\* or to an invocation's channels.
LEMMA WrittenBacked ==
  ASSUME IInv, [Next]_vars, NEW e \in Execs, NEW x,
         Backed(x, made', reviews', released', execs'),
         saved' = saved \/ saved' = x,
         \/ UNCHANGED ch
         \/ ch' = [ch EXCEPT ![e] = x]
         \/ ch' = [ch EXCEPT ![e] = NoCheckpoint]
  PROVE  ChannelsBacked'
<1>1. TypeOK /\ Grows /\ TypeOK' /\ ChannelsBacked
  BY HistoryGrows, TypeStep DEF IInv
<1>2. /\ made' \in Nat /\ made' \in 0..MaxArtifacts /\ execs' \in [Artifacts -> Nat]
      /\ saved \in Channels
      /\ ch \in [Execs -> Channels]
  BY <1>1 DEF TypeOK
<1>3. Backed(saved', made', reviews', released', execs')
  BY <1>1, <1>2, StaysBacked DEF ChannelsBacked
<1>4. ASSUME NEW f \in Execs PROVE Backed(ch'[f], made', reviews', released', execs')
  <2>1. Backed(ch[f], made', reviews', released', execs')
    <3>1. Backed(ch[f], made, reviews, released, execs) /\ ch[f] \in Channels
      BY <1>1, <1>2 DEF ChannelsBacked
    <3>. QED BY <1>1, <1>2, <3>1, StaysBacked
  <2>2. Backed(NoCheckpoint, made', reviews', released', execs')
    BY <1>2, NothingIsBacked
  <2>3. ch'[f] \in {ch[f], x, NoCheckpoint}
    BY <1>2
  <2>. QED BY <2>1, <2>2, <2>3
<1>. QED BY <1>3, <1>4 DEF ChannelsBacked

\* Taking an edge before the review, or the edge to cost_exhausted, asks nothing
\* of the history.
LEMMA EdgeBacked ==
  ASSUME NEW x \in Channels, NEW m \in 0..MaxArtifacts, NEW rv, NEW rl, NEW ex, NEW n,
         x.next \in Unreviewed,
         \/ n \in Unreviewed /\ (n = "security_reviewer" => x.artifact # 0)
            /\ (x.exhausted => n \in Unspending)
         \/ n = "cost_exhausted",
         Backed(x, m, rv, rl, ex)
  PROVE  /\ Backed([x EXCEPT !.next = n], m, rv, rl, ex)
         /\ Backed([[x EXCEPT !.exhausted = TRUE] EXCEPT !.next = "cost_exhausted"], m, rv, rl, ex)
  BY PipelineBounds DEF Backed, Channels, Unreviewed, Unspending, Gated, Passed, Fixers

\* A call that trips the budget, before the review is given, or one that raises.
LEMMA StoppedBacked ==
  ASSUME IInv, [Next]_vars, NEW e \in Execs, NEW n, ch[e].next \in Unreviewed,
         Trips(e, Route(Flagged(e), n)) \/ Raises(e)
  PROVE  ChannelsBacked'
<1>. DEFINE B(y) == Backed(y, made', reviews', released', execs')
<1>1. /\ TypeOK /\ Grows /\ TypeOK' /\ made' \in 0..MaxArtifacts
      /\ execs' \in [Artifacts -> Nat] /\ ch[e] \in Channels
      /\ Backed(ch[e], made, reviews, released, execs)
  BY HistoryGrows, TypeStep DEF IInv, TypeOK, ChannelsBacked
<1>2. CASE Trips(e, Route(Flagged(e), n))
  <2>. DEFINE y == Route(Flagged(e), n)
  <2>1. B(ch[e])
    BY <1>1, StaysBacked
  <2>2. B([[ch[e] EXCEPT !.exhausted = TRUE] EXCEPT !.next = "cost_exhausted"])
    BY <1>1, <2>1, EdgeBacked
  <2>3. B(y)
    BY <1>1, <2>2, FlagDiverts
  <2>4. saved' \in {saved, y} /\ ch' = [ch EXCEPT ![e] = y]
    BY <1>2 DEF Trips, Advance, Save
  <2>. HIDE DEF y
  <2>. QED BY <2>3, <2>4, WrittenBacked
<1>3. CASE Raises(e)
  <2>1. B(NoCheckpoint)
    BY <1>1, NothingIsBacked
  <2>2. saved' = saved /\ ch' = [ch EXCEPT ![e] = NoCheckpoint]
    BY <1>3 DEF Raises, Stop
  <2>. QED BY <2>1, <2>2, WrittenBacked
<1>. QED BY <1>2, <1>3

\* An LLM node before the review that is answered, trips the budget or raises.
LEMMA LlmBacked ==
  ASSUME IInv, [Next]_vars, NEW e \in Execs, NEW x \in Channels, NEW n \in Unreviewed,
         ch[e].next \in Unreviewed, x.next \in Unreviewed,
         n = "security_reviewer" => x.artifact # 0,
         Backed(x, made', reviews', released', execs'),
         LlmStep(e, x, n)
  PROVE  ChannelsBacked'
<1>. DEFINE B(y) == Backed(y, made', reviews', released', execs')
<1>1. TypeOK' /\ made' \in 0..MaxArtifacts
  BY TypeStep DEF TypeOK
<1>2. CASE Answered(e, Route(x, n))
  <2>1. B(Route(x, n))
    <3>1. CASE x.exhausted
      BY <1>1, <3>1, EdgeBacked DEF Route
    <3>2. CASE ~x.exhausted
      BY <1>1, <3>2, EdgeBacked DEF Route
    <3>. QED BY <3>1, <3>2
  <2>2. saved' \in {saved, Route(x, n)} /\ ch' = [ch EXCEPT ![e] = Route(x, n)]
    BY <1>2 DEF Answered, Advance, Save
  <2>. QED BY <2>1, <2>2, WrittenBacked
<1>. QED BY <1>2, StoppedBacked DEF LlmStep

\* Every step leaves every copy of the channels backed by the history.
LEMMA ChannelsStep == IInv /\ [Next]_vars => ChannelsBacked'
<1>. SUFFICES ASSUME IInv, [Next]_vars PROVE ChannelsBacked'
  OBVIOUS
<1>. DEFINE B(y) == Backed(y, made', reviews', released', execs')
<1>a. TypeOK /\ Grows /\ TypeOK' /\ made' \in 0..MaxArtifacts /\ made' \in Nat
  BY HistoryGrows, TypeStep DEF IInv, TypeOK
<1>b. \A e \in Execs : /\ ch[e] \in Channels
                       /\ Backed(ch[e], made, reviews, released, execs)
                       /\ B(ch[e])
  BY <1>a, StaysBacked DEF TypeOK, IInv, ChannelsBacked
<1>c. saved \in Channels /\ B(saved)
  BY <1>a, StaysBacked DEF TypeOK, IInv, ChannelsBacked
<1>d. B(NoCheckpoint)
  BY <1>a, NothingIsBacked
<1>w. Worker \in Execs /\ Resumers \subseteq Execs
  BY DEF Execs
<1>1. ASSUME Submit PROVE ChannelsBacked'
  <2>1. B(InitialState)
    BY <1>a, <1>c DEF Backed, InitialState, NoCheckpoint, Channels, Unreviewed, Unspending, Gated, Passed, Fixers
  <2>2. \/ saved' \in {saved, InitialState} /\ ch' = [ch EXCEPT ![Worker] = InitialState]
        \/ saved' = saved /\ ch' = [ch EXCEPT ![Worker] = NoCheckpoint]
    BY <1>1 DEF Submit, Advance, Save, Stop
  <2>. QED BY <1>w, <1>d, <2>1, <2>2, WrittenBacked
<1>2. ASSUME NEW e \in Execs, NEW n \in {"parse_log", "diagnosis_agent"},
             ch[e].next \in Unreviewed, Advance(e, [ch[e] EXCEPT !.next = n])
      PROVE  ChannelsBacked'
  <2>. DEFINE y == [ch[e] EXCEPT !.next = n]
  <2>1. B(y)
    BY <1>2, <1>a, <1>b, EdgeBacked DEF Unreviewed, Unspending
  <2>2. saved' \in {saved, y} /\ ch' = [ch EXCEPT ![e] = y]
    BY <1>2 DEF Advance, Save
  <2>. HIDE DEF y
  <2>. QED BY <2>1, <2>2, WrittenBacked
<1>3. ASSUME NEW e \in Execs, NEW x, NEW how, B([x EXCEPT !.next = "END"]),
             Finish(e, x, how)
      PROVE  ChannelsBacked'
  <2>1. /\ saved' \in {saved, [x EXCEPT !.next = "END"]}
        /\ ch' = [ch EXCEPT ![e] = NoCheckpoint]
    BY <1>3 DEF Finish, Stop, Save
  <2>. QED BY <1>3, <2>1, WrittenBacked
<1>4. ASSUME NEW e \in Execs, ~ch[e].report PROVE B([ch[e] EXCEPT !.next = "END"])
  BY <1>4, <1>b DEF Backed, Channels, Unreviewed, Unspending, Gated, Passed, Fixers
<1>5. ASSUME NEW e \in Execs, Dispatch(e) PROVE ChannelsBacked'
  BY <1>5, <1>2 DEF Dispatch, At, Unreviewed
<1>6. ASSUME NEW e \in Execs, ParseLog(e) PROVE ChannelsBacked'
  <2>1. ch[e].next = "parse_log" /\ ~ch[e].report
    BY <1>6, <1>b DEF ParseLog, At, Backed
  <2>2. CASE Advance(e, [ch[e] EXCEPT !.next = "diagnosis_agent"])
    BY <2>1, <2>2, <1>2 DEF Unreviewed
  <2>3. CASE Finish(e, ch[e], "parse_error")
    BY <2>1, <2>3, <1>3, <1>4
  <2>. QED BY <1>6, <2>2, <2>3 DEF ParseLog
<1>7. ASSUME NEW e \in Execs, Diagnose(e) PROVE ChannelsBacked'
  <2>1. ch[e].next \in Unreviewed /\ "supervisor_route" \in Unreviewed
    BY <1>7 DEF Diagnose, At, Unreviewed
  <2>2. LlmStep(e, ch[e], "supervisor_route")
    BY <1>7, LlmSteps
  <2>. QED BY <1>b, <2>1, <2>2, LlmBacked
<1>8. ASSUME NEW e \in Execs, Supervise(e) PROVE ChannelsBacked'
  <2>1. /\ ch[e].next \in Unreviewed
        /\ \A f \in Fixers : f \in Unreviewed /\ f # "security_reviewer"
    BY <1>8 DEF Supervise, At, Unreviewed, Fixers
  <2>2. PICK f \in Fixers : LlmStep(e, ch[e], f)
    BY <1>8, LlmSteps
  <2>. QED BY <1>b, <2>1, <2>2, LlmBacked
<1>9. ASSUME NEW e \in Execs, Fix(e) PROVE ChannelsBacked'
  <2>1. ch[e].next \in Fixers /\ ch[e].next \in Unreviewed
    BY <1>9 DEF Fix, At, Unreviewed
  <2>2. CASE /\ LlmStep(e, [ch[e] EXCEPT !.artifact = made + 1], "security_reviewer")
             /\ made' = made + 1
    <3>. DEFINE x == [ch[e] EXCEPT !.artifact = made + 1]
    <3>1. made \in Nat
      BY <1>a DEF TypeOK
    <3>2. x.artifact = made + 1 /\ x.artifact # 0 /\ x \in Channels /\ x.next \in Unreviewed
      BY <1>a, <1>b, <2>1, <2>2, <3>1 DEF Channels
    <3>3. B(x)
      \* the verdict is still none: nothing is said of the new artifact
      BY <1>b, <2>1, <2>2, <3>1 DEF Backed, Channels, Unreviewed, Unspending, Gated, Passed, Fixers
    <3>4. "security_reviewer" \in Unreviewed
      BY DEF Unreviewed
    <3>5. LlmStep(e, x, "security_reviewer")
      BY <2>2
    <3>. HIDE DEF x
    <3>. QED BY <2>1, <3>2, <3>3, <3>4, <3>5, LlmBacked
  <2>3. CASE (\E n : Trips(e, Route(Flagged(e), n))) \/ Raises(e)
    BY <2>1, <2>3, StoppedBacked
  <2>. QED BY <1>9, <2>2, <2>3, EdgesRoute DEF Fix, LlmStep
<1>10. ASSUME NEW e \in Execs, Review(e) PROVE ChannelsBacked'
  <2>1. /\ ch[e].next = "security_reviewer" /\ ch[e].next \in Unreviewed
        /\ ch[e].artifact \in Artifacts
    BY <1>10, <1>a, <1>b, PipelineBounds
       DEF Review, At, Unreviewed, Backed, Channels, Artifacts
  <2>2. ASSUME NEW v \in Verdicts, Reviewed(e, v) PROVE ChannelsBacked'
    <3>. DEFINE w == FinalVerdict(ch[e].artifact, v)
                x == [ch[e] EXCEPT !.verdict = w]
                y == OrCostExhausted(x, "security_gate")
    <3>1. w # "none" /\ w \in Verdicts
      BY DEF FinalVerdict, Verdicts
    <3>2. w \in reviews'[ch[e].artifact]
      BY <2>1, <2>2, <1>a DEF Reviewed, TypeOK
    <3>. HIDE DEF w
    <3>3. /\ B([x EXCEPT !.next = "security_gate"])
          /\ B([x EXCEPT !.next = "cost_exhausted"])
      BY <1>b, <2>1, <3>1, <3>2 DEF Backed, Channels, Unreviewed, Unspending, Gated, Passed, Fixers
    <3>4. y = [x EXCEPT !.next = "security_gate"] \/ y = [x EXCEPT !.next = "cost_exhausted"]
      BY DEF OrCostExhausted
    <3>5. B(y)
      BY <3>3, <3>4
    <3>6. saved' \in {saved, y} /\ ch' = [ch EXCEPT ![e] = y]
      BY <2>2 DEF Reviewed, Advance, Save, w
    <3>. HIDE DEF y
    <3>. QED BY <3>5, <3>6, WrittenBacked
  <2>3. CASE (\E n : Trips(e, Route(Flagged(e), n))) \/ Raises(e)
    BY <2>1, <2>3, StoppedBacked
  <2>. QED BY <1>10, <2>2, <2>3, EdgesRoute DEF Review, Judge, HoldUnjudged, Verdicts
<1>11. ASSUME NEW e \in Execs, SecurityGate(e) PROVE ChannelsBacked'
  <2>1. /\ ch[e].next = "security_gate" /\ ch[e].artifact \in Artifacts
        /\ ch[e].verdict # "none"
    BY <1>11, <1>a, <1>b, PipelineBounds
       DEF SecurityGate, At, Gated, Backed, Channels, Artifacts
  <2>2. CASE Suspend(e)
    <3>1. saved' = saved /\ ch' = [ch EXCEPT ![e] = NoCheckpoint]
      BY <2>2 DEF Suspend, Stop
    <3>. QED BY <1>d, <3>1, WrittenBacked
  <2>3. CASE LetPass(e)
    <3>. DEFINE y == [ch[e] EXCEPT !.next = "verifier_agent", !.approval = TRUE]
    <3>1. released'[ch[e].artifact] # {}
      BY <2>1, <2>3, <1>a DEF LetPass, TypeOK
    <3>2. B(y)
      BY <1>b, <2>1, <2>3, <3>1
         DEF LetPass, Backed, Channels, Unreviewed, Unspending, Gated, Passed, Fixers
    <3>3. saved' \in {saved, y} /\ ch' = [ch EXCEPT ![e] = y]
      BY <2>3 DEF LetPass, Advance, Save
    <3>. HIDE DEF y
    <3>. QED BY <3>2, <3>3, WrittenBacked
  <2>4. CASE PassFreely(e)
    <3>. DEFINE y == [ch[e] EXCEPT !.next = "verifier_agent", !.approval = FALSE]
    <3>1. B(y)
      BY <1>b, <2>1, <2>4
         DEF PassFreely, Backed, Channels, Unreviewed, Unspending, Gated, Passed, Fixers
    <3>2. saved' \in {saved, y} /\ ch' = [ch EXCEPT ![e] = y]
      BY <2>4 DEF PassFreely, Advance, Save
    <3>. HIDE DEF y
    <3>. QED BY <3>1, <3>2, WrittenBacked
  <2>. QED BY <1>11, <2>2, <2>3, <2>4 DEF SecurityGate
<1>12. ASSUME NEW e \in Execs, Verified(e) PROVE ChannelsBacked'
  <2>. DEFINE y == [ch[e] EXCEPT !.next = "format_report"]
  <2>1. ch[e].next = "verifier_agent" /\ execs[ch[e].artifact] > 0 /\ execs' = execs
    BY <1>12 DEF Verified, IInv, VerifyingCounted
  <2>2. B(y)
    BY <1>b, <2>1 DEF Backed, Channels, Unreviewed, Unspending, Gated, Passed, Fixers
  <2>3. saved' \in {saved, y} /\ ch' = [ch EXCEPT ![e] = y]
    BY <1>12 DEF Verified, Advance, Save
  <2>. HIDE DEF y
  <2>. QED BY <2>2, <2>3, WrittenBacked
<1>13. ASSUME NEW e \in Execs, FormatReport(e) PROVE ChannelsBacked'
  <2>1. ch[e].next = "format_report"
    BY <1>13 DEF FormatReport, At
  <2>2. B([[ch[e] EXCEPT !.report = TRUE] EXCEPT !.next = "END"])
    BY <1>b, <2>1 DEF Backed, Channels, Unreviewed, Unspending, Gated, Passed, Fixers
  <2>. QED BY <1>13, <1>3, <2>2 DEF FormatReport
<1>14. ASSUME NEW e \in Execs, CostExhausted(e) PROVE ChannelsBacked'
  <2>1. ~ch[e].report
    BY <1>14, <1>b DEF CostExhausted, At, Backed
  <2>. QED BY <1>14, <1>3, <1>4, <2>1 DEF CostExhausted
<1>15. ASSUME NEW e \in Execs, saved' = saved,
              UNCHANGED ch \/ ch' = [ch EXCEPT ![e] = NoCheckpoint] \/ ch' = [ch EXCEPT ![e] = saved]
       PROVE  ChannelsBacked'
  BY <1>15, <1>c, WrittenBacked
<1>16. ASSUME NEW r \in Resumers, ResumeRequest(r) \/ ResumeInvoke(r) PROVE ChannelsBacked'
  <2>1. CASE ResumeRequest(r)
    BY <1>w, <1>15, <2>1 DEF ResumeRequest
  <2>2. CASE ResumeInvoke(r)
    BY <1>w, <1>15, <2>2 DEF ResumeInvoke, Load, Stop
  <2>. QED BY <1>16, <2>1, <2>2
<1>17. ASSUME Crash PROVE ChannelsBacked'
  BY <1>17, <1>c, <1>d DEF Crash, ChannelsBacked
<1>18. CASE UNCHANGED vars
  BY <1>18, <1>w, <1>15 DEF vars
<1>19. ASSUME NEW e \in Execs, Verify(e) PROVE ChannelsBacked'
  BY <1>19, <1>15 DEF Verify
<1>20. ASSUME NEW e \in Execs, Refused(e) PROVE ChannelsBacked'
  BY <1>20, <1>15 DEF Refused, Stop
<1>21. ASSUME NEW e \in Execs, Unverifiable(e) PROVE ChannelsBacked'
  BY <1>21, <1>15 DEF Unverifiable, Raises, Stop
<1>. QED
  BY <1>1, <1>5, <1>6, <1>7, <1>8, <1>9, <1>10, <1>11, <1>12, <1>13, <1>14, <1>16,
     <1>17, <1>18, <1>19, <1>20, <1>21 DEF Next, Node, Proceeds
-----------------------------------------------------------------------------
(* The rest of the invariant.                                              *)

\* Reviews are given to artifacts that exist, and the deny-list overrides the
\* LLM; only what passed the gate is executed.
LEMMA HistoryStep == IInv /\ [Next]_vars => HistoryOK'
<1>. SUFFICES ASSUME IInv, [Next]_vars PROVE HistoryOK'
  OBVIOUS
<1>a. TypeOK /\ HistoryOK /\ ChannelsBacked /\ PipelineBounds
  BY PipelineBounds DEF IInv
<1>b. \A e \in Execs : ch[e] \in Channels /\ Backed(ch[e], made, reviews, released, execs)
  BY <1>a DEF TypeOK, ChannelsBacked
<1>1. ASSUME UNCHANGED <<made, denied, vouched, reviews, released, execs>> PROVE HistoryOK'
  BY <1>1, <1>a DEF HistoryOK
<1>2. ASSUME NEW e \in Execs, Fix(e) PROVE HistoryOK'
  <2>1. UNCHANGED <<vouched, reviews, released, execs>>
    BY <1>2 DEF Fix, gateVars
  <2>2. \/ made' = made + 1 /\ denied' \in {denied, denied \cup {made + 1}} /\ made < MaxArtifacts
        \/ UNCHANGED <<made, denied>>
    BY <1>2 DEF Fix
  <2>3. made \in Nat /\ denied \subseteq Artifacts
    BY <1>a DEF TypeOK
  <2>4. CASE made' = made + 1 /\ denied' \in {denied, denied \cup {made + 1}} /\ made < MaxArtifacts
    <3>1. made + 1 \in Artifacts /\ reviews[made + 1] = {}
      BY <1>a, <2>3, <2>4 DEF Artifacts, HistoryOK
    <3>. QED BY <1>a, <2>1, <2>3, <2>4, <3>1 DEF HistoryOK
  <2>. QED BY <1>1, <2>1, <2>2, <2>4
<1>3. ASSUME NEW e \in Execs, Review(e) PROVE HistoryOK'
  <2>1. UNCHANGED <<made, denied, released, execs>>
    BY <1>3 DEF Review
  <2>2. ch[e].artifact \in 1..made /\ made \in Nat
    BY <1>3, <1>a, <1>b DEF Review, At, Backed, TypeOK
  <2>3. ASSUME NEW v \in Verdicts, Reviewed(e, v), vouched \subseteq vouched',
               v = "cleared" => ch[e].artifact \in vouched'
        PROVE  HistoryOK'
    <3>1. reviews' = [reviews EXCEPT ![ch[e].artifact] = @ \cup {FinalVerdict(ch[e].artifact, v)}]
      BY <2>3 DEF Reviewed
    <3>2. reviews \in [Artifacts -> SUBSET Verdicts]
      BY <1>a DEF TypeOK
    <3>3. /\ ch[e].artifact \in denied => FinalVerdict(ch[e].artifact, v) = "HIGH_RISK"
          /\ ch[e].artifact \notin vouched' => FinalVerdict(ch[e].artifact, v) = "HIGH_RISK"
      BY <2>3 DEF FinalVerdict, Verdicts
    <3>4. \A a \in Artifacts : a > made => reviews'[a] = {}
      BY <1>a, <2>2, <3>1, <3>2 DEF HistoryOK
    <3>5. \A a \in Artifacts : a \in denied \/ a \notin vouched' => reviews'[a] \subseteq {"HIGH_RISK"}
      <4>. SUFFICES ASSUME NEW a \in Artifacts, a \in denied \/ a \notin vouched'
                    PROVE  reviews'[a] \subseteq {"HIGH_RISK"}
        OBVIOUS
      <4>1. reviews[a] \subseteq {"HIGH_RISK"}
        BY <1>a, <2>3 DEF HistoryOK
      <4>. QED BY <3>1, <3>2, <3>3, <4>1
    <3>6. \A a \in Artifacts : "cleared" \in reviews[a] => "cleared" \in reviews'[a]
      BY <3>1, <3>2
    <3>. QED BY <1>a, <2>1, <3>4, <3>5, <3>6 DEF HistoryOK
  <2>4. CASE UNCHANGED <<reviews, vouched>>
    BY <1>1, <2>1, <2>4
  <2>5. CASE Judge(e)
    <3>1. PICK v \in Verdicts :
             /\ Reviewed(e, v)
             /\ vouched' = IF v = "cleared" THEN vouched \cup {ch[e].artifact} ELSE vouched
      BY <2>5 DEF Judge
    <3>. QED BY <2>3, <3>1
  <2>6. CASE HoldUnjudged(e)
    BY <2>3, <2>6 DEF HoldUnjudged, Verdicts
  <2>. QED BY <1>3, <2>4, <2>5, <2>6 DEF Review
<1>4. ASSUME NEW e \in Execs, SecurityGate(e) PROVE HistoryOK'
  <2>1. UNCHANGED <<made, denied, vouched, reviews, execs>>
    BY <1>4 DEF SecurityGate
  <2>2. \A a \in Artifacts : released[a] # {} => released'[a] # {}
    BY <1>4, <1>a DEF SecurityGate, Suspend, LetPass, PassFreely, TypeOK
  <2>. QED BY <1>a, <2>1, <2>2 DEF HistoryOK
<1>5. ASSUME NEW e \in Execs, Verify(e) PROVE HistoryOK'
  <2>1. UNCHANGED <<made, denied, vouched, reviews, released>>
    BY <1>5 DEF Verify, gateVars
  <2>2. ch[e].artifact \in 1..made /\ made \in Nat /\ made <= MaxArtifacts
    BY <1>5, <1>a, <1>b DEF Verify, At, Backed, TypeOK, Gated
  <2>3. "cleared" \in reviews[ch[e].artifact] \/ released[ch[e].artifact] # {}
    BY <1>5, <1>b DEF Verify, At, Backed, Channels, Gated, Passed, Verdicts
  <2>4. \A a \in Artifacts : execs'[a] > 0 => execs[a] > 0 \/ a = ch[e].artifact
    BY <1>5 DEF Verify
  <2>. QED BY <1>a, <2>1, <2>3, <2>4 DEF HistoryOK
<1>. QED
  BY <1>1, <1>2, <1>3, <1>4, <1>5
     DEF Next, Node, Proceeds, Submit, Dispatch, ParseLog, Diagnose, Supervise, Unverifiable, Verified, FormatReport,
         CostExhausted, Refused, ResumeRequest, ResumeInvoke, Crash, vars, gateVars

\* What a step of one invocation does to where it is.
LEMMA Moves ==
  ASSUME TypeOK, NEW e \in Execs, Node(e)
  PROVE  /\ decision' = decision
         /\ \A f \in Execs \ {e} : pc'[f] = pc[f] /\ ch'[f] = ch[f]
                                   /\ pending'[f] = pending[f] /\ tripped'[f] = tripped[f]
         /\ pc'[e] # "checked" /\ (pending'[e] => pending[e])
         /\ pc'[e] = "verifying" => Verify(e)
<1>. USE DEF TypeOK
<1>1. CASE Dispatch(e)
  BY <1>1 DEF Dispatch, At, Advance
<1>2. CASE ParseLog(e)
  BY <1>2 DEF ParseLog, At, Advance, Finish, Stop
<1>3. CASE Diagnose(e)
  BY <1>3 DEF Diagnose, At, Answered, Trips, Raises, Advance, Stop
<1>4. CASE Supervise(e)
  BY <1>4 DEF Supervise, At, Answered, Trips, Raises, Advance, Stop
<1>5. CASE Fix(e)
  BY <1>5 DEF Fix, At, Answered, Trips, Raises, Advance, Stop
<1>6. CASE Review(e)
  BY <1>6 DEF Review, Judge, HoldUnjudged, Reviewed, At, Trips, Raises, Advance, Stop
<1>7. CASE SecurityGate(e)
  BY <1>7 DEF SecurityGate, At, Suspend, LetPass, PassFreely, Advance, Stop
<1>8. CASE Verify(e)
  BY <1>8 DEF Verify, At
<1>9. CASE Verified(e)
  BY <1>9 DEF Verified, Advance
<1>10. CASE FormatReport(e) \/ CostExhausted(e)
  BY <1>10 DEF FormatReport, CostExhausted, At, Finish, Stop
<1>11. CASE Refused(e)
  BY <1>11 DEF Refused, Stop
<1>12. CASE Unverifiable(e)
  BY <1>12 DEF Unverifiable, Raises, Stop, At
<1>. QED
  BY <1>1, <1>2, <1>3, <1>4, <1>5, <1>6, <1>7, <1>8, <1>9, <1>10, <1>11, <1>12
     DEF Node, Proceeds

\* A resume value is a decision until it is used.
LEMMA AnsweringStep == IInv /\ [Next]_vars => Answering'
<1>. SUFFICES ASSUME IInv, [Next]_vars PROVE Answering'
  OBVIOUS
<1>a. TypeOK /\ Answering
  BY DEF IInv
<1>1. ASSUME NEW e \in Execs, Node(e) PROVE Answering'
  BY <1>1, <1>a, Moves DEF Answering
<1>2. ASSUME NEW r \in Resumers, ResumeRequest(r) PROVE Answering'
  BY <1>2, <1>a DEF ResumeRequest, Answering, TypeOK, Execs
<1>3. ASSUME NEW r \in Resumers, ResumeInvoke(r) PROVE Answering'
  BY <1>3, <1>a DEF ResumeInvoke, Stop, Answering, TypeOK, Execs
<1>4. CASE Submit
  BY <1>4, <1>a DEF Submit, Advance, Stop, Answering, TypeOK, Execs
<1>5. CASE Crash
  BY <1>5 DEF Crash, Answering
<1>6. CASE UNCHANGED vars
  BY <1>6, <1>a DEF vars, Answering
<1>. QED BY <1>1, <1>2, <1>3, <1>4, <1>5, <1>6 DEF Next

\* Who is in the Verifier stays there with what was counted.
LEMMA VerifyingStep == IInv /\ [Next]_vars => VerifyingCounted'
<1>. SUFFICES ASSUME IInv, [Next]_vars PROVE VerifyingCounted'
  OBVIOUS
<1>a. TypeOK /\ VerifyingCounted /\ ChannelsBacked /\ Grows /\ TypeOK'
  BY HistoryGrows, TypeStep DEF IInv
<1>b. \A f \in Execs : pc[f] = "verifying" => execs'[ch[f].artifact] > 0
  <2>1. ASSUME NEW f \in Execs, pc[f] = "verifying" PROVE execs'[ch[f].artifact] > 0
    <3>1. /\ execs[ch[f].artifact] > 0 /\ ch[f].next = "verifier_agent"
          /\ Backed(ch[f], made, reviews, released, execs)
      BY <1>a, <2>1 DEF VerifyingCounted, ChannelsBacked
    <3>2. ch[f].artifact \in Artifacts
      <4>1. ch[f].artifact \in 0..made /\ ch[f].artifact # 0
        BY <3>1 DEF Backed, Gated
      <4>2. made \in 0..MaxArtifacts /\ MaxArtifacts \in Nat
        BY <1>a, PipelineBounds DEF TypeOK
      <4>. QED BY <4>1, <4>2 DEF Artifacts
    <3>. QED BY <1>a, <3>1, <3>2 DEF Grows, TypeOK
  <2>. QED BY <2>1
<1>1. ASSUME NEW e \in Execs, Node(e) PROVE VerifyingCounted'
  <2>1. CASE Verify(e)
    <3>1. /\ ch[e].artifact \in Artifacts /\ ch[e].next = "verifier_agent" /\ ch' = ch
          /\ pc' = [pc EXCEPT ![e] = "verifying"]
      BY <1>a, <2>1, PipelineBounds
         DEF Verify, At, ChannelsBacked, Backed, Gated, Artifacts, TypeOK
    <3>2. execs'[ch[e].artifact] > 0
      BY <1>a, <2>1, <3>1 DEF Verify, TypeOK
    <3>. QED BY <1>a, <1>b, <3>1, <3>2 DEF VerifyingCounted, TypeOK
  <2>2. CASE ~Verify(e)
    BY <1>1, <1>a, <1>b, <2>2, Moves DEF VerifyingCounted
  <2>. QED BY <2>1, <2>2
<1>2. ASSUME NEW r \in Resumers, ResumeRequest(r) PROVE VerifyingCounted'
  BY <1>2, <1>a, <1>b DEF ResumeRequest, VerifyingCounted, TypeOK, Execs
<1>3. ASSUME NEW r \in Resumers, ResumeInvoke(r) PROVE VerifyingCounted'
  BY <1>3, <1>a, <1>b DEF ResumeInvoke, Stop, VerifyingCounted, TypeOK, Execs
<1>4. CASE Submit
  BY <1>4, <1>a, <1>b DEF Submit, Advance, Stop, VerifyingCounted, TypeOK, Execs
<1>5. CASE Crash
  BY <1>5 DEF Crash, VerifyingCounted
<1>6. CASE UNCHANGED vars
  BY <1>6, <1>a DEF vars, VerifyingCounted
<1>. QED BY <1>1, <1>2, <1>3, <1>4, <1>5, <1>6 DEF Next

-----------------------------------------------------------------------------
(* The theorems.                                                           *)

\* The invariant holds at the start.
LEMMA InitIInv == Init => IInv
<1>. SUFFICES ASSUME Init PROVE IInv
  OBVIOUS
<1>1. TypeOK
  <2>1. saved \in Channels /\ ch \in [Execs -> Channels]
    BY NoCheckpointTyped DEF Init
  <2>2. "none" \in Results
    BY DEF Results
  <2>3. /\ pc \in [Execs -> {"idle", "checked", "running", "verifying"}]
        /\ decision \in [Execs -> Decisions \cup {"none"}]
        /\ result \in [Execs -> Results]
        /\ from \in [Execs -> Nodes \cup {"none"}]
    BY <2>2 DEF Init
  <2>4. /\ pending \in [Execs -> BOOLEAN] /\ tripped \in [Execs -> BOOLEAN]
        /\ over \in BOOLEAN /\ failed \in BOOLEAN
    BY DEF Init
  <2>5. /\ reviews \in [Artifacts -> SUBSET Verdicts]
        /\ released \in [Artifacts -> SUBSET Decisions]
        /\ execs \in [Artifacts -> Nat]
        /\ denied \in SUBSET Artifacts /\ asked \in SUBSET Artifacts
        /\ vouched \in SUBSET Artifacts
    BY DEF Init
  <2>6. /\ runs \in 0..MaxRuns /\ resumes \in 0..MaxResumes /\ crashes \in 0..MaxCrashes
        /\ made \in 0..MaxArtifacts
    BY PipelineBounds DEF Init
  <2>. QED BY <2>1, <2>3, <2>4, <2>5, <2>6 DEF TypeOK
<1>2. ChannelsBacked
  BY NothingIsBacked DEF Init, ChannelsBacked
<1>3. HistoryOK /\ VerifyingCounted /\ Answering
  BY DEF Init, HistoryOK, VerifyingCounted, Answering, Execs
<1>. QED BY <1>1, <1>2, <1>3 DEF IInv

\* Channels, history and invokers agree in every reachable state.
THEOREM Inductive == Spec => []IInv
<1>1. IInv /\ [Next]_vars => IInv'
  BY TypeStep, ChannelsStep, HistoryStep, VerifyingStep, AnsweringStep DEF IInv
<1>. QED BY <1>1, InitIInv, PTL DEF Spec

\* Every variable keeps its type, whatever the interleaving of the invocations
\* and wherever the process dies.
THEOREM TypeCorrect == Spec => []TypeOK
<1>1. IInv => TypeOK
  BY DEF IInv
<1>. QED BY <1>1, Inductive, PTL

\* The verdict the gate reads was given to the artifact it guards.
THEOREM VerdictsAreCurrent == Spec => []VerdictBelongsToArtifact
<1>1. IInv => VerdictBelongsToArtifact
  <2>. SUFFICES ASSUME IInv, NEW x \in Loaded, x.verdict # "none"
                PROVE  x.artifact \in Artifacts /\ x.verdict \in reviews[x.artifact]
    BY DEF VerdictBelongsToArtifact
  <2>1. Backed(x, made, reviews, released, execs) /\ made \in 0..MaxArtifacts
    BY DEF IInv, ChannelsBacked, Loaded, TypeOK
  <2>. QED BY <2>1, PipelineBounds DEF Backed, Artifacts
<1>. QED BY <1>1, Inductive, PTL

\* What is deny-listed, or what no answer of the LLM let through, has no verdict but
\* HIGH_RISK, and so runs only after a resume decision.
THEOREM UnsafeFixesNeedResume == Spec => []UnsafeNeedsResume
<1>1. IInv => UnsafeNeedsResume
  BY DEF IInv, HistoryOK, UnsafeNeedsResume, TypeOK
<1>. QED BY <1>1, Inductive, PTL

\* A report is of a reviewed artifact that was handed to the Verifier, and "executed after
\* human approval" in it means that a resume decision, though perhaps "reject", released it.
THEOREM ReportsAreBacked == Spec => []ReportIsBacked
<1>1. IInv => ReportIsBacked
  <2>. SUFFICES ASSUME IInv, NEW x \in Loaded, x.report
                PROVE  /\ x.artifact \in Artifacts
                       /\ execs[x.artifact] > 0
                       /\ x.verdict \in reviews[x.artifact]
                       /\ x.approval <=> (x.verdict = "HIGH_RISK")
                       /\ x.approval => released[x.artifact] # {}
    BY DEF ReportIsBacked
  <2>1. Backed(x, made, reviews, released, execs) /\ made \in 0..MaxArtifacts
    BY DEF IInv, ChannelsBacked, Loaded, TypeOK
  <2>. QED BY <2>1, PipelineBounds DEF Backed, Artifacts
<1>. QED BY <1>1, Inductive, PTL

\* Wherever the flag of a spent budget is, in a checkpoint or in an invocation, of this run
\* or of an earlier one, nothing is fixed, reviewed, executed or reported.
THEOREM SpentBudgetsStop == Spec => []SpentBudgetStopsTheFix
<1>1. IInv => SpentBudgetStopsTheFix
  BY DEF IInv, ChannelsBacked, Backed, Unspending, Loaded, SpentBudgetStopsTheFix
<1>. QED BY <1>1, Inductive, PTL

\* A resume at the gate goes on to the Verifier and the report, and nowhere back.
THEOREM CompletedNodesAreSkipped == Spec => []ResumeSkipsCompletedNodes
<1>. USE DEF ResumeSkipsCompletedNodes, TypeOK
<1>1. Init => ResumeSkipsCompletedNodes
  BY DEF Init, Execs
<1>2. TypeOK /\ ResumeSkipsCompletedNodes /\ [Next]_vars => ResumeSkipsCompletedNodes'
  <2>. SUFFICES ASSUME TypeOK, ResumeSkipsCompletedNodes, [Next]_vars
                PROVE  ResumeSkipsCompletedNodes'
    OBVIOUS
  <2>a. Resumers \subseteq Execs /\ Worker \notin Resumers
    BY ExecsAssumption DEF Execs
  <2>1. ASSUME NEW e \in Execs, Node(e) PROVE ResumeSkipsCompletedNodes'
    <3>1. \A r \in Resumers \ {e} : UNCHANGED <<pc[r], ch[r], from[r]>>
      BY <2>1, <2>a
         DEF Node, Proceeds, Dispatch, ParseLog, Diagnose, Supervise, Fix, Review, Judge,
             HoldUnjudged, Reviewed, SecurityGate,
             Suspend, LetPass, PassFreely, Verify, Unverifiable, Verified, FormatReport, CostExhausted, Refused,
             Answered, Trips, Raises, Finish, Advance, Stop
    <3>2. ASSUME e \in Resumers, pc'[e] \in {"running", "verifying"},
                 from'[e] = "security_gate"
          PROVE  ch'[e].next \in Gated
      <4>1. from[e] = "security_gate" /\ pc'[e] # "idle"
        BY <2>1, <3>2
           DEF Node, Proceeds, Dispatch, ParseLog, Diagnose, Supervise, Fix, Review, Judge,
               HoldUnjudged, Reviewed, SecurityGate, Suspend, LetPass, PassFreely, Verify, Unverifiable, Verified, FormatReport,
               CostExhausted, Refused, Answered, Trips, Raises, Finish, Advance, Stop
      <4>p. pc[e] \in {"running", "verifying"}
        BY <2>1 DEF Node, Proceeds, Dispatch, ParseLog, Diagnose, Supervise, Fix, Review, SecurityGate,
                    Verify, Unverifiable, Verified, FormatReport, CostExhausted, Refused, At
      <4>2. ch[e].next \in Gated /\ ch[e] \in Channels
        BY <3>2, <4>1, <4>p DEF Gated
      <4>3. CASE SecurityGate(e)
        <5>1. PICK b \in BOOLEAN :
                ch' = [ch EXCEPT ![e] = [@ EXCEPT !.next = "verifier_agent", !.approval = b]]
          BY <4>1, <4>3 DEF SecurityGate, Suspend, LetPass, PassFreely, Advance, Stop
        <5>. QED BY <4>2, <5>1 DEF Channels, Gated
      <4>4. CASE Verify(e)
        BY <4>2, <4>4 DEF Verify
      <4>5. CASE Verified(e)
        BY <4>2, <4>5 DEF Verified, Advance, Channels, Gated
      <4>6. CASE FormatReport(e)
        BY <4>1, <4>6 DEF FormatReport, Finish, Stop
      <4>7. CASE Refused(e)
        BY <4>1, <4>7 DEF Refused, Stop
      <4>8. CASE Unverifiable(e)
        BY <4>1, <4>8 DEF Unverifiable, Raises, Stop
      <4>. QED BY <2>1, <4>2, <4>3, <4>4, <4>5, <4>6, <4>7, <4>8
              DEF Gated, Fixers, Node, Proceeds, Dispatch, ParseLog, Diagnose, Supervise, Fix, Review,
                  CostExhausted, At
    <3>. QED BY <3>1, <3>2 DEF Gated
  <2>2. ASSUME NEW r \in Resumers, ResumeRequest(r) PROVE ResumeSkipsCompletedNodes'
    BY <2>2, <2>a DEF ResumeRequest
  <2>3. ASSUME NEW r \in Resumers, ResumeInvoke(r) PROVE ResumeSkipsCompletedNodes'
    BY <2>3, <2>a DEF ResumeInvoke, Stop, Load, Gated
  <2>4. CASE Submit
    BY <2>4, <2>a DEF Submit, Advance, Stop
  <2>5. CASE Crash
    BY <2>5, <2>a DEF Crash
  <2>6. CASE UNCHANGED vars
    BY <2>6 DEF vars
  <2>. QED BY <2>1, <2>2, <2>3, <2>4, <2>5, <2>6 DEF Next
<1>. QED BY <1>1, <1>2, TypeCorrect, PTL DEF Spec

-----------------------------------------------------------------------------
(* Executions.  Each is paid for by the submission that produced the       *)
(* artifact, or by a resume request, which pays for one in all.            *)

\* The resume requests whose invocation may still execute something.
Unspent == {r \in Resumers :
              pc[r] = "checked" \/ (pc[r] = "running" /\ ch[r].next # "format_report")}

\* The worker may still execute the artifact it produced.
Owed(a) == IF /\ pc[Worker] = "running" /\ ch[Worker].next # "format_report"
              /\ ch[Worker].artifact = a
           THEN 1 ELSE 0

Paid ==
    /\ IsFiniteSet(Unspent) /\ Cardinality(Unspent) <= resumes
    /\ \A a \in Artifacts : execs[a] + Cardinality(Unspent) + Owed(a) <= 1 + resumes
    /\ \A a \in Artifacts : a > made => execs[a] = 0

\* A step that executes nothing owes nothing more, but for an artifact that is new.
LEMMA StaysPaid ==
  ASSUME TypeOK, TypeOK', Paid, made <= made', execs' = execs, resumes' = resumes,
         Unspent' \subseteq Unspent,
         \A a \in Artifacts : Owed(a)' <= Owed(a) \/ a > made
  PROVE  Paid'
<1>1. /\ IsFiniteSet(Unspent') /\ Cardinality(Unspent') <= Cardinality(Unspent)
      /\ Cardinality(Unspent) \in Nat /\ Cardinality(Unspent') \in Nat
  BY FS_Subset, FS_CardinalityType DEF Paid
<1>2. made \in Nat /\ made' \in Nat /\ resumes \in Nat /\ \A a \in Artifacts : execs[a] \in Nat
  BY DEF TypeOK
<1>3. ASSUME NEW a \in Artifacts
      PROVE  execs'[a] + Cardinality(Unspent') + Owed(a)' <= 1 + resumes'
  <2>1. Owed(a) \in {0, 1} /\ Owed(a)' \in {0, 1}
    BY DEF Owed
  <2>2. CASE Owed(a)' <= Owed(a)
    BY <1>1, <1>2, <2>1, <2>2 DEF Paid
  <2>3. CASE a > made
    BY <1>1, <1>2, <2>1, <2>3 DEF Paid
  <2>. QED BY <2>2, <2>3
<1>4. \A a \in Artifacts : a > made' => execs'[a] = 0
  BY <1>2 DEF Paid, Artifacts
<1>. QED BY <1>1, <1>2, <1>3, <1>4 DEF Paid

\* An invocation that may execute something after a node could before, and has the
\* artifact it had, or a new one.
LEMMA NodeOwesNoMore ==
  ASSUME TypeOK, NEW e \in Execs, Node(e), pc'[e] = "running",
         ch'[e].next # "format_report"
  PROVE  /\ pc[e] = "running" /\ ch[e].next # "format_report"
         /\ ch'[e].artifact = ch[e].artifact \/ ch'[e].artifact = made + 1
<1>a. ch \in [Execs -> Channels] /\ pc \in [Execs -> {"idle", "checked", "running", "verifying"}]
  BY DEF TypeOK
<1>e. ASSUME NEW how PROVE ~Stop(e, how)
  BY <1>a DEF Stop
<1>g. ASSUME NEW x, Advance(e, x) PROVE ch'[e] = x
  BY <1>a, <1>g DEF Advance
<1>b. /\ ~Verify(e) /\ ~Unverifiable(e) /\ ~Verified(e)
      /\ ~FormatReport(e) /\ ~CostExhausted(e) /\ ~Refused(e)
  <2>1. ~Verify(e)
    BY <1>a DEF Verify
  <2>2. ASSUME Verified(e) PROVE FALSE
    <3>1. ch'[e] = [ch[e] EXCEPT !.next = "format_report"]
      BY <1>g, <2>2 DEF Verified
    <3>2. ch[e] \in Channels
      BY <1>a
    <3>. QED BY <3>1, <3>2 DEF Channels
  <2>3. ~Unverifiable(e) /\ ~FormatReport(e) /\ ~CostExhausted(e) /\ ~Refused(e)
    BY <1>e DEF Unverifiable, Raises, FormatReport, CostExhausted, Finish, Refused
  <2>. QED BY <2>1, <2>2, <2>3
<1>c. pc[e] = "running" /\ ch[e].next # "format_report"
  BY <1>b DEF Node, Proceeds, Dispatch, ParseLog, Diagnose, Supervise, Fix, Fixers, Review,
              SecurityGate, At
<1>d. ASSUME NEW x \in Channels, NEW n PROVE Route(x, n).artifact = x.artifact
  BY DEF Route, Channels
<1>f. \A v \in Verdicts : /\ [ch[e] EXCEPT !.verdict = v] \in Channels
                          /\ [ch[e] EXCEPT !.verdict = v].artifact = ch[e].artifact
  BY <1>a DEF Channels
<1>1. ASSUME NEW x \in Channels, NEW n, LlmStep(e, x, n)
      PROVE  ch'[e].artifact \in {x.artifact, ch[e].artifact}
  <2>1. CASE Answered(e, Route(x, n))
    <3>1. ch'[e] = Route(x, n)
      BY <1>g, <2>1 DEF Answered
    <3>. QED BY <1>d, <3>1
  <2>2. CASE Trips(e, Route(Flagged(e), n))
    <3>1. ch'[e] = Route(Flagged(e), n)
      BY <1>g, <2>2 DEF Trips
    <3>2. Route(Flagged(e), n).artifact = ch[e].artifact
      BY FlagDiverts
    <3>. QED BY <3>1, <3>2
  <2>3. CASE Raises(e)
    BY <1>e, <2>3 DEF Raises
  <2>. QED BY <1>1, <2>1, <2>2, <2>3 DEF LlmStep
<1>2. CASE Dispatch(e) \/ ParseLog(e)
  <2>1. \/ Advance(e, [ch[e] EXCEPT !.next = "parse_log"])
        \/ Advance(e, [ch[e] EXCEPT !.next = "diagnosis_agent"])
    BY <1>2, <1>e DEF Dispatch, ParseLog, Finish
  <2>2. \/ ch'[e] = [ch[e] EXCEPT !.next = "parse_log"]
        \/ ch'[e] = [ch[e] EXCEPT !.next = "diagnosis_agent"]
    BY <1>g, <2>1
  <2>. QED BY <1>a, <1>c, <2>2 DEF Channels
<1>3. CASE Diagnose(e) \/ Supervise(e)
  <2>1. PICK n : LlmStep(e, ch[e], n)
    BY <1>3, LlmSteps
  <2>. QED BY <1>1, <1>a, <1>c, <2>1
<1>4. CASE Fix(e)
  <2>1. CASE made < MaxArtifacts
             /\ LlmStep(e, [ch[e] EXCEPT !.artifact = made + 1], "security_reviewer")
    <3>1. made + 1 \in 0..MaxArtifacts
      BY <2>1, PipelineBounds DEF TypeOK
    <3>2. /\ [ch[e] EXCEPT !.artifact = made + 1] \in Channels
          /\ [ch[e] EXCEPT !.artifact = made + 1].artifact = made + 1
      BY <1>a, <3>1 DEF Channels
    <3>. QED BY <1>1, <1>c, <2>1, <3>2
  <2>2. CASE LlmStep(e, ch[e], "security_reviewer")
    BY <1>1, <1>a, <1>c, <2>2
  <2>. QED BY <1>4, <2>1, <2>2, LlmSteps
<1>5. CASE Review(e)
  <2>1. CASE LlmStep(e, ch[e], "security_gate")
    BY <1>1, <1>a, <1>c, <2>1
  <2>2. CASE \E v \in Verdicts : Reviewed(e, v)
    <3>0. PICK v \in Verdicts : Reviewed(e, v)
      BY <2>2
    <3>. DEFINE y == [ch[e] EXCEPT !.verdict = FinalVerdict(ch[e].artifact, v)]
    <3>1. ch'[e] = Route(y, "security_gate")
      BY <1>g, <3>0, EdgesRoute DEF Reviewed
    <3>2. FinalVerdict(ch[e].artifact, v) \in Verdicts
      BY DEF FinalVerdict, Verdicts
    <3>3. y \in Channels /\ y.artifact = ch[e].artifact
      BY <1>f, <3>2
    <3>. HIDE DEF y
    <3>. QED BY <1>c, <1>d, <3>1, <3>3
  <2>. QED BY <1>5, <2>1, <2>2, LlmSteps
<1>6. CASE SecurityGate(e)
  <2>1. PICK b \in BOOLEAN :
           ch' = [ch EXCEPT ![e] = [@ EXCEPT !.next = "verifier_agent", !.approval = b]]
    BY <1>6, <1>e DEF SecurityGate, Suspend, LetPass, PassFreely, Advance
  <2>. QED BY <1>a, <1>c, <2>1 DEF Channels
<1>. QED
  BY <1>b, <1>c, <1>2, <1>3, <1>4, <1>5, <1>6 DEF Node, Proceeds

\* Every execution spends a resume request, or the submission.
LEMMA PaidStep == IInv /\ Paid /\ [Next]_vars => Paid'
<1>. SUFFICES ASSUME IInv, Paid, [Next]_vars PROVE Paid'
  OBVIOUS
<1>a. TypeOK /\ TypeOK' /\ made <= made'
  BY HistoryGrows, TypeStep DEF IInv, Grows
<1>b. Resumers \subseteq Execs /\ Worker \notin Resumers /\ Worker \in Execs
  BY ExecsAssumption DEF Execs
<1>c. Cardinality(Unspent) \in Nat /\ resumes \in Nat /\ \A a \in Artifacts : execs[a] \in Nat
  BY <1>a, FS_CardinalityType DEF Paid, TypeOK
<1>1. ASSUME NEW e \in Execs, Node(e), ~Verify(e) PROVE Paid'
  <2>1. execs' = execs /\ resumes' = resumes
    BY <1>1 DEF Node, Proceeds, Dispatch, ParseLog, Diagnose, Supervise, Fix, Review, SecurityGate,
                Unverifiable, Verified, FormatReport, CostExhausted, Refused, counters
  <2>2. Unspent' \subseteq Unspent
    BY <1>1, <1>a, <1>b, Moves, NodeOwesNoMore DEF Unspent
  <2>3. ASSUME NEW a \in Artifacts PROVE Owed(a)' <= Owed(a) \/ a > made
    <3>1. CASE e = Worker
      <4>1. CASE Owed(a)' = 0
        BY <4>1 DEF Owed
      <4>2. CASE Owed(a)' # 0
        <5>1. pc'[e] = "running" /\ ch'[e].next # "format_report" /\ ch'[e].artifact = a
          BY <3>1, <4>2 DEF Owed
        <5>2. /\ pc[e] = "running" /\ ch[e].next # "format_report"
              /\ a = ch[e].artifact \/ a = made + 1
          BY <1>1, <1>a, <5>1, NodeOwesNoMore
        <5>. QED BY <1>a, <3>1, <5>1, <5>2 DEF Owed, TypeOK
      <4>. QED BY <4>1, <4>2
    <3>2. CASE e # Worker
      BY <1>1, <1>a, <1>b, <3>2, Moves DEF Owed
    <3>. QED BY <3>1, <3>2
  <2>. QED BY <1>a, <2>1, <2>2, <2>3, StaysPaid
<1>2. ASSUME NEW e \in Execs, Verify(e) PROVE Paid'
  <2>. DEFINE b == ch[e].artifact
  <2>1. /\ pc[e] = "running" /\ ch[e].next = "verifier_agent"
        /\ pc' = [pc EXCEPT ![e] = "verifying"]
        /\ execs' = [a \in Artifacts |-> IF a = b THEN execs[a] + 1 ELSE execs[a]]
        /\ UNCHANGED <<ch, made, resumes>>
    BY <1>2 DEF Verify, At, counters
  <2>2. b \in 1..made /\ made \in Nat
    BY <1>a, <2>1 DEF IInv, ChannelsBacked, Backed, Gated, TypeOK
  <2>3. \A a \in Artifacts : a > made' => execs'[a] = 0
    BY <2>1, <2>2 DEF Paid, Artifacts
  <2>4. CASE e = Worker
    <3>1. Unspent' = Unspent
      BY <1>a, <1>b, <2>1, <2>4 DEF Unspent, TypeOK
    <3>2. \A a \in Artifacts : Owed(a)' = 0 /\ Owed(a) \in {0, 1} /\ (a = b => Owed(a) = 1)
      BY <1>a, <2>1, <2>4 DEF Owed, TypeOK
    <3>3. \A a \in Artifacts : execs'[a] + Cardinality(Unspent') + Owed(a)' <= 1 + resumes'
      <4>. HIDE DEF b
      <4>. QED BY <1>c, <2>1, <3>1, <3>2 DEF Paid
    <3>. QED BY <2>1, <2>3, <3>1, <3>3 DEF Paid
  <2>5. CASE e \in Resumers
    <3>1. e \in Unspent /\ Unspent' = Unspent \ {e}
      BY <1>a, <2>1, <2>5 DEF Unspent, TypeOK
    <3>2. IsFiniteSet(Unspent') /\ Cardinality(Unspent') = Cardinality(Unspent) - 1
      BY <3>1, FS_RemoveElement DEF Paid
    <3>3. \A a \in Artifacts : Owed(a)' = Owed(a) /\ Owed(a) \in {0, 1}
      BY <1>b, <2>1, <2>5 DEF Owed
    <3>4. \A a \in Artifacts : execs'[a] + Cardinality(Unspent') + Owed(a)' <= 1 + resumes'
      <4>. HIDE DEF b
      <4>. QED BY <1>c, <2>1, <3>2, <3>3 DEF Paid
    <3>. QED BY <1>c, <2>1, <2>3, <3>2, <3>4 DEF Paid
  <2>. QED BY <2>4, <2>5 DEF Execs
<1>3. ASSUME NEW r \in Resumers, ResumeRequest(r) PROVE Paid'
  <2>1. /\ r \notin Unspent /\ Unspent' \subseteq Unspent \cup {r}
        /\ UNCHANGED <<execs, made>> /\ resumes' = resumes + 1
    BY <1>3, <1>a, <1>b DEF ResumeRequest, Unspent, TypeOK
  <2>2. \A a \in Artifacts : Owed(a)' = Owed(a) /\ Owed(a) \in {0, 1}
    BY <1>3, <1>a, <1>b DEF ResumeRequest, Owed, TypeOK
  <2>3. /\ IsFiniteSet(Unspent \cup {r})
        /\ Cardinality(Unspent \cup {r}) = Cardinality(Unspent) + 1
    BY <2>1, FS_AddElement DEF Paid
  <2>4. IsFiniteSet(Unspent') /\ Cardinality(Unspent') <= Cardinality(Unspent) + 1
    BY <2>1, <2>3, FS_Subset
  <2>5. Cardinality(Unspent') \in Nat
    BY <2>4, FS_CardinalityType
  <2>. QED BY <1>c, <2>1, <2>2, <2>4, <2>5 DEF Paid
<1>4. ASSUME NEW r \in Resumers, ResumeInvoke(r) PROVE Paid'
  <2>1. /\ Unspent' \subseteq Unspent
        /\ \A a \in Artifacts : Owed(a)' <= Owed(a)
        /\ UNCHANGED <<execs, resumes>>
    <3>1. /\ pc[r] = "checked" /\ UNCHANGED <<execs, resumes>>
          /\ \A f \in Execs \ {r} : pc'[f] = pc[f] /\ ch'[f] = ch[f]
      BY <1>4, <1>a DEF ResumeInvoke, Stop, TypeOK, counters
    <3>2. Unspent' \subseteq Unspent
      BY <1>b, <3>1 DEF Unspent
    <3>3. pc'[Worker] = pc[Worker] /\ ch'[Worker] = ch[Worker]
      BY <1>b, <3>1
    <3>4. \A a \in Artifacts : Owed(a)' = Owed(a) /\ Owed(a) \in {0, 1}
      BY <3>3 DEF Owed
    <3>. QED BY <3>1, <3>2, <3>4
  <2>. QED BY <1>a, <2>1, StaysPaid
<1>5. CASE Submit
  <2>1. /\ Unspent' \subseteq Unspent
        /\ \A a \in Artifacts : Owed(a)' = 0 /\ Owed(a) \in {0, 1}
        /\ UNCHANGED <<execs, resumes>>
    <3>1. /\ UNCHANGED <<execs, resumes>>
          /\ \A r \in Resumers : pc'[r] = pc[r] /\ ch'[r] = ch[r]
      BY <1>5, <1>a, <1>b DEF Submit, Advance, Stop, TypeOK
    <3>2. Unspent' \subseteq Unspent
      BY <3>1 DEF Unspent
    <3>3. pc'[Worker] = "idle" \/ ch'[Worker].artifact = 0
      <4>1. InitialState.artifact = 0
        BY DEF InitialState, NoCheckpoint
      <4>2. pc'[Worker] = "idle" \/ ch'[Worker] = InitialState
        BY <1>5, <1>a, <1>b DEF Submit, Advance, Stop, TypeOK
      <4>. QED BY <4>1, <4>2
    <3>. QED BY <3>1, <3>2, <3>3 DEF Owed, Artifacts
  <2>. QED BY <1>a, <2>1, StaysPaid
<1>6. CASE Crash
  <2>1. /\ Unspent' \subseteq Unspent
        /\ \A a \in Artifacts : Owed(a)' = 0 /\ Owed(a) \in {0, 1}
        /\ UNCHANGED <<execs, resumes>>
    BY <1>6, <1>b DEF Crash, Unspent, Owed
  <2>. QED BY <1>a, <2>1, StaysPaid
<1>7. CASE UNCHANGED vars
  <2>1. /\ Unspent' \subseteq Unspent
        /\ \A a \in Artifacts : Owed(a)' <= Owed(a)
        /\ UNCHANGED <<execs, resumes>>
    BY <1>7 DEF vars, Unspent, Owed, counters
  <2>. QED BY <1>a, <2>1, StaysPaid
<1>. QED BY <1>1, <1>2, <1>3, <1>4, <1>5, <1>6, <1>7 DEF Next, Node, Proceeds

\* No artifact is executed more often than its submission and the resume requests
\* can account for, however often the process dies between an execution and its
\* checkpoint.
THEOREM ExecutionsArePaid == Spec => []ExecutionsCounted
<1>1. Init => Paid
  <2>. SUFFICES ASSUME Init PROVE Paid
    OBVIOUS
  <2>1. Unspent = {} /\ \A a \in Artifacts : Owed(a) = 0 /\ execs[a] = 0
    BY DEF Init, Unspent, Owed, Execs
  <2>. QED BY <2>1, FS_EmptySet DEF Paid, Init
<1>2. IInv /\ Paid => ExecutionsCounted
  <2>. SUFFICES ASSUME IInv, Paid, NEW a \in Artifacts PROVE execs[a] <= 1 + resumes
    BY DEF ExecutionsCounted
  <2>1. /\ Cardinality(Unspent) \in Nat /\ Owed(a) \in {0, 1}
        /\ execs[a] \in Nat /\ resumes \in Nat
    BY FS_CardinalityType DEF Paid, Owed, IInv, TypeOK
  <2>. QED BY <2>1 DEF Paid
<1>. QED BY <1>1, <1>2, PaidStep, Inductive, PTL DEF Spec

-----------------------------------------------------------------------------
(* Refinement.                                                             *)

\* What a step adds to the history is one step of ApprovalGate, or nothing.
LEMMA StepPromised == IInv /\ [Next]_vars => [Promise!Next]_(Promise!vars)
<1>. SUFFICES ASSUME IInv, [Next]_vars PROVE Promise!Next \/ UNCHANGED Promise!vars
  OBVIOUS
<1>. USE DEF Promise!Next, Promise!Produce, Promise!Clear, Promise!Hold, Promise!Release,
             Promise!Execute
<1>a. TypeOK /\ HistoryOK /\ ChannelsBacked /\ PipelineBounds
  BY PipelineBounds DEF IInv
<1>b. \A e \in Execs : /\ ch[e] \in Channels
                       /\ Backed(ch[e], made, reviews, released, execs)
                       /\ ch[e].artifact # 0 => ch[e].artifact \in 1..made /\ ch[e].artifact \in Artifacts
  BY <1>a DEF TypeOK, ChannelsBacked, Backed, Artifacts
<1>1. ASSUME UNCHANGED <<made, reviews, released, execs>> PROVE UNCHANGED Promise!vars
  BY <1>1 DEF Promise!vars
<1>2. ASSUME NEW e \in Execs, Fix(e) PROVE Promise!Next \/ UNCHANGED Promise!vars
  <2>1. UNCHANGED <<reviews, released, execs>>
    BY <1>2 DEF Fix, gateVars
  <2>2. CASE made' = made + 1 /\ made < MaxArtifacts
    <3>1. /\ made + 1 \in Artifacts
          /\ made + 1 \notin 1..made
          /\ 1..made' = (1..made) \cup {made + 1}
      BY <1>a, <2>2 DEF TypeOK, Artifacts
    <3>2. Promise!Produce(made + 1)
      BY <2>1, <3>1
    <3>. QED BY <3>1, <3>2
  <2>3. CASE UNCHANGED made
    BY <1>1, <2>1, <2>3
  <2>. QED BY <1>2, <2>2, <2>3 DEF Fix
<1>3. ASSUME NEW e \in Execs, Review(e) PROVE Promise!Next \/ UNCHANGED Promise!vars
  <2>1. UNCHANGED <<made, released, execs>>
    BY <1>3 DEF Review
  <2>2. ASSUME NEW v \in Verdicts, Reviewed(e, v)
        PROVE  Promise!Next \/ UNCHANGED Promise!vars
    <3>. DEFINE a == ch[e].artifact
                w == FinalVerdict(a, v)
    <3>1. a \in Artifacts /\ a \in 1..made
      BY <1>3, <1>b DEF Review, At, Backed
    <3>2. w = "HIGH_RISK" \/ w = "cleared"
      BY DEF FinalVerdict, Verdicts
    <3>3. reviews' = [reviews EXCEPT ![a] = @ \cup {w}] /\ reviews \in [Artifacts -> SUBSET Verdicts]
      BY <1>a, <2>2 DEF Reviewed, TypeOK
    <3>4. CASE w = "HIGH_RISK"
      <4>1. \A b \in Artifacts : reviews'[b] \ {"HIGH_RISK"} = reviews[b] \ {"HIGH_RISK"}
        BY <3>3, <3>4
      <4>2. \A b \in Artifacts : "HIGH_RISK" \in reviews'[b] <=> "HIGH_RISK" \in reviews[b] \/ b = a
        BY <3>1, <3>3, <3>4
      <4>3. {b \in Artifacts : reviews'[b] \ {"HIGH_RISK"} # {}}
              = {b \in Artifacts : reviews[b] \ {"HIGH_RISK"} # {}}
        BY <4>1
      <4>4. {b \in Artifacts : "HIGH_RISK" \in reviews'[b]}
              = {b \in Artifacts : "HIGH_RISK" \in reviews[b]} \cup {a}
        BY <3>1, <4>2
      <4>. HIDE DEF a, w
      <4>5. Promise!Hold(a)
        BY <2>1, <3>1, <4>3, <4>4
      <4>. QED BY <3>1, <4>5
    <3>5. CASE w = "cleared"
      <4>1. \A b \in Artifacts : reviews'[b] \ {"HIGH_RISK"} # {}
                                   <=> reviews[b] \ {"HIGH_RISK"} # {} \/ b = a
        BY <3>1, <3>3, <3>5
      <4>2. \A b \in Artifacts : "HIGH_RISK" \in reviews'[b] <=> "HIGH_RISK" \in reviews[b]
        BY <3>1, <3>3, <3>5
      <4>3. {b \in Artifacts : reviews'[b] \ {"HIGH_RISK"} # {}}
              = {b \in Artifacts : reviews[b] \ {"HIGH_RISK"} # {}} \cup {a}
        BY <3>1, <4>1
      <4>4. {b \in Artifacts : "HIGH_RISK" \in reviews'[b]}
              = {b \in Artifacts : "HIGH_RISK" \in reviews[b]}
        BY <4>2
      <4>. HIDE DEF a, w
      <4>5. Promise!Clear(a)
        BY <2>1, <3>1, <4>3, <4>4
      <4>. QED BY <3>1, <4>5
    <3>. QED BY <3>2, <3>4, <3>5
  <2>3. CASE UNCHANGED reviews
    BY <1>1, <2>1, <2>3
  <2>. QED BY <1>3, <2>2, <2>3, LlmSteps
<1>4. ASSUME NEW e \in Execs, SecurityGate(e) PROVE Promise!Next \/ UNCHANGED Promise!vars
  <2>1. UNCHANGED <<made, reviews, execs>>
    BY <1>4 DEF SecurityGate
  <2>2. CASE LetPass(e)
    <3>. DEFINE a == ch[e].artifact
    <3>1. a \in Artifacts /\ "HIGH_RISK" \in reviews[a]
      BY <1>4, <2>2, <1>b DEF SecurityGate, At, LetPass, Backed, Gated
    <3>2. released' = [released EXCEPT ![a] = @ \cup {decision[e]}]
      BY <2>2 DEF LetPass
    <3>3. released \in [Artifacts -> SUBSET Decisions]
      BY <1>a DEF TypeOK
    <3>. HIDE DEF a
    <3>4. \A b \in Artifacts : released'[b] # {} <=> released[b] # {} \/ b = a
      BY <3>1, <3>2, <3>3
    <3>5. {b \in Artifacts : released'[b] # {}} = {b \in Artifacts : released[b] # {}} \cup {a}
      BY <3>1, <3>4
    <3>6. Promise!Release(a)
      BY <2>1, <3>1, <3>5
    <3>. QED BY <3>1, <3>6
  <2>3. CASE Suspend(e) \/ PassFreely(e)
    BY <1>1, <2>1, <2>3 DEF Suspend, PassFreely
  <2>. QED BY <1>4, <2>2, <2>3 DEF SecurityGate
<1>5. ASSUME NEW e \in Execs, Verify(e) PROVE Promise!Next \/ UNCHANGED Promise!vars
  <2>. DEFINE a == ch[e].artifact
  <2>1. UNCHANGED <<made, reviews, released>>
    BY <1>5 DEF Verify, gateVars
  <2>2. a \in Artifacts
    BY <1>5, <1>b DEF Verify, At, Backed, Gated
  <2>3. reviews[a] \ {"HIGH_RISK"} # {} \/ released[a] # {}
    BY <1>5, <1>b DEF Verify, At, Backed, Channels, Gated, Passed
  <2>4. execs' = [b \in Artifacts |-> IF b = a THEN execs[b] + 1 ELSE execs[b]]
    BY <1>5 DEF Verify
  <2>5. execs \in [Artifacts -> Nat]
    BY <1>a DEF TypeOK
  <2>. HIDE DEF a
  <2>6. \A b \in Artifacts : execs'[b] > 0 <=> execs[b] > 0 \/ b = a
    BY <2>4, <2>5
  <2>7. {b \in Artifacts : execs'[b] > 0} = {b \in Artifacts : execs[b] > 0} \cup {a}
    BY <2>2, <2>6
  <2>8. Promise!Execute(a)
    BY <2>1, <2>2, <2>3, <2>7
  <2>. QED BY <2>2, <2>8
<1>. QED
  BY <1>1, <1>2, <1>3, <1>4, <1>5
     DEF Next, Node, Proceeds, Submit, Dispatch, ParseLog, Diagnose, Supervise, Unverifiable, Verified, FormatReport,
         CostExhausted, Refused, ResumeRequest, ResumeInvoke, Crash, vars, gateVars

\* The graph, its checkpoints, its restarts and its concurrent invocations keep
\* the promise of ApprovalGate.
THEOREM PipelineKeepsPromise == Spec => ImplementsApprovalGate
<1>1. Init => Promise!Init
  BY PipelineBounds DEF Init, Promise!Init
<1>. QED
  BY <1>1, Inductive, StepPromised, PTL DEF Spec, ImplementsApprovalGate, Promise!Spec

-----------------------------------------------------------------------------
(* Every invocation ends.  The nodes are in an order that every edge of    *)
(* the graph follows; an invocation that takes a step gets closer to its   *)
(* end, and nobody else's step takes it back.                              *)

\* How many nodes are left on the longest way from a node to the end.
Left(node) ==
    CASE node = "cost_exhausted"    -> 1
      [] node = "format_report"     -> 2
      [] node = "verifier_agent"    -> 4
      [] node = "security_gate"     -> 5
      [] node = "security_reviewer" -> 6
      [] node \in Fixers            -> 7
      [] node = "supervisor_route"  -> 8
      [] node = "diagnosis_agent"   -> 9
      [] node = "parse_log"         -> 10
      [] OTHER                      -> 11

\* How many steps an invocation is from its end at most.
Distance(e) ==
    CASE pc[e] = "idle"      -> 0
      [] pc[e] = "verifying" -> 3
      [] pc[e] = "checked"   -> 12
      [] OTHER               -> Left(ch[e].next)

\* Only a resume request waits for its thread.
WorkerDoesNotWait == pc[Worker] # "checked"

LEMMA DistanceBounded ==
  ASSUME TypeOK, NEW e \in Execs
  PROVE  Distance(e) \in 0..12 /\ (Distance(e) = 0 <=> pc[e] = "idle")
BY DEF Distance, Left, TypeOK

\* The edge out of an LLM node, whether it was answered, tripped or raised.
LEMMA LlmGetsCloser ==
  ASSUME TypeOK, NEW e \in Execs, NEW x \in Channels, NEW n \in Nodes,
         pc[e] = "running", Left(ch[e].next) > Left(n), Left(ch[e].next) > 1,
         LlmStep(e, x, n)
  PROVE  Distance(e)' < Distance(e)
<1>2. \A z \in Channels, m \in Nodes :
         Route(z, m).next = IF z.exhausted THEN "cost_exhausted" ELSE m
  BY DEF Route, Channels
<1>3. Left("cost_exhausted") = 1
  BY DEF Left, Fixers
<1>4. Distance(e) = Left(ch[e].next)
  BY DEF Distance
<1>5. CASE Answered(e, Route(x, n))
  <2>1. pc'[e] = "running" /\ ch'[e] = Route(x, n)
    BY <1>5 DEF Answered, Advance, TypeOK
  <2>2. Distance(e)' = Left(Route(x, n).next)
    BY <2>1 DEF Distance
  <2>. QED BY <1>2, <1>3, <1>4, <2>2
<1>6. CASE Trips(e, Route(Flagged(e), n))
  <2>1. pc'[e] = "running" /\ ch'[e] = Route(Flagged(e), n)
    BY <1>6 DEF Trips, Advance, TypeOK
  <2>2. Route(Flagged(e), n).next = "cost_exhausted"
    BY FlagDiverts
  <2>3. Distance(e)' = Left("cost_exhausted")
    BY <2>1, <2>2 DEF Distance
  <2>. QED BY <1>3, <1>4, <2>3
<1>7. CASE Raises(e)
  <2>1. pc'[e] = "idle"
    BY <1>7 DEF Raises, Stop, TypeOK
  <2>2. Distance(e)' = 0
    BY <2>1 DEF Distance
  <2>. QED BY <1>4, <2>2 DEF Left
<1>. QED BY <1>5, <1>6, <1>7 DEF LlmStep

\* A node that returned x: the distance is that of the node x has next.
LEMMA AdvanceDistance ==
  ASSUME TypeOK, NEW e \in Execs, NEW x, Advance(e, x), pc'[e] = "running"
  PROVE  Distance(e)' = Left(x.next)
<1>1. ch'[e] = x
  BY DEF Advance, TypeOK
<1>. QED BY <1>1 DEF Distance

LEMMA StopDistance ==
  ASSUME TypeOK, NEW e \in Execs, NEW how, Stop(e, how)
  PROVE  Distance(e)' = 0
<1>1. pc'[e] = "idle"
  BY DEF Stop, TypeOK
<1>. QED BY <1>1 DEF Distance

\* A step of its own brings an invocation closer to its end.
LEMMA NodeGetsCloser ==
  ASSUME IInv, NEW e \in Execs, Node(e)
  PROVE  Distance(e)' < Distance(e)
<1>a. TypeOK /\ ch[e] \in Channels /\ VerifyingCounted
  BY DEF IInv, TypeOK
<1>b. /\ \A n \in Nodes : [ch[e] EXCEPT !.next = n].next = n
      /\ \A n \in Nodes, b \in BOOLEAN :
            /\ [ch[e] EXCEPT !.next = n, !.approval = b].next = n
  BY <1>a DEF Channels
<1>c. pc[e] = "running" => Distance(e) = Left(ch[e].next)
  BY DEF Distance
<1>d. \A n : Left(n) > 0
  BY DEF Left
<1>. USE DEF Left, Fixers, Nodes, At
<1>1. CASE Dispatch(e)
  <2>1. pc'[e] = "running" /\ Advance(e, [ch[e] EXCEPT !.next = "parse_log"])
    BY <1>1 DEF Dispatch
  <2>2. [ch[e] EXCEPT !.next = "parse_log"].next = "parse_log"
    BY <1>b
  <2>3. Distance(e)' = Left("parse_log")
    BY <1>a, <2>1, <2>2, AdvanceDistance
  <2>. QED BY <1>1, <1>c, <2>3 DEF Dispatch
<1>2. CASE ParseLog(e)
  <2>0. Distance(e) = 10
    BY <1>2, <1>c DEF ParseLog
  <2>1. CASE Finish(e, ch[e], "parse_error")
    BY <1>a, <2>0, <2>1, StopDistance DEF Finish
  <2>2. CASE Advance(e, [ch[e] EXCEPT !.next = "diagnosis_agent"]) /\ UNCHANGED pc
    <3>1. [ch[e] EXCEPT !.next = "diagnosis_agent"].next = "diagnosis_agent"
      BY <1>b
    <3>2. pc'[e] = "running"
      BY <1>2, <2>2 DEF ParseLog
    <3>3. Distance(e)' = Left("diagnosis_agent")
      BY <1>a, <2>2, <3>1, <3>2, AdvanceDistance
    <3>. QED BY <2>0, <3>3
  <2>. QED BY <1>2, <2>1, <2>2 DEF ParseLog
<1>3. CASE Diagnose(e)
  <2>1. LlmStep(e, ch[e], "supervisor_route")
    BY <1>3, LlmSteps
  <2>. QED BY <1>3, <1>a, <2>1, LlmGetsCloser DEF Diagnose
<1>4. CASE Supervise(e)
  <2>1. PICK f \in Fixers : LlmStep(e, ch[e], f)
    BY <1>4, LlmSteps
  <2>. QED BY <1>4, <1>a, <2>1, LlmGetsCloser DEF Supervise
<1>5. CASE Fix(e)
  <2>1. PICK x \in Channels : LlmStep(e, x, "security_reviewer")
    <3>0. made < MaxArtifacts => made + 1 \in 0..MaxArtifacts
      BY <1>a, PipelineBounds DEF TypeOK
    <3>1. made < MaxArtifacts => [ch[e] EXCEPT !.artifact = made + 1] \in Channels
      BY <1>a, <3>0 DEF Channels
    <3>. QED BY <1>5, <1>a, <3>1, LlmSteps
  <2>. QED BY <1>5, <1>a, <2>1, LlmGetsCloser DEF Fix
<1>6. CASE Review(e)
  <2>0. pc[e] = "running" /\ ch[e].next = "security_reviewer"
    BY <1>6 DEF Review
  <2>1. CASE LlmStep(e, ch[e], "security_gate")
    BY <1>a, <2>0, <2>1, LlmGetsCloser
  <2>2. CASE \E v \in Verdicts : Reviewed(e, v)
    <3>1. PICK v \in Verdicts : Reviewed(e, v)
      BY <2>2
    <3>. DEFINE x == [ch[e] EXCEPT !.verdict = FinalVerdict(ch[e].artifact, v)]
    <3>2. Advance(e, Route(x, "security_gate")) /\ pc' = pc
      BY <3>1, EdgesRoute DEF Reviewed
    <3>3. x.exhausted \in BOOLEAN
      BY <1>a DEF Channels
    <3>4. Route(x, "security_gate").next \in {"cost_exhausted", "security_gate"}
      <4>1. x \in Channels
        BY <1>a DEF Channels, FinalVerdict, Verdicts
      <4>. HIDE DEF x
      <4>. QED BY <4>1 DEF Route, Channels
    <3>. HIDE DEF x
    <3>5. Distance(e)' = Left(Route(x, "security_gate").next)
      BY <1>a, <2>0, <3>2, AdvanceDistance
    <3>. QED BY <1>c, <2>0, <3>4, <3>5
  <2>. QED BY <1>6, <2>1, <2>2, LlmSteps
<1>7. CASE SecurityGate(e)
  <2>0. Distance(e) = 5 /\ pc[e] = "running"
    BY <1>7, <1>c DEF SecurityGate
  <2>1. CASE Suspend(e)
    BY <1>a, <2>0, <2>1, StopDistance DEF Suspend
  <2>2. CASE LetPass(e) \/ PassFreely(e)
    <3>1. PICK b \in BOOLEAN :
             Advance(e, [ch[e] EXCEPT !.next = "verifier_agent", !.approval = b]) /\ pc' = pc
      BY <2>2 DEF LetPass, PassFreely
    <3>2. [ch[e] EXCEPT !.next = "verifier_agent", !.approval = b].next = "verifier_agent"
      BY <1>b
    <3>3. Distance(e)' = Left("verifier_agent")
      BY <1>a, <2>0, <3>1, <3>2, AdvanceDistance
    <3>. QED BY <2>0, <3>3
  <2>. QED BY <1>7, <2>1, <2>2 DEF SecurityGate
<1>8. CASE Verify(e)
  <2>1. Distance(e) = 4 /\ pc'[e] = "verifying"
    BY <1>8, <1>a, <1>c DEF Verify, TypeOK
  <2>2. Distance(e)' = 3
    BY <2>1 DEF Distance
  <2>. QED BY <2>1, <2>2
<1>9. CASE Verified(e)
  <2>1. Distance(e) = 3 /\ pc'[e] = "running"
    BY <1>9, <1>a DEF Verified, TypeOK, Distance
  <2>2. [ch[e] EXCEPT !.next = "format_report"].next = "format_report"
    BY <1>b
  <2>3. Advance(e, [ch[e] EXCEPT !.next = "format_report"])
    BY <1>9 DEF Verified
  <2>4. Distance(e)' = Left("format_report")
    BY <1>a, <2>1, <2>2, <2>3, AdvanceDistance
  <2>. QED BY <2>1, <2>4
<1>10. CASE FormatReport(e) \/ CostExhausted(e)
  <2>1. Distance(e) > 0
    BY <1>10, <1>c DEF FormatReport, CostExhausted
  <2>2. Distance(e)' = 0
    BY <1>10, <1>a, StopDistance DEF FormatReport, CostExhausted, Finish
  <2>. QED BY <2>1, <2>2
<1>11. CASE Refused(e)
  <2>1. Distance(e) > 0
    BY <1>11, <1>a DEF Refused, Distance, Left
  <2>2. Distance(e)' = 0
    BY <1>11, <1>a, StopDistance DEF Refused
  <2>. QED BY <2>1, <2>2
<1>12. CASE Unverifiable(e)
  <2>1. Distance(e) > 0
    BY <1>12, <1>c, <1>d DEF Unverifiable
  <2>2. Distance(e)' = 0
    BY <1>12, <1>a, StopDistance DEF Unverifiable, Raises
  <2>. QED BY <2>1, <2>2
<1>. QED
  BY <1>1, <1>2, <1>3, <1>4, <1>5, <1>6, <1>7, <1>8, <1>9, <1>10, <1>11, <1>12
     DEF Node, Proceeds

\* So does the thread that takes up a resume request.
LEMMA ResumeGetsCloser ==
  ASSUME TypeOK, NEW r \in Resumers, ResumeInvoke(r)
  PROVE  Distance(r)' < Distance(r)
<1>1. r \in Execs /\ Distance(r) = 12
  BY DEF Execs, ResumeInvoke, Distance
<1>2. pc'[r] \in {"idle", "running"}
  BY <1>1 DEF ResumeInvoke, Stop, TypeOK
<1>3. Distance(r)' < 12
  BY <1>2 DEF Distance, Left
<1>. QED BY <1>1, <1>3

\* No step of anybody takes an invocation that has started further from its end.
LEMMA NeverFurther ==
  ASSUME IInv, WorkerDoesNotWait, NEW e \in Execs, Distance(e) # 0, [Next]_vars
  PROVE  Distance(e)' <= Distance(e)
<1>a. TypeOK /\ Distance(e) \in Nat /\ pc[e] # "idle"
  BY DistanceBounded DEF IInv
<1>1. CASE pc'[e] = pc[e] /\ ch'[e] = ch[e]
  <2>1. Distance(e)' = Distance(e)
    BY <1>1 DEF Distance
  <2>. QED BY <1>a, <2>1
<1>2. ASSUME NEW f \in Execs, Node(f) PROVE Distance(e)' <= Distance(e)
  <2>1. CASE f = e
    BY <1>2, <1>a, <2>1, NodeGetsCloser, DistanceBounded DEF Distance, Left
  <2>2. CASE f # e
    BY <1>1, <1>2, <1>a, <2>2, Moves
  <2>. QED BY <2>1, <2>2
<1>3. ASSUME NEW r \in Resumers, ResumeRequest(r) PROVE Distance(e)' <= Distance(e)
  BY <1>1, <1>3, <1>a DEF ResumeRequest, TypeOK, Execs
<1>4. ASSUME NEW r \in Resumers, ResumeInvoke(r) PROVE Distance(e)' <= Distance(e)
  <2>1. CASE r = e
    BY <1>4, <1>a, <2>1, ResumeGetsCloser DEF Distance, Left
  <2>2. CASE r # e
    BY <1>1, <1>4, <1>a, <2>2 DEF ResumeInvoke, Stop, TypeOK, Execs
  <2>. QED BY <2>1, <2>2
<1>5. CASE Submit
  BY <1>1, <1>5, <1>a DEF Submit, Advance, Stop, TypeOK
<1>6. CASE Crash
  <2>1. Distance(e)' = 0
    BY <1>6 DEF Crash, Distance
  <2>. QED BY <1>a, <2>1
<1>7. CASE UNCHANGED vars
  BY <1>1, <1>7 DEF vars
<1>. QED BY <1>2, <1>3, <1>4, <1>5, <1>6, <1>7 DEF Next

LEMMA WaitersInductive == Spec => []WorkerDoesNotWait
<1>1. Init => WorkerDoesNotWait
  BY DEF Init, WorkerDoesNotWait, Execs
<1>2. TypeOK /\ WorkerDoesNotWait /\ [Next]_vars => WorkerDoesNotWait'
  <2>. SUFFICES ASSUME TypeOK, WorkerDoesNotWait, [Next]_vars PROVE WorkerDoesNotWait'
    OBVIOUS
  <2>a. Worker \in Execs /\ \A r \in Resumers : r \in Execs /\ r # Worker
    BY ExecsAssumption DEF Execs
  <2>1. ASSUME NEW e \in Execs, Node(e) PROVE WorkerDoesNotWait'
    BY <2>1, <2>a, Moves DEF WorkerDoesNotWait
  <2>. QED
    BY <2>1, <2>a DEF Next, Submit, ResumeRequest, ResumeInvoke, Stop, Crash, vars,
                      WorkerDoesNotWait, TypeOK
<1>. QED BY <1>1, <1>2, TypeCorrect, PTL DEF Spec

\* An invocation that is k steps from its end will be fewer than k steps from it.
Approaches(e, k) == FairSpec /\ []NeverStuck => (Distance(e) = k ~> Distance(e) < k)

\* Until then it stays where it is.
LEMMA StaysOrGetsCloser ==
  ASSUME IInv, WorkerDoesNotWait, NEW e \in Execs, NEW k \in 1..12, Distance(e) = k, [Next]_vars
  PROVE  Distance(e)' = k \/ Distance(e)' < k
<1>1. Distance(e)' <= k
  BY NeverFurther
<1>2. Distance(e)' \in 0..12
  BY TypeStep DEF Distance, Left, TypeOK
<1>. QED BY <1>1, <1>2

\* Its thread is scheduled.
LEMMA NodesApproach ==
  ASSUME NEW e \in Execs, NEW k \in 1..11
  PROVE  Approaches(e, k)
<1>. DEFINE Here   == Distance(e) = k
            Closer == Distance(e) < k
<1>1. IInv /\ WorkerDoesNotWait /\ Here /\ [Next]_vars => Here' \/ Closer'
  BY StaysOrGetsCloser
<1>2. IInv /\ Here /\ [Next]_vars /\ <<Proceeds(e)>>_vars => Closer'
  BY NodeGetsCloser DEF Node
<1>3. IInv /\ NeverStuck /\ Here => ENABLED <<Proceeds(e)>>_vars
  BY DEF IInv, TypeOK, NeverStuck, Distance
<1>4. FairSpec => Spec /\ Scheduled(e)
  BY DEF FairSpec
<1>. QED
  BY <1>1, <1>2, <1>3, <1>4, Inductive, WaitersInductive, PTL DEF Approaches, Spec, Scheduled

\* A resume request gets its thread.
LEMMA RequestsApproach ==
  ASSUME NEW r \in Resumers
  PROVE  Approaches(r, 12)
<1>. DEFINE Here   == Distance(r) = 12
            Closer == Distance(r) < 12
<1>1. IInv /\ WorkerDoesNotWait /\ Here /\ [Next]_vars => Here' \/ Closer'
  BY StaysOrGetsCloser DEF Execs
<1>2. IInv /\ Here /\ [Next]_vars /\ <<ResumeInvoke(r)>>_vars => Closer'
  BY ResumeGetsCloser DEF IInv
<1>3. IInv /\ Here => pc[r] = "checked"
  BY DEF IInv, TypeOK, Distance, Left, Execs
<1>4. NeverStuck /\ pc[r] = "checked" => ENABLED <<ResumeInvoke(r)>>_vars
  BY DEF NeverStuck
<1>5. FairSpec => Spec /\ Served(r)
  BY DEF FairSpec
<1>. QED
  BY <1>1, <1>2, <1>3, <1>4, <1>5, Inductive, WaitersInductive, PTL DEF Approaches, Spec, Served

LEMMA WorkerApproaches == Approaches(Worker, 12)
<1>1. IInv /\ WorkerDoesNotWait => ~(Distance(Worker) = 12)
  BY DEF IInv, TypeOK, WorkerDoesNotWait, Distance, Left, Execs
<1>2. FairSpec => Spec
  BY DEF FairSpec
<1>. QED BY <1>1, <1>2, Inductive, WaitersInductive, PTL DEF Approaches

LEMMA EveryoneApproaches == \A e \in Execs, k \in 1..12 : Approaches(e, k)
<1>1. \A k \in 1..12 : k \in 1..11 \/ k = 12
  OBVIOUS
<1>. QED BY <1>1, NodesApproach, RequestsApproach, WorkerApproaches DEF Execs

\* Twelve steps are the most there are.
LEMMA OneEnds ==
  ASSUME NEW e \in Execs
  PROVE  FairSpec /\ []NeverStuck => (pc[e] # "idle" ~> pc[e] = "idle")
<1>1. /\ Approaches(e, 1) /\ Approaches(e, 2)  /\ Approaches(e, 3)  /\ Approaches(e, 4)
      /\ Approaches(e, 5) /\ Approaches(e, 6)  /\ Approaches(e, 7)  /\ Approaches(e, 8)
      /\ Approaches(e, 9) /\ Approaches(e, 10) /\ Approaches(e, 11) /\ Approaches(e, 12)
  BY EveryoneApproaches
<1>2. IInv =>
        /\ Distance(e) = 12 \/ Distance(e) < 12
        /\ Distance(e) < 12 => Distance(e) = 11 \/ Distance(e) < 11
        /\ Distance(e) < 11 => Distance(e) = 10 \/ Distance(e) < 10
        /\ Distance(e) < 10 => Distance(e) = 9 \/ Distance(e) < 9
        /\ Distance(e) < 9 => Distance(e) = 8 \/ Distance(e) < 8
        /\ Distance(e) < 8 => Distance(e) = 7 \/ Distance(e) < 7
        /\ Distance(e) < 7 => Distance(e) = 6 \/ Distance(e) < 6
        /\ Distance(e) < 6 => Distance(e) = 5 \/ Distance(e) < 5
        /\ Distance(e) < 5 => Distance(e) = 4 \/ Distance(e) < 4
        /\ Distance(e) < 4 => Distance(e) = 3 \/ Distance(e) < 3
        /\ Distance(e) < 3 => Distance(e) = 2 \/ Distance(e) < 2
        /\ Distance(e) < 2 => Distance(e) = 1 \/ Distance(e) < 1
        /\ Distance(e) < 1 => pc[e] = "idle"
  BY DistanceBounded DEF IInv
<1>3. FairSpec => Spec
  BY DEF FairSpec
<1>. QED BY <1>1, <1>2, <1>3, Inductive, PTL DEF Approaches

\* Under the fairness of FairSpec, and because no invocation is ever stuck, every
\* invocation comes to its end, whatever the others do to its checkpoint.  That none is
\* stuck is a fact about ENABLED, which the run checks.
THEOREM InvocationsEnd == FairSpec /\ []NeverStuck => InvocationEnds
<1>1. ASSUME NEW e \in Execs
      PROVE  FairSpec /\ []NeverStuck => (pc[e] # "idle" ~> pc[e] = "idle")
  BY OneEnds
<1>. QED BY <1>1 DEF InvocationEnds

-----------------------------------------------------------------------------
(* A resume at the gate completes.                                         *)

AtGate(r)  == pc[r] = "running" /\ from[r] = "security_gate"
Reports(r) == pc[r] = "idle" /\ result[r] \in {"completed", "refused", "raised", "killed"}

\* Who resumed at the gate and is still there has the answer that lets it pass.
AnswerInHand ==
    \A r \in Resumers : AtGate(r) /\ ch[r].next = "security_gate" => pending[r]

\* What is left to do for who resumed at the gate.
Gate(r)    == AtGate(r) /\ ch[r].next = "security_gate"
Ready(r)   == AtGate(r) /\ ch[r].next = "verifier_agent"
Testing(r) == pc[r] = "verifying" /\ from[r] = "security_gate"
Writing(r) == AtGate(r) /\ ch[r].next = "format_report"

\* Each node takes it one further, past the gate with the answer it has, unless compile()
\* raises over the artifact.
LEMMA GateStep ==
  ASSUME IInv, AnswerInHand, NEW r \in Resumers, Proceeds(r)
  PROVE  /\ Gate(r) => Ready(r)'
         /\ Ready(r) => Testing(r)' \/ Reports(r)'
         /\ Testing(r) => Writing(r)'
         /\ Writing(r) => Reports(r)'
<1>a. TypeOK /\ r \in Execs /\ ch[r] \in Channels
  BY DEF IInv, TypeOK, Execs
<1>1. ASSUME Gate(r) PROVE Ready(r)'
  <2>1. SecurityGate(r) /\ pending[r]
    BY <1>1 DEF Gate, AtGate, AnswerInHand, Proceeds, Dispatch, ParseLog, Diagnose, Supervise, Fix,
                Fixers, Review, Verify, Unverifiable, Verified, FormatReport, CostExhausted, At
  <2>2. LetPass(r) \/ PassFreely(r)
    BY <2>1 DEF SecurityGate, Suspend
  <2>3. PICK b \in BOOLEAN :
           /\ ch' = [ch EXCEPT ![r] = [@ EXCEPT !.next = "verifier_agent", !.approval = b]]
           /\ UNCHANGED <<pc, from>>
    BY <2>1, <2>2 DEF SecurityGate, LetPass, PassFreely, Advance
  <2>. QED BY <1>1, <1>a, <2>3 DEF Gate, Ready, AtGate, TypeOK, Channels
<1>2. ASSUME Ready(r) PROVE Testing(r)' \/ Reports(r)'
  <2>1. Verify(r) \/ Unverifiable(r)
    BY <1>2 DEF Ready, AtGate, Proceeds, Dispatch, ParseLog, Diagnose, Supervise, Fix,
                Fixers, Review, SecurityGate, Verified, FormatReport, CostExhausted, At
  <2>2. CASE Verify(r)
    BY <1>2, <1>a, <2>2 DEF Verify, Ready, AtGate, Testing, TypeOK
  <2>3. CASE Unverifiable(r)
    BY <1>a, <2>3 DEF Unverifiable, Raises, Stop, Reports, TypeOK
  <2>. QED BY <2>1, <2>2, <2>3
<1>3. ASSUME Testing(r) PROVE Writing(r)'
  <2>1. Verified(r)
    BY <1>3 DEF Testing, Proceeds, Dispatch, ParseLog, Diagnose, Supervise, Fix,
                Fixers, Review, SecurityGate, Verify, Unverifiable, FormatReport, CostExhausted, At
  <2>. QED BY <1>3, <1>a, <2>1 DEF Verified, Advance, Testing, Writing, AtGate, TypeOK, Channels
<1>4. ASSUME Writing(r) PROVE Reports(r)'
  <2>1. FormatReport(r)
    BY <1>4 DEF Writing, AtGate, Proceeds, Dispatch, ParseLog, Diagnose, Supervise, Fix,
                Fixers, Review, SecurityGate, Verify, Unverifiable, Verified, CostExhausted, At
  <2>. QED BY <1>a, <2>1 DEF FormatReport, Finish, Stop, Reports, TypeOK
<1>. QED BY <1>1, <1>2, <1>3, <1>4

\* A step other than those leaves r's invocation where it is, or ends it at once.
LEMMA OthersAtGate ==
  ASSUME IInv, NEW r \in Resumers, [Next]_vars, ~Proceeds(r),
         pc[r] \in {"running", "verifying"}
  PROVE  UNCHANGED <<pc[r], ch[r], from[r], pending[r]>> \/ Reports(r)'
<1>a. TypeOK /\ r \in Execs /\ r # Worker
  BY ExecsAssumption DEF IInv, Execs
<1>1. ASSUME NEW e \in Execs, e # r, Node(e)
      PROVE  UNCHANGED <<pc[r], ch[r], from[r], pending[r]>>
  <2>1. from'[r] = from[r]
    BY <1>a, <1>1
       DEF Node, Proceeds, Dispatch, ParseLog, Diagnose, Supervise, Fix, Review, Judge,
           HoldUnjudged, Reviewed, SecurityGate,
           Suspend, LetPass, PassFreely, Verify, Unverifiable, Verified, FormatReport, CostExhausted, Refused,
           Answered, Trips, Raises, Finish, Stop, TypeOK
  <2>. QED BY <1>a, <1>1, <2>1, Moves
<1>2. CASE Submit
  BY <1>a, <1>2 DEF Submit, Advance, Stop, TypeOK
<1>3. ASSUME NEW q \in Resumers, ResumeRequest(q) \/ ResumeInvoke(q)
      PROVE  UNCHANGED <<pc[r], ch[r], from[r], pending[r]>>
  BY <1>a, <1>3 DEF ResumeRequest, ResumeInvoke, Stop, TypeOK
<1>4. CASE Crash
  BY <1>a, <1>4 DEF Crash, Reports
<1>5. CASE UNCHANGED vars
  BY <1>5 DEF vars
<1>6. CASE Refused(r)
  BY <1>a, <1>6 DEF Refused, Stop, Reports, TypeOK
<1>. QED BY <1>1, <1>2, <1>3, <1>4, <1>5, <1>6 DEF Next, Node

\* The answer is offered to the first superstep of the resumed invocation, and that
\* one is the gate.
LEMMA AnswersInductive == Spec => []AnswerInHand
<1>1. Init => AnswerInHand
  BY DEF Init, AnswerInHand, AtGate, Execs
<1>2. IInv /\ ResumeSkipsCompletedNodes /\ AnswerInHand /\ [Next]_vars => AnswerInHand'
  <2>. SUFFICES ASSUME IInv, ResumeSkipsCompletedNodes, AnswerInHand, [Next]_vars,
                       NEW r \in Resumers, Gate(r)'
                PROVE  pending'[r]
    BY DEF AnswerInHand, Gate
  <2>a. TypeOK /\ r \in Execs /\ r # Worker
    BY ExecsAssumption DEF IInv, Execs
  <2>1. CASE Proceeds(r)
    <3>1. from[r] = "security_gate" /\ pc[r] \in {"running", "verifying"}
      BY <2>1, <2>a DEF Gate, AtGate,
         Proceeds, Dispatch, ParseLog, Diagnose, Supervise, Fix, Review, Judge, HoldUnjudged,
         Reviewed, SecurityGate,
         Suspend, LetPass, PassFreely, Verify, Unverifiable, Verified, FormatReport, CostExhausted,
         Answered, Trips, Raises, Finish, Advance, Stop, At, TypeOK
    <3>2. Gate(r) \/ Ready(r) \/ Testing(r) \/ Writing(r)
      BY <3>1 DEF ResumeSkipsCompletedNodes, Gated, Gate, Ready, Testing, Writing, AtGate
    <3>3. Ready(r)' \/ Testing(r)' \/ Writing(r)' \/ Reports(r)'
      BY <2>1, <3>2, GateStep
    <3>. QED BY <3>3 DEF Gate, Ready, Testing, Writing, Reports, AtGate
  <2>2. CASE ~Proceeds(r) /\ pc[r] \in {"running", "verifying"}
    <3>1. UNCHANGED <<pc[r], ch[r], from[r], pending[r]>>
      BY <2>2, OthersAtGate DEF Gate, AtGate, Reports
    <3>. QED BY <3>1 DEF Gate, AtGate, AnswerInHand
  <2>3. CASE ~Proceeds(r) /\ pc[r] \in {"idle", "checked"}
    <3>1. ASSUME NEW e \in Execs, e # r, Node(e) PROVE pc'[r] = pc[r]
      BY <2>a, <3>1, Moves
    <3>2. ResumeInvoke(r)
      BY <2>3, <2>a, <3>1
         DEF Gate, AtGate, Next, Node, Refused, Submit, ResumeRequest, ResumeInvoke, Stop, Crash,
             vars, TypeOK
    <3>. QED BY <2>a, <3>2 DEF ResumeInvoke, Stop, Gate, AtGate, TypeOK
  <2>. QED BY <2>a, <2>1, <2>2, <2>3 DEF TypeOK
<1>. QED BY <1>1, <1>2, Inductive, CompletedNodesAreSkipped, PTL DEF Spec

\* A node can run for e.
HasNext(e) == ENABLED <<Proceeds(e)>>_vars

LEMMA SomethingNext ==
  ASSUME NEW e \in Execs
  PROVE  NeverStuck /\ pc[e] \in {"running", "verifying"} => HasNext(e)
  BY DEF NeverStuck, HasNext

LEMMA OneCompletes ==
  ASSUME NEW r \in Resumers
  PROVE  FairSpec /\ []NeverStuck => (AtGate(r) ~> Reports(r))
<1>1. ResumeSkipsCompletedNodes /\ AtGate(r) => Gate(r) \/ Ready(r) \/ Writing(r)
  BY DEF ResumeSkipsCompletedNodes, Gated, AtGate, Gate, Ready, Writing
<1>2. IInv /\ AnswerInHand /\ [Next]_vars /\ <<Proceeds(r)>>_vars =>
         /\ Gate(r) => Ready(r)'
         /\ Ready(r) => Testing(r)' \/ Reports(r)'
         /\ Testing(r) => Writing(r)'
         /\ Writing(r) => Reports(r)'
  BY GateStep
<1>3. IInv /\ AnswerInHand /\ [Next]_vars =>
         /\ Gate(r) => Gate(r)' \/ Ready(r)' \/ Reports(r)'
         /\ Ready(r) => Ready(r)' \/ Testing(r)' \/ Reports(r)'
         /\ Testing(r) => Testing(r)' \/ Writing(r)' \/ Reports(r)'
         /\ Writing(r) => Writing(r)' \/ Reports(r)'
  <2>. SUFFICES ASSUME IInv, AnswerInHand, [Next]_vars, ~Proceeds(r),
                       pc[r] \in {"running", "verifying"}
                PROVE  UNCHANGED <<pc[r], ch[r], from[r]>> \/ Reports(r)'
    BY GateStep DEF Gate, Ready, Testing, Writing, AtGate
  <2>. QED BY OthersAtGate
<1>4. NeverStuck /\ (Gate(r) \/ Ready(r) \/ Testing(r) \/ Writing(r)) => HasNext(r)
  BY SomethingNext DEF Gate, Ready, Testing, Writing, AtGate, Execs
<1>5. FairSpec => Spec /\ Scheduled(r)
  BY DEF FairSpec, Execs
<1>. QED
  BY <1>1, <1>2, <1>3, <1>4, <1>5, Inductive, AnswersInductive, CompletedNodesAreSkipped, PTL
     DEF Spec, Scheduled, HasNext

\* Under the same hypotheses, an incident resumed at the gate gets its report unless the
\* process dies, the database or the disk refuses, or compile() raises over the artifact: no
\* other node from the gate on raises, and none trips the budget or asks again.
THEOREM AnsweredGatesComplete == FairSpec /\ []NeverStuck => AnsweredGateCompletes
<1>1. ASSUME NEW r \in Resumers
      PROVE  FairSpec /\ []NeverStuck => (AtGate(r) ~> Reports(r))
  BY OneCompletes
<1>. QED BY <1>1 DEF AnsweredGateCompletes, AtGate, Reports

-----------------------------------------------------------------------------
(* The part of NeverStuck that does not speak of ENABLED.                  *)

\* Who runs is at a node of the graph, and who is to resume has a checkpoint.
AlwaysSomewhere ==
    /\ \A e \in Execs : pc[e] = "running" => ch[e].next \in Nodes
    /\ \A r \in Resumers : pc[r] = "checked" => saved.next # "none"

\* Every edge leads to a node, and the checkpoint is never taken away.
LEMMA EdgesLeadToNodes ==
  ASSUME TypeOK, NEW e \in Execs, Node(e)
  PROVE  /\ pc'[e] = "running" => ch'[e].next \in Nodes
         /\ saved' = saved \/ saved'.next # "none"
<1>a. ch[e] \in Channels /\ ch \in [Execs -> Channels]
  BY DEF TypeOK
<1>1. ASSUME NEW x, x.next \in Nodes, Advance(e, x)
      PROVE  ch'[e].next \in Nodes /\ (saved' = saved \/ saved'.next # "none")
  BY <1>1, <1>a DEF Advance, Save, Nodes, Fixers
<1>2. ASSUME NEW how, Stop(e, how) PROVE pc'[e] # "running"
  BY <1>2 DEF Stop, TypeOK
<1>3. ASSUME NEW x \in Channels, NEW how, Finish(e, x, how)
      PROVE  pc'[e] # "running" /\ (saved' = saved \/ saved'.next # "none")
  BY <1>2, <1>3 DEF Finish, Save, Channels
<1>r. \A x \in Channels, n \in Nodes : Route(x, n).next \in Nodes
  BY DEF Route, Channels, Nodes
<1>n. /\ \A n \in Nodes : [ch[e] EXCEPT !.next = n].next \in Nodes
      /\ \A n \in Nodes, b \in BOOLEAN :
            /\ [ch[e] EXCEPT !.next = n, !.approval = b].next \in Nodes
  BY <1>a DEF Channels
<1>4. ASSUME NEW x \in Channels, NEW n \in Nodes, LlmStep(e, x, n)
      PROVE  /\ pc'[e] = "running" => ch'[e].next \in Nodes
             /\ saved' = saved \/ saved'.next # "none"
  <2>1. CASE Answered(e, Route(x, n))
    BY <1>1, <1>r, <2>1 DEF Answered
  <2>2. CASE Trips(e, Route(Flagged(e), n))
    <3>1. Route(Flagged(e), n).next \in Nodes
      BY FlagDiverts DEF Nodes
    <3>. QED BY <1>1, <2>2, <3>1 DEF Trips
  <2>3. CASE Raises(e)
    BY <1>2, <2>3 DEF Raises
  <2>. QED BY <1>4, <2>1, <2>2, <2>3 DEF LlmStep
<1>5. CASE Dispatch(e)
  <2>1. Advance(e, [ch[e] EXCEPT !.next = "parse_log"])
    BY <1>5 DEF Dispatch
  <2>2. [ch[e] EXCEPT !.next = "parse_log"].next \in Nodes
    BY <1>n DEF Nodes
  <2>. QED BY <1>1, <2>1, <2>2
<1>6. CASE ParseLog(e)
  <2>1. [ch[e] EXCEPT !.next = "diagnosis_agent"].next \in Nodes
    BY <1>n DEF Nodes
  <2>. QED BY <1>1, <1>3, <1>6, <1>a, <2>1 DEF ParseLog
<1>7. CASE Diagnose(e) \/ Supervise(e)
  <2>1. PICK n \in Nodes : LlmStep(e, ch[e], n)
    BY <1>7, LlmSteps DEF Nodes
  <2>. QED BY <1>4, <1>a, <2>1
<1>8. CASE Fix(e)
  <2>1. made < MaxArtifacts => made + 1 \in 0..MaxArtifacts
    BY PipelineBounds DEF TypeOK
  <2>2. made < MaxArtifacts => [ch[e] EXCEPT !.artifact = made + 1] \in Channels
    BY <1>a, <2>1 DEF Channels
  <2>3. PICK x \in Channels : LlmStep(e, x, "security_reviewer")
    BY <1>8, <1>a, <2>2, LlmSteps
  <2>. QED BY <1>4, <2>3 DEF Nodes
<1>9. CASE Review(e)
  <2>1. CASE LlmStep(e, ch[e], "security_gate")
    BY <1>4, <1>a, <2>1 DEF Nodes
  <2>2. CASE \E v \in Verdicts : Reviewed(e, v)
    <3>1. PICK v \in Verdicts : Reviewed(e, v)
      BY <2>2
    <3>2. [ch[e] EXCEPT !.verdict = FinalVerdict(ch[e].artifact, v)] \in Channels
      BY <1>a DEF Channels, FinalVerdict, Verdicts
    <3>. QED BY <1>1, <1>r, <3>1, <3>2, EdgesRoute DEF Reviewed, Nodes
  <2>. QED BY <1>9, <2>1, <2>2, LlmSteps
<1>10. CASE SecurityGate(e)
  <2>1. CASE Suspend(e)
    BY <1>2, <2>1 DEF Suspend
  <2>2. CASE LetPass(e) \/ PassFreely(e)
    <3>1. PICK b \in BOOLEAN :
             Advance(e, [ch[e] EXCEPT !.next = "verifier_agent", !.approval = b])
      BY <2>2 DEF LetPass, PassFreely
    <3>2. [ch[e] EXCEPT !.next = "verifier_agent", !.approval = b].next \in Nodes
      BY <1>n DEF Nodes
    <3>. QED BY <1>1, <3>1, <3>2
  <2>. QED BY <1>10, <2>1, <2>2 DEF SecurityGate
<1>11. CASE Verify(e)
  BY <1>11 DEF Verify, TypeOK
<1>12. CASE Verified(e)
  <2>1. Advance(e, [ch[e] EXCEPT !.next = "format_report"])
    BY <1>12 DEF Verified
  <2>2. [ch[e] EXCEPT !.next = "format_report"].next \in Nodes
    BY <1>n DEF Nodes
  <2>. QED BY <1>1, <2>1, <2>2
<1>13. CASE FormatReport(e) \/ CostExhausted(e)
  <2>1. [ch[e] EXCEPT !.report = TRUE] \in Channels
    BY <1>a DEF Channels
  <2>. QED BY <1>3, <1>13, <1>a, <2>1 DEF FormatReport, CostExhausted
<1>14. CASE Refused(e)
  BY <1>2, <1>14 DEF Refused
<1>15. CASE Unverifiable(e)
  BY <1>2, <1>15 DEF Unverifiable, Raises
<1>. QED
  BY <1>5, <1>6, <1>7, <1>8, <1>9, <1>10, <1>11, <1>12, <1>13, <1>14, <1>15
     DEF Node, Proceeds

\* No invocation is lost between two nodes: whatever the others do, who runs is at a node
\* of the graph and who passed the 404 check still has a checkpoint to continue from.
\* With the guards of the nodes, this is what NeverStuck rests on.
THEOREM InvocationsAreSomewhere == Spec => []AlwaysSomewhere
<1>1. Init => AlwaysSomewhere
  BY DEF Init, AlwaysSomewhere, Execs
<1>2. TypeOK /\ TypeOK' /\ AlwaysSomewhere /\ [Next]_vars => AlwaysSomewhere'
  <2>. SUFFICES ASSUME TypeOK, TypeOK', AlwaysSomewhere, [Next]_vars PROVE AlwaysSomewhere'
    OBVIOUS
  <2>a. Worker \in Execs /\ \A r \in Resumers : r \in Execs /\ r # Worker
    BY ExecsAssumption DEF Execs
  <2>1. ASSUME NEW e \in Execs, Node(e) PROVE AlwaysSomewhere'
    <3>1. /\ \A f \in Execs \ {e} : pc'[f] = pc[f] /\ ch'[f] = ch[f]
          /\ pc'[e] # "checked"
      BY <2>1, Moves
    <3>2. /\ pc'[e] = "running" => ch'[e].next \in Nodes
          /\ saved' = saved \/ saved'.next # "none"
      BY <2>1, EdgesLeadToNodes
    <3>. QED BY <2>a, <3>1, <3>2 DEF AlwaysSomewhere
  <2>2. ASSUME NEW r \in Resumers, ResumeRequest(r) PROVE AlwaysSomewhere'
    BY <2>2, <2>a DEF ResumeRequest, AlwaysSomewhere, TypeOK
  <2>3. ASSUME NEW r \in Resumers, ResumeInvoke(r) PROVE AlwaysSomewhere'
    <3>1. saved.next # "none" /\ saved \in Channels /\ UNCHANGED saved
      BY <2>3 DEF ResumeInvoke, AlwaysSomewhere, TypeOK
    <3>2. saved.next \in Nodes \/ saved.next = "END"
      BY <3>1 DEF Channels
    <3>. QED BY <2>3, <2>a, <3>1, <3>2 DEF ResumeInvoke, Load, Stop, AlwaysSomewhere, TypeOK
  <2>4. CASE Submit
    <3>1. InitialState.next = "dispatch"
      BY DEF InitialState, NoCheckpoint
    <3>. QED BY <2>4, <2>a, <3>1 DEF Submit, Advance, Save, Stop, AlwaysSomewhere, TypeOK, Nodes, Fixers
  <2>5. CASE Crash
    BY <2>5, <2>a DEF Crash, AlwaysSomewhere
  <2>6. CASE UNCHANGED vars
    BY <2>6 DEF vars, AlwaysSomewhere
  <2>. QED BY <2>1, <2>2, <2>3, <2>4, <2>5, <2>6 DEF Next
<1>. QED BY <1>1, <1>2, TypeCorrect, PTL DEF Spec

-----------------------------------------------------------------------------
(* Without a DSN.                                                          *)

\* The thread has no checkpoint, every resume request is answered 404, and no artifact
\* passes the gate but with a verdict that needs no approval.
SuspendedIsGone ==
    /\ saved = NoCheckpoint
    /\ \A r \in Resumers : pc[r] = "idle"
    /\ \A e \in Execs : ~pending[e]
    /\ \A a \in Artifacts : released[a] = {}
    /\ \A a \in Artifacts : execs[a] > 0 => "cleared" \in reviews[a]

\* Without AUTOSENTINEL_CHECKPOINTER_DSN every graph has a MemorySaver of its own: an
\* incident that suspends at the gate cannot be resumed, in the same process or another,
\* and its artifact is never executed.
THEOREM WithoutDsnSuspendedIsGone ==
  ASSUME Durable = FALSE
  PROVE  Spec => []SuspendedIsGone
<1>1. Init => SuspendedIsGone
  BY DEF Init, SuspendedIsGone, Execs
<1>2. IInv /\ IInv' /\ SuspendedIsGone /\ [Next]_vars => SuspendedIsGone'
  <2>. SUFFICES ASSUME IInv, IInv', SuspendedIsGone, [Next]_vars PROVE SuspendedIsGone'
    OBVIOUS
  <2>a. TypeOK /\ \A r \in Resumers : r \in Execs /\ r # Worker
    BY ExecsAssumption DEF IInv, Execs
  <2>1. saved' = saved
    <3>1. ASSUME NEW x, Save(x) PROVE saved' = saved
      BY <3>1 DEF Save
    <3>2. ASSUME NEW e \in Execs, NEW x, Advance(e, x) PROVE saved' = saved
      BY <3>1, <3>2 DEF Advance
    <3>3. ASSUME NEW e \in Execs, Node(e) PROVE saved' = saved
      <4>1. CASE Dispatch(e) \/ ParseLog(e)
        BY <3>1, <3>2, <4>1 DEF Dispatch, ParseLog, Finish
      <4>2. CASE Diagnose(e) \/ Supervise(e) \/ Fix(e)
        BY <3>2, <4>2 DEF Diagnose, Supervise, Fix, Answered, Trips, Raises
      <4>3. CASE Review(e)
        BY <3>2, <4>3 DEF Review, Judge, HoldUnjudged, Reviewed, Trips, Raises
      <4>4. CASE SecurityGate(e)
        BY <3>2, <4>4 DEF SecurityGate, Suspend, LetPass, PassFreely
      <4>5. CASE Verify(e) \/ Unverifiable(e) \/ Verified(e)
        BY <3>2, <4>5 DEF Verify, Unverifiable, Raises, Verified
      <4>6. CASE FormatReport(e) \/ CostExhausted(e)
        BY <3>1, <4>6 DEF FormatReport, CostExhausted, Finish
      <4>7. CASE Refused(e)
        BY <4>7 DEF Refused
      <4>. QED BY <3>3, <4>1, <4>2, <4>3, <4>4, <4>5, <4>6, <4>7 DEF Node, Proceeds
    <3>4. Worker \in Execs
      BY DEF Execs
    <3>. QED
      BY <3>2, <3>3, <3>4 DEF Next, Submit, ResumeRequest, ResumeInvoke, Crash, vars
  <2>2. /\ \A r \in Resumers : pc'[r] = "idle"
        /\ \A e \in Execs : ~pending'[e]
        /\ released' = released
    <3>1. ASSUME NEW e \in Execs, Node(e)
          PROVE  /\ \A r \in Resumers : pc'[r] = "idle"
                 /\ \A f \in Execs : ~pending'[f]
                 /\ released' = released
      <4>1. pc[e] # "idle"
        BY <3>1 DEF Node, Proceeds, Dispatch, ParseLog, Diagnose, Supervise, Fix, Review, SecurityGate,
                    Verify, Unverifiable, Verified, FormatReport, CostExhausted, Refused, At
      <4>2. released' = released
        BY <3>1 DEF SuspendedIsGone, Node, Proceeds, Dispatch, ParseLog, Diagnose, Supervise, Fix, Review,
                    SecurityGate, Suspend, LetPass, PassFreely, Verify, Unverifiable, Verified, FormatReport,
                    CostExhausted, Refused, gateVars
      <4>. QED BY <2>a, <3>1, <4>1, <4>2, Moves DEF SuspendedIsGone
    <3>2. ASSUME NEW r \in Resumers, ResumeRequest(r)
          PROVE  UNCHANGED <<pc, pending, released>>
      BY <3>2 DEF SuspendedIsGone, NoCheckpoint, ResumeRequest, gateVars
    <3>3. ASSUME NEW r \in Resumers PROVE ~ResumeInvoke(r)
      BY DEF SuspendedIsGone, ResumeInvoke
    <3>4. CASE Submit
      BY <2>a, <3>4 DEF SuspendedIsGone, Submit, Advance, Stop, TypeOK, gateVars
    <3>5. CASE Crash
      BY <2>a, <3>5 DEF Crash, gateVars
    <3>6. CASE UNCHANGED vars
      BY <3>6 DEF SuspendedIsGone, vars, gateVars
    <3>. QED BY <3>1, <3>2, <3>3, <3>4, <3>5, <3>6 DEF SuspendedIsGone, Next
  <2>3. \A a \in Artifacts : released'[a] = {}
    BY <2>2 DEF SuspendedIsGone
  <2>4. \A a \in Artifacts : execs'[a] > 0 => "cleared" \in reviews'[a]
    BY <2>3 DEF IInv, HistoryOK
  <2>. QED BY <2>1, <2>2, <2>3, <2>4 DEF SuspendedIsGone, NoCheckpoint
<1>. QED BY <1>1, <1>2, Inductive, PTL DEF Spec
=============================================================================
