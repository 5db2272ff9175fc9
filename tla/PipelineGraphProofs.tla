------------------------ MODULE PipelineGraphProofs -------------------------
(***************************************************************************)
(* Proof that the pipeline implements GraphRuns, the graph as EventGateway *)
(* takes it to be, for any number of resume requests, submissions,         *)
(* artifacts and restarts, when the checkpoints are durable.               *)
(*                                                                         *)
(* The argument: whatever the node, its return does one of five things to  *)
(* the invocation, the checkpoint and the history of failures.  Each is a  *)
(* step of GraphRuns, given where a resumed invocation can be: from the    *)
(* gate on, and at the gate itself only with its answer in hand.           *)
(***************************************************************************)
EXTENDS PipelineProofs

\* Who continues from the gate, or from behind it, never gets before it, and who is not
\* running does not continue from anywhere.
Placed ==
    \A e \in Execs :
        /\ pc[e] \in {"idle", "checked"} => from[e] = "none"
        /\ from[e] \in Gated => ch[e].next \in Gated
        /\ from[e] \in Gated /\ ch[e].next = "security_gate" => pending[e]

-----------------------------------------------------------------------------
(* What the return of a node does.                                         *)

\* The invocation goes on, from a node at the gate or behind it to one behind it.
GoesOn(e) ==
    /\ \E x \in Channels :
        /\ x.next \in Nodes
        /\ ch[e].next \in Gated => x.next \in Passed
        /\ ch' = [ch EXCEPT ![e] = x] /\ saved' = x
    /\ pc' = [pc EXCEPT ![e] = "running"]
    /\ UNCHANGED <<from, failed>>

\* It asks a human, and does not have the answer.
Asks(e) ==
    /\ ch[e].next = "security_gate" /\ ~pending[e]
    /\ Stop(e, "interrupted")
    /\ UNCHANGED saved

\* It raises.
GivesUp(e) ==
    /\ Stop(e, "raised") \/ Stop(e, "refused")
    /\ UNCHANGED saved

\* It ends the graph before the gate.
Aborts(e) ==
    /\ ch[e].next \notin Gated
    /\ Stop(e, "parse_error") \/ Stop(e, "cost_exhausted")
    /\ saved'.next = "END"

\* It ends the graph with the report.
Completes(e) ==
    /\ ch[e].next = "format_report"
    /\ Stop(e, "completed")
    /\ saved'.next = "END"

\* Every node does one of these, or has the Verifier start.
LEMMA Outcomes ==
  ASSUME Durable = TRUE, TypeOK, VerifyingCounted, NEW e \in Execs, Node(e)
  PROVE  /\ pc[e] \in {"running", "verifying"} /\ crashes' = crashes
         /\ \/ GoesOn(e) \/ Asks(e) \/ GivesUp(e) \/ Aborts(e) \/ Completes(e)
            \/ Verify(e)
<1>a. ch[e] \in Channels /\ ch \in [Execs -> Channels] /\ pc \in [Execs -> {"idle", "checked", "running", "verifying"}]
  BY DEF TypeOK
<1>p. pc[e] \in {"running", "verifying"}
  BY DEF Node, Proceeds, Dispatch, ParseLog, Diagnose, Supervise, Fix, Review, SecurityGate,
     Verify, Unverifiable, Verified, FormatReport, CostExhausted, Refused, At
<1>q. crashes' = crashes
  BY DEF Node, Proceeds, Dispatch, ParseLog, Diagnose, Supervise, Fix, Review, SecurityGate,
     Verify, Unverifiable, Verified, FormatReport, CostExhausted, Refused, counters
<1>1. ASSUME NEW x \in Channels, x.next \in Nodes, Advance(e, x),
             ch[e].next \in Gated => x.next \in Passed,
             pc' = [pc EXCEPT ![e] = "running"], UNCHANGED <<from, failed>>
      PROVE  GoesOn(e)
  BY <1>1 DEF Advance, Save, GoesOn
<1>r. ASSUME pc[e] = "running", UNCHANGED pc PROVE pc' = [pc EXCEPT ![e] = "running"]
  BY <1>r, <1>a
<1>2. ASSUME NEW x \in Channels, NEW n \in Nodes, ch[e].next \notin Gated, pc[e] = "running",
             Advance(e, Route(x, n)), UNCHANGED <<pc, from, failed>>
      PROVE  GoesOn(e)
  <2>1. Route(x, n) \in Channels /\ Route(x, n).next \in Nodes
    <3>1. (IF x.exhausted THEN "cost_exhausted" ELSE n) \in Nodes
      BY DEF Nodes
    <3>. QED BY <3>1, RouteTyped DEF Route, Channels
  <2>. QED BY <1>1, <1>2, <1>r, <2>1
<1>3. ASSUME NEW x \in Channels, NEW n \in Nodes, ch[e].next \notin Gated, pc[e] = "running",
             LlmStep(e, x, n)
      PROVE  GoesOn(e) \/ GivesUp(e)
  <2>1. CASE Answered(e, Route(x, n))
    BY <1>2, <1>3, <2>1 DEF Answered
  <2>2. CASE Trips(e, Route(Flagged(e), n))
    <3>1. Flagged(e) \in Channels
      BY FlagDiverts
    <3>. QED BY <1>2, <1>3, <2>2, <3>1 DEF Trips
  <2>3. CASE Raises(e)
    BY <2>3 DEF Raises, GivesUp
  <2>. QED BY <1>3, <2>1, <2>2, <2>3 DEF LlmStep
<1>4. CASE Dispatch(e) \/ ParseLog(e)
  <2>1. ASSUME NEW n \in {"parse_log", "diagnosis_agent"}, ch[e].next \notin Gated,
               pc[e] = "running", Advance(e, [ch[e] EXCEPT !.next = n]),
               UNCHANGED <<pc, from, failed>>
        PROVE  GoesOn(e)
    <3>1. [ch[e] EXCEPT !.next = n] \in Channels /\ [ch[e] EXCEPT !.next = n].next \in Nodes
      BY <1>a DEF Channels, Nodes
    <3>. QED BY <1>1, <1>r, <2>1, <3>1
  <2>2. ASSUME Finish(e, ch[e], "parse_error"), ch[e].next \notin Gated PROVE Aborts(e)
    <3>1. saved' = [ch[e] EXCEPT !.next = "END"]
      BY <2>2 DEF Finish, Save
    <3>2. saved'.next = "END"
      BY <1>a, <3>1 DEF Channels
    <3>. QED BY <2>2, <3>2 DEF Aborts, Finish
  <2>3. ch[e].next \notin Gated /\ pc[e] = "running"
    BY <1>4 DEF Dispatch, ParseLog, At, Gated
  <2>. QED BY <1>4, <1>p, <1>q, <2>1, <2>2, <2>3 DEF Dispatch, ParseLog
<1>5. CASE Diagnose(e) \/ Supervise(e) \/ Fix(e)
  <2>1. ch[e].next \notin Gated /\ pc[e] = "running"
    BY <1>5 DEF Diagnose, Supervise, Fix, Fixers, At, Gated
  <2>2. CASE Diagnose(e) \/ Supervise(e)
    <3>1. PICK n \in Nodes : LlmStep(e, ch[e], n)
      BY <2>2, LlmSteps DEF Nodes
    <3>. QED BY <1>3, <1>a, <1>p, <1>q, <2>1, <3>1
  <2>3. CASE Fix(e)
    <3>1. made < MaxArtifacts => made + 1 \in 0..MaxArtifacts
      BY PipelineBounds DEF TypeOK
    <3>2. made < MaxArtifacts => [ch[e] EXCEPT !.artifact = made + 1] \in Channels
      BY <1>a, <3>1 DEF Channels
    <3>3. PICK x \in Channels : LlmStep(e, x, "security_reviewer")
      BY <2>3, <1>a, <3>2, LlmSteps
    <3>. QED BY <1>3, <1>p, <1>q, <2>1, <3>3 DEF Nodes
  <2>. QED BY <1>5, <2>2, <2>3
<1>6. CASE Review(e)
  <2>1. ch[e].next \notin Gated /\ pc[e] = "running"
    BY <1>6 DEF Review, At, Gated
  <2>2. CASE LlmStep(e, ch[e], "security_gate")
    BY <1>3, <1>a, <1>p, <1>q, <2>1, <2>2 DEF Nodes
  <2>3. CASE \E v \in Verdicts : Reviewed(e, v)
    <3>1. PICK v \in Verdicts : Reviewed(e, v)
      BY <2>3
    <3>2. [ch[e] EXCEPT !.verdict = FinalVerdict(ch[e].artifact, v)] \in Channels
      BY <1>a DEF Channels, FinalVerdict, Verdicts
    <3>3. "security_gate" \in Nodes
      BY DEF Nodes
    <3>. QED BY <1>2, <1>p, <1>q, <2>1, <3>1, <3>2, <3>3, EdgesRoute DEF Reviewed
  <2>. QED BY <1>6, <2>2, <2>3, LlmSteps
<1>7. CASE SecurityGate(e)
  <2>0. ch[e].next = "security_gate" /\ pc[e] = "running"
    BY <1>7 DEF SecurityGate, At
  <2>1. CASE Suspend(e)
    BY <1>p, <1>q, <2>0, <2>1 DEF Suspend, Asks
  <2>2. CASE LetPass(e) \/ PassFreely(e)
    <3>1. PICK b \in BOOLEAN :
             Advance(e, [ch[e] EXCEPT !.next = "verifier_agent", !.approval = b])
      BY <2>2 DEF LetPass, PassFreely
    <3>2. /\ [ch[e] EXCEPT !.next = "verifier_agent", !.approval = b] \in Channels
          /\ [ch[e] EXCEPT !.next = "verifier_agent", !.approval = b].next \in Nodes \cap Passed
      BY <1>a DEF Channels, Nodes, Passed
    <3>3. UNCHANGED <<pc, from, failed>>
      BY <2>2 DEF LetPass, PassFreely
    <3>. QED BY <1>1, <1>p, <1>q, <1>r, <2>0, <3>1, <3>2, <3>3
  <2>. QED BY <1>7, <2>1, <2>2 DEF SecurityGate
<1>8. CASE Verified(e)
  <2>1. /\ [ch[e] EXCEPT !.next = "format_report"] \in Channels
        /\ [ch[e] EXCEPT !.next = "format_report"].next \in Nodes \cap Passed
    BY <1>a DEF Channels, Nodes, Passed
  <2>. QED BY <1>1, <1>8, <1>p, <1>q, <2>1 DEF Verified
<1>9. CASE FormatReport(e) \/ CostExhausted(e)
  <2>1. ASSUME NEW x \in Channels, NEW how, Finish(e, x, how)
        PROVE  saved'.next = "END" /\ Stop(e, how)
    BY <2>1 DEF Finish, Save, Channels
  <2>2. [ch[e] EXCEPT !.report = TRUE] \in Channels
    BY <1>a DEF Channels
  <2>3. CASE FormatReport(e)
    BY <1>p, <1>q, <2>1, <2>2, <2>3 DEF FormatReport, At, Completes
  <2>4. CASE CostExhausted(e)
    BY <1>a, <1>p, <1>q, <2>1, <2>4 DEF CostExhausted, At, Aborts, Gated
  <2>. QED BY <1>9, <2>3, <2>4
<1>10. CASE Refused(e) \/ Unverifiable(e)
  BY <1>p, <1>q, <1>10 DEF Refused, Unverifiable, Raises, GivesUp
<1>. QED
  BY <1>p, <1>q, <1>4, <1>5, <1>6, <1>7, <1>8, <1>9, <1>10 DEF Node, Proceeds

-----------------------------------------------------------------------------
(* Where a resumed invocation can be.                                      *)

\* A node's return disturbs nobody else.
LEMMA OthersStay ==
  ASSUME Durable = TRUE, IInv, NEW e \in Execs, Node(e)
  PROVE  \A f \in Execs \ {e} : UNCHANGED <<pc[f], ch[f], pending[f], from[f]>>
<1>1. TypeOK /\ VerifyingCounted
  BY DEF IInv
<1>2. \A f \in Execs \ {e} : UNCHANGED <<pc[f], ch[f], pending[f]>>
  BY <1>1, Moves
<1>3. \A f \in Execs \ {e} : from'[f] = from[f]
  BY <1>1, Outcomes
     DEF GoesOn, Asks, GivesUp, Aborts, Completes, Verify, Stop, TypeOK
<1>. QED BY <1>2, <1>3

\* Only an invocation that loads a checkpoint from the gate on is resumed there, and it
\* brings the answer.
LEMMA PlacedInductive == ASSUME Durable = TRUE PROVE Spec => []Placed
<1>1. Init => Placed
  BY DEF Init, Placed, Gated
<1>2. IInv /\ Placed /\ [Next]_vars => Placed'
  <2>. SUFFICES ASSUME IInv, Placed, [Next]_vars PROVE Placed'
    OBVIOUS
  <2>a. TypeOK /\ VerifyingCounted /\ Worker \in Execs /\ Resumers \subseteq Execs
    BY DEF IInv, Execs
  <2>n. "none" \notin Gated /\ "dispatch" \notin Gated /\ "security_gate" \notin Passed
        /\ Passed \subseteq Gated
    BY DEF Gated, Passed
  <2>1. ASSUME NEW e \in Execs, Node(e) PROVE Placed'
    <3>1. pc[e] \in {"running", "verifying"} /\ ch[e] \in Channels
      BY <2>1, <2>a, Outcomes DEF TypeOK
    <3>2. CASE GoesOn(e)
      <4>1. /\ pc'[e] = "running" /\ from'[e] = from[e]
            /\ ch[e].next \in Gated => ch'[e].next \in Passed
        BY <2>a, <3>2 DEF GoesOn, TypeOK
      <4>. QED BY <2>1, <2>n, <4>1, OthersStay DEF Placed
    <3>3. CASE Asks(e) \/ GivesUp(e) \/ Aborts(e) \/ Completes(e)
      <4>1. from'[e] = "none"
        BY <2>a, <3>3 DEF Asks, GivesUp, Aborts, Completes, Stop, TypeOK
      <4>. QED BY <2>1, <2>n, <4>1, OthersStay DEF Placed
    <3>4. CASE Verify(e)
      <4>1. UNCHANGED <<from, ch, pending>> /\ pc'[e] = "verifying"
        BY <2>a, <3>4 DEF Verify, TypeOK
      <4>. QED BY <2>1, <2>n, <4>1, OthersStay DEF Placed
    <3>. QED BY <2>1, <2>a, <3>2, <3>3, <3>4, Outcomes
  <2>2. ASSUME NEW r \in Resumers, ResumeRequest(r) PROVE Placed'
    BY <2>2, <2>a DEF ResumeRequest, Placed, TypeOK
  <2>3. ASSUME NEW r \in Resumers, ResumeInvoke(r) PROVE Placed'
    BY <2>3, <2>a, <2>n DEF ResumeInvoke, Load, Stop, Placed, TypeOK
  <2>4. CASE Submit
    BY <2>4, <2>a, <2>n DEF Submit, Advance, Stop, Placed, TypeOK
  <2>5. CASE Crash
    BY <2>5, <2>n DEF Crash, Placed
  <2>6. CASE UNCHANGED vars
    BY <2>6 DEF vars, Placed
  <2>. QED BY <2>1, <2>2, <2>3, <2>4, <2>5, <2>6 DEF Next
<1>. QED BY <1>1, <1>2, Inductive, PTL DEF Spec

-----------------------------------------------------------------------------
(* The refinement.                                                         *)

\* Where an invocation that runs is, on either side of the gate.
LEMMA StepOfRunning ==
  ASSUME IInv, NEW e \in Execs, pc[e] \in {"running", "verifying"}
  PROVE  SeenStep(e) = IF ch[e].next \in Gated THEN "gate" ELSE "working"
  BY DEF SeenStep

\* The return of a node is a step of the run it belongs to.
LEMMA NodeIsSeen ==
  ASSUME Durable = TRUE, IInv, IInv', Placed, Placed', NEW e \in Execs, Node(e)
  PROVE  Seen!Run(e) \/ UNCHANGED Seen!vars
<1>. DEFINE Step == [f \in Execs |-> SeenStep(f)]
            Resumed == [f \in Execs |-> from[f] \in Gated]
<1>a. /\ TypeOK /\ VerifyingCounted /\ ch[e] \in Channels
      /\ pc[e] \in {"running", "verifying"} /\ crashes' = crashes
  BY Outcomes DEF IInv, TypeOK
<1>b. /\ Step[e] = IF ch[e].next \in Gated THEN "gate" ELSE "working"
      /\ Resumed[e] = (from[e] \in Gated)
  BY <1>a, StepOfRunning
<1>n. "none" \notin Gated /\ "END" \notin Gated /\ Passed \subseteq Gated
      /\ {"security_gate", "verifier_agent", "format_report"} \subseteq Gated
      /\ "none" \notin Nodes /\ "END" \notin Nodes
  BY DEF Gated, Passed, Nodes, Fixers
<1>c. ASSUME NEW s, NEW b, SeenStep(e)' = s, (from'[e] \in Gated) = b
      PROVE  Step' = [Step EXCEPT ![e] = s] /\ Resumed' = [Resumed EXCEPT ![e] = b]
  <2>1. \A f \in Execs \ {e} : UNCHANGED <<pc[f], ch[f], from[f]>>
    BY OthersStay
  <2>2. \A f \in Execs \ {e} : SeenStep(f)' = SeenStep(f)
    BY <2>1 DEF SeenStep
  <2>3. Step' = [Step EXCEPT ![e] = s]
    BY <1>c, <2>2
  <2>4. Resumed' = [Resumed EXCEPT ![e] = b]
    BY <1>c, <2>1
  <2>. QED BY <2>3, <2>4
<1>d. ASSUME NEW how, Stop(e, how)
      PROVE  /\ Step' = [Step EXCEPT ![e] = "idle"] /\ Resumed' = [Resumed EXCEPT ![e] = FALSE]
             /\ how \notin Failures => failed' = failed
             /\ how \in Failures => failed' = TRUE
  <2>f. (how \notin Failures => failed' = failed) /\ (how \in Failures => failed' = TRUE)
    BY <1>a, <1>d DEF Stop, TypeOK
  <2>1. SeenStep(e)' = "idle" /\ (from'[e] \in Gated) = FALSE
    BY <1>a, <1>d, <1>n DEF Stop, SeenStep, TypeOK
  <2>. QED BY <1>c, <2>1, <2>f
<1>. HIDE DEF Step, Resumed
<1>1. CASE GoesOn(e)
  <2>1. PICK x \in Channels :
           /\ x.next \in Nodes /\ (ch[e].next \in Gated => x.next \in Passed)
           /\ ch' = [ch EXCEPT ![e] = x] /\ saved' = x
    BY <1>1 DEF GoesOn
  <2>2. /\ SeenAt' = IF x.next \in Gated THEN "gate" ELSE "running"
        /\ SeenStep(e)' = IF x.next \in Gated THEN "gate" ELSE "working"
        /\ (from'[e] \in Gated) = Resumed[e] /\ failed' = failed
    BY <1>1, <1>a, <1>b, <1>n, <2>1 DEF GoesOn, SeenAt, SeenStep, TypeOK
  <2>3. /\ Step' = [Step EXCEPT ![e] = IF x.next \in Gated THEN "gate" ELSE "working"]
        /\ Resumed' = [Resumed EXCEPT ![e] = Resumed[e]]
    BY <1>c, <2>2
  <2>4. Resumed' = Resumed
    BY <2>3 DEF Resumed
  <2>5. CASE (x.next \in Gated) = (ch[e].next \in Gated)
    <3>1. Step' = Step
      BY <1>b, <2>3, <2>5 DEF Step
    <3>2. Seen!SaveNode(e)
      BY <1>a, <1>b, <2>2, <2>4, <2>5, <3>1 DEF Seen!SaveNode, Step, Resumed
    <3>. QED BY <3>2 DEF Seen!Run
  <2>6. CASE x.next \in Gated /\ ch[e].next \notin Gated
    <3>1. Seen!ReachGate(e)
      BY <1>a, <1>b, <2>2, <2>3, <2>4, <2>6 DEF Seen!ReachGate, Step, Resumed
    <3>. QED BY <3>1 DEF Seen!Run
  <2>. QED BY <1>n, <2>1, <2>5, <2>6
<1>2. CASE Asks(e)
  <2>1. Step[e] = "gate" /\ ~Resumed[e] /\ SeenAt' = SeenAt
    BY <1>2, <1>b, <1>n DEF Asks, Placed, SeenAt
  <2>2. "interrupted" \notin Failures
    BY DEF Failures
  <2>3. Seen!Suspend(e)
    BY <1>a, <1>2, <1>d, <2>1, <2>2 DEF Asks, Seen!Suspend, Seen!Ends, Step, Resumed
  <2>. QED BY <2>3 DEF Seen!Run
<1>3. CASE GivesUp(e)
  <2>1. Step[e] # "idle" /\ SeenAt' = SeenAt
    BY <1>3, <1>b DEF GivesUp, SeenAt
  <2>2. "raised" \in Failures /\ "refused" \in Failures
    BY DEF Failures
  <2>3. Seen!Raise(e)
    BY <1>a, <1>3, <1>d, <2>1, <2>2 DEF GivesUp, Seen!Raise, Seen!Ends, Step, Resumed
  <2>. QED BY <2>3 DEF Seen!Run
<1>4. CASE Aborts(e)
  <2>1. Step[e] = "working" /\ SeenAt' = "ended"
    BY <1>4, <1>b, <1>n DEF Aborts, SeenAt
  <2>2. "parse_error" \in Failures /\ "cost_exhausted" \in Failures
    BY DEF Failures
  <2>3. Seen!Abort(e)
    BY <1>a, <1>4, <1>d, <2>1, <2>2 DEF Aborts, Seen!Abort, Seen!Ends, Step, Resumed
  <2>. QED BY <2>3 DEF Seen!Run
<1>5. CASE Completes(e)
  <2>1. Step[e] = "gate" /\ SeenAt' = "ended"
    BY <1>5, <1>b, <1>n DEF Completes, SeenAt
  <2>2. "completed" \notin Failures
    BY DEF Failures
  <2>3. Seen!Report(e)
    BY <1>a, <1>5, <1>d, <2>1, <2>2 DEF Completes, Seen!Report, Seen!Ends, Step, Resumed
  <2>. QED BY <2>3 DEF Seen!Run
<1>6. CASE Verify(e)
  <2>1. UNCHANGED <<ch, from, saved, failed>> /\ pc'[e] = "verifying"
    BY <1>6, <1>a DEF Verify, TypeOK
  <2>2. SeenStep(e)' = Step[e] /\ (from'[e] \in Gated) = Resumed[e] /\ SeenAt' = SeenAt
    BY <1>b, <2>1 DEF SeenStep, SeenAt
  <2>3. Step' = [Step EXCEPT ![e] = Step[e]] /\ Resumed' = [Resumed EXCEPT ![e] = Resumed[e]]
    BY <1>c, <2>2
  <2>4. Step' = Step /\ Resumed' = Resumed
    BY <2>3 DEF Step, Resumed
  <2>. QED BY <1>a, <2>1, <2>2, <2>4 DEF Seen!vars, Step, Resumed
<1>. QED BY <1>a, <1>1, <1>2, <1>3, <1>4, <1>5, <1>6, Outcomes

\* What an endpoint and the worker of the gateway can see of the graph is a behaviour of
\* GraphRuns, which is what EventGateway has for it: so what is proved of the gateway's
\* alerts rests on the nodes, the channels and the checkpoints of the pipeline.
THEOREM PipelineRunsTheGraph == ASSUME Durable = TRUE PROVE Spec => ImplementsGraphRuns
<1>1. Init => Seen!Init
  <2>1. ASSUME Init PROVE SeenAt = "none" /\ \A e \in Execs : SeenStep(e) = "idle"
                          /\ (from[e] \in Gated) = FALSE
    BY <2>1 DEF Init, NoCheckpoint, SeenAt, SeenStep, Gated
  <2>. QED BY <2>1 DEF Init, Seen!Init, Seen!Runs, Execs
<1>2. IInv /\ IInv' /\ Placed /\ Placed' /\ AlwaysSomewhere /\ [Next]_vars
        => [Seen!Next]_(Seen!vars)
  <2>. SUFFICES ASSUME IInv, IInv', Placed, Placed', AlwaysSomewhere, [Next]_vars
                PROVE  Seen!Next \/ UNCHANGED Seen!vars
    OBVIOUS
  <2>. DEFINE Step == [f \in Execs |-> SeenStep(f)]
              Resumed == [f \in Execs |-> from[f] \in Gated]
  <2>a. TypeOK /\ Worker \in Execs /\ Resumers \subseteq Execs /\ Seen!Runs = Execs
    BY DEF IInv, Execs, Seen!Runs
  <2>n. "none" \notin Gated /\ "END" \notin Gated /\ "dispatch" \notin Gated
        /\ "none" \notin Failures /\ "no_op" \notin Failures
    BY DEF Gated, Failures
  <2>1. ASSUME NEW e \in Execs, Node(e) PROVE Seen!Next \/ UNCHANGED Seen!vars
    BY <2>1, <2>a, NodeIsSeen DEF Seen!Next
  <2>u. ASSUME \A f \in Execs : SeenStep(f)' = SeenStep(f) /\ (from'[f] \in Gated) = (from[f] \in Gated),
               UNCHANGED <<saved, failed, crashes>>
        PROVE  UNCHANGED Seen!vars
    BY <2>u DEF Seen!vars, SeenAt
  <2>f. ASSUME NEW e \in Execs, pc[e] \in {"idle", "checked"}, from[e] = "none",
               pc'[e] = "idle", from'[e] = "none", failed' = TRUE, UNCHANGED <<saved, crashes>>,
               \A f \in Execs \ {e} : UNCHANGED <<pc[f], ch[f], from[f]>>
        PROVE  Seen!BeginFails(e)
    <3>1. \A f \in Execs : SeenStep(f)' = SeenStep(f)
      BY <2>f DEF SeenStep
    <3>2. SeenStep(e) = "idle"
      BY <2>f DEF SeenStep
    <3>3. \A f \in Execs : (from'[f] \in Gated) = (from[f] \in Gated)
      BY <2>f
    <3>4. SeenAt' = SeenAt
      BY <2>f DEF SeenAt
    <3>. QED BY <2>f, <3>1, <3>2, <3>3, <3>4 DEF Seen!BeginFails
  <2>7. CASE Submit /\ Stop(Worker, "raised")
    <3>1. /\ pc[Worker] = "idle" /\ from[Worker] = "none"
          /\ pc'[Worker] = "idle" /\ from'[Worker] = "none" /\ failed' = TRUE
          /\ \A f \in Execs \ {Worker} : UNCHANGED <<pc[f], ch[f], from[f]>>
      BY <2>7, <2>a DEF Submit, Stop, Failures, TypeOK, Placed
    <3>2. UNCHANGED <<saved, crashes>>
      <4>1. pc' # [pc EXCEPT ![Worker] = "running"]
        BY <3>1, <2>a DEF TypeOK
      <4>. QED BY <2>7, <4>1 DEF Submit
    <3>. QED BY <2>a, <2>f, <3>1, <3>2 DEF Seen!Next
  <2>2. CASE Submit /\ ~Stop(Worker, "raised")
    <3>1. /\ pc[Worker] = "idle" /\ from[Worker] = "none" /\ from'[Worker] = "dispatch"
          /\ pc'[Worker] = "running" /\ ch'[Worker].next = "dispatch" /\ saved'.next = "dispatch"
          /\ failed' = failed /\ crashes' = crashes
          /\ \A f \in Execs \ {Worker} : UNCHANGED <<pc[f], ch[f], from[f]>>
      <4>1. /\ pc[Worker] = "idle" /\ pc' = [pc EXCEPT ![Worker] = "running"]
            /\ from' = [from EXCEPT ![Worker] = "dispatch"]
            /\ Advance(Worker, InitialState)
            /\ failed' = failed /\ crashes' = crashes
        BY <2>2 DEF Submit
      <4>2. InitialState.next = "dispatch"
        BY DEF InitialState, NoCheckpoint
      <4>3. saved' = InitialState /\ ch' = [ch EXCEPT ![Worker] = InitialState]
        BY <4>1 DEF Advance, Save
      <4>4. from[Worker] = "none"
        BY <2>a, <4>1 DEF Placed
      <4>. QED BY <2>a, <4>1, <4>2, <4>3, <4>4 DEF TypeOK
    <3>2. /\ Step[Worker] = "idle" /\ SeenStep(Worker)' = "working" /\ SeenAt' = "running"
          /\ \A f \in Execs \ {Worker} : SeenStep(f)' = SeenStep(f)
      BY <2>a, <2>n, <3>1 DEF SeenStep, SeenAt
    <3>3. Step' = [Step EXCEPT ![Worker] = "working"]
      BY <3>2
    <3>4. Resumed' = Resumed
      BY <2>n, <3>1
    <3>. HIDE DEF Step, Resumed
    <3>5. Seen!Begin
      BY <3>1, <3>2, <3>3, <3>4 DEF Seen!Begin, Step, Resumed
    <3>. QED BY <3>5 DEF Seen!Next
  <2>3. ASSUME NEW r \in Resumers, ResumeRequest(r) PROVE UNCHANGED Seen!vars
    <3>1. /\ pc[r] = "idle" /\ pc'[r] \in {"idle", "checked"}
          /\ \A f \in Execs \ {r} : pc'[f] = pc[f]
          /\ UNCHANGED <<saved, failed, crashes, ch, from>>
      BY <2>3, <2>a DEF ResumeRequest, TypeOK
    <3>2. \A f \in Execs : SeenStep(f)' = SeenStep(f)
      BY <3>1 DEF SeenStep
    <3>. QED BY <2>u, <3>1, <3>2
  <2>4. ASSUME NEW r \in Resumers, ResumeInvoke(r) PROVE Seen!Next \/ UNCHANGED Seen!vars
    <3>1. /\ pc[r] = "checked" /\ from[r] = "none" /\ UNCHANGED <<saved, crashes>>
          /\ \A f \in Execs \ {r} : UNCHANGED <<pc[f], ch[f], from[f]>>
          /\ saved.next # "none" /\ saved.next \in Nodes \cup {"END"} /\ r \in Execs
      BY <2>4, <2>a DEF ResumeInvoke, Stop, TypeOK, Placed, AlwaysSomewhere, Channels, counters
    <3>2. \A f \in Execs \ {r} : SeenStep(f)' = SeenStep(f)
      BY <3>1 DEF SeenStep
    <3>5. CASE Stop(r, "refused")
      <4>1. pc'[r] = "idle" /\ from'[r] = "none" /\ failed' = TRUE
        BY <2>a, <3>1, <3>5 DEF Stop, Failures, TypeOK
      <4>. QED BY <2>a, <2>f, <3>1, <4>1 DEF Seen!Next
    <3>3. CASE saved.next = "END" /\ ~Stop(r, "refused")
      <4>1. pc'[r] = "idle" /\ from'[r] = "none" /\ failed' = failed
        BY <2>4, <2>a, <2>n, <3>3 DEF ResumeInvoke, Stop, TypeOK
      <4>2. SeenStep(r)' = SeenStep(r)
        BY <3>1, <4>1 DEF SeenStep
      <4>. QED BY <2>u, <3>1, <3>2, <4>1, <4>2
    <3>4. CASE saved.next # "END" /\ ~Stop(r, "refused")
      <4>1. /\ pc'[r] = "running" /\ from'[r] = saved.next /\ ch'[r] = saved
            /\ failed' = failed
        BY <2>4, <2>a, <3>4 DEF ResumeInvoke, Load, TypeOK
      <4>2. /\ SeenAt = IF saved.next \in Gated THEN "gate" ELSE "running"
            /\ SeenAt' = SeenAt
            /\ SeenStep(r)' = IF saved.next \in Gated THEN "gate" ELSE "working"
            /\ Step[r] = "idle"
        BY <2>a, <3>1, <3>4, <4>1 DEF SeenAt, SeenStep
      <4>3. Step' = [Step EXCEPT ![r] = IF SeenAt = "gate" THEN "gate" ELSE "working"]
        BY <2>a, <3>2, <4>2
      <4>4. Resumed' = [Resumed EXCEPT ![r] = (SeenAt = "gate")]
        <5>1. (from'[r] \in Gated) = (SeenAt = "gate")
          BY <4>1, <4>2
        <5>. QED BY <2>a, <3>1, <5>1
      <4>. HIDE DEF Step, Resumed
      <4>5. Seen!BeginResumed(r)
        BY <3>1, <4>1, <4>2, <4>3, <4>4 DEF Seen!BeginResumed, Step, Resumed
      <4>. QED BY <4>5 DEF Seen!Next
    <3>. QED BY <3>3, <3>4, <3>5
  <2>5. CASE Crash
    <3>1. /\ \A f \in Execs : SeenStep(f)' = "idle" /\ (from'[f] \in Gated) = FALSE
          /\ UNCHANGED <<saved, failed>> /\ crashes' = crashes + 1
      BY <2>5, <2>n DEF Crash, SeenStep
    <3>2. Seen!Crash
      BY <2>a, <3>1 DEF Seen!Crash, SeenAt
    <3>. QED BY <3>2 DEF Seen!Next
  <2>6. CASE UNCHANGED vars
    <3>1. UNCHANGED <<pc, ch, from, saved, failed, crashes>>
      BY <2>6 DEF vars, counters
    <3>2. \A f \in Execs : SeenStep(f)' = SeenStep(f)
      BY <3>1 DEF SeenStep
    <3>. QED BY <2>u, <3>1, <3>2
  <2>. QED BY <2>1, <2>2, <2>3, <2>4, <2>5, <2>6, <2>7 DEF Next
<1>. QED BY <1>1, <1>2, Inductive, PlacedInductive, InvocationsAreSomewhere, PTL
        DEF Spec, ImplementsGraphRuns, Seen!Spec
=============================================================================
