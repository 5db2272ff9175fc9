--------------------------- MODULE VerifierProofs ---------------------------
(***************************************************************************)
(* Proofs about Verifier, for any number of runs and crashes.  What run()  *)
(* reports depends on three actors; the inductive invariant says what the  *)
(* daemon can have at each step of run(), and that the end of a script is  *)
(* written once.  At the end, what FairSpec assumes of the scheduler and   *)
(* that run() always has a next step give that every script is stopped.    *)
(***************************************************************************)
EXTENDS Verifier, TLAPS

\* Before the result is decided there is none, and the container is where that
\* step of run() can meet it.
Located(v) ==
    /\ pc[v] \in {"new", "create", "raised"} => box[v] = "none"
    /\ pc[v] = "start" => box[v] = "created"
    /\ pc[v] \in {"wait", "kill", "remove"} => box[v] \in {"running", "exited"}
    /\ pc[v] = "read" => box[v] = "exited" /\ exit[v] \in {"zero", "nonzero"}
    /\ pc[v] \in (Working \ {"remove"}) \cup {"new"} => result[v] = "none"

\* Nobody kills a container twice or removes a living one before the end: until the
\* kill, a script that ended did so by itself.
Unkilled(v) == pc[v] \in {"wait", "kill"} => exit[v] # "killed"

\* Only who waited can have timed out, and then goes on to kill.
TimedOut(v) ==
    /\ pc[v] \in {"new", "create", "start", "wait", "read"} => v \notin late
    /\ pc[v] = "kill" => v \in late

\* A script has an exit code exactly when it ended; a removed one may have been ended
\* by the removal.
Ended(v) ==
    /\ box[v] \in {"none", "created", "running"} => exit[v] = "none"
    /\ box[v] = "exited" => exit[v] # "none"

Truthful(v) ==
    /\ result[v] = "success" => exit[v] = "zero"
    /\ result[v] = "failure" =>
           exit[v] = "nonzero" \/ (outcome[v] = "rejected" /\ box[v] = "none")
    /\ result[v] = "timeout" => exit[v] = "killed" /\ v \in late
    /\ v \in late => result[v] \in {"none", "timeout", "error"}

CleanedUp(v) ==
    pc[v] = "done" /\ box[v] \notin {"none", "removed"} => v \in refused \cup lost

\* Who goes on to remove a container whose script has not ended has an error to
\* report: the kill failed, or wait() did.
Reported(v) ==
    pc[v] \in {"remove", "done"} /\ box[v] \in {"created", "running"} => result[v] = "error"

RunInv(v) == Located(v) /\ Unkilled(v) /\ TimedOut(v) /\ Ended(v) /\ Truthful(v) /\ CleanedUp(v)
             /\ Reported(v)

IInv == TypeOK /\ \A v \in Runs : RunInv(v)

\* A run that a step does not touch keeps its part of the invariant.
Untouched(v) ==
    /\ pc'[v] = pc[v] /\ kind'[v] = kind[v] /\ outcome'[v] = outcome[v]
    /\ box'[v] = box[v] /\ exit'[v] = exit[v] /\ result'[v] = result[v]
    /\ (v \in refused \cup lost) => (v \in refused' \cup lost')
    /\ (v \in late') <=> (v \in late)

LEMMA UntouchedKeeps ==
    ASSUME NEW v, RunInv(v), Untouched(v)
    PROVE  RunInv(v)'
BY DEF RunInv, Untouched, Located, Unkilled, TimedOut, Ended, Truthful, CleanedUp, Reported, Working

LEMMA InitHolds == Init => IInv
BY VerifierBounds DEF Init, IInv, TypeOK, RunInv, Located, Unkilled, TimedOut, Ended,
   Truthful,
   CleanedUp, Reported, Working

\* The artifact is normalised.
LEMMA TakeKeeps ==
    ASSUME IInv, NEW w \in Runs, Take(w)
    PROVE  IInv'
<1>1. TypeOK'
  BY DEF IInv, TypeOK, Take, Answer, Goto, Compiles, Emitted, Normalize, agent, input,
     Kinds, Outcomes, Statuses, Working
<1>2. ASSUME NEW v \in Runs, v # w
      PROVE  RunInv(v)'
  <2>1. Untouched(v)
    BY <1>2 DEF IInv, TypeOK, Untouched, Take, Answer, Goto, Compiles, Emitted, Normalize,
       agent, input
  <2>2. RunInv(v)
    BY DEF IInv
  <2> QED
    BY <2>1, <2>2, UntouchedKeeps
<1>3. RunInv(w)'
  BY DEF IInv, TypeOK, Take, Answer, Goto, Compiles, Emitted, Normalize, agent, input,
     Kinds, Outcomes, Statuses, Working,
     RunInv, Located, Unkilled, TimedOut, Ended, Truthful, CleanedUp, Reported
<1> QED
  BY <1>1, <1>2, <1>3 DEF IInv

\* containers.run() asks for the container.
LEMMA CreateKeeps ==
    ASSUME IInv, NEW w \in Runs, Create(w)
    PROVE  IInv'
<1>1. TypeOK'
  BY DEF IInv, TypeOK, Create, RunFails, Answer, Goto, agent, input, Kinds, Outcomes,
     Statuses, Working
<1>2. ASSUME NEW v \in Runs, v # w
      PROVE  RunInv(v)'
  <2>1. Untouched(v)
    BY <1>2 DEF IInv, TypeOK, Untouched, Create, RunFails, Answer, Goto, agent, input
  <2>2. RunInv(v)
    BY DEF IInv
  <2> QED
    BY <2>1, <2>2, UntouchedKeeps
<1>3. RunInv(w)'
  BY DEF IInv, TypeOK, Create, RunFails, Answer, Goto, agent, input, Kinds, Outcomes,
     Statuses, Working,
     RunInv, Located, Unkilled, TimedOut, Ended, Truthful, CleanedUp, Reported
<1> QED
  BY <1>1, <1>2, <1>3 DEF IInv

\* containers.run() starts it.
LEMMA StartKeeps ==
    ASSUME IInv, NEW w \in Runs, Start(w)
    PROVE  IInv'
<1>1. TypeOK'
  BY DEF IInv, TypeOK, Start, RunFails, Answer, Goto, agent, input, Kinds, Outcomes,
     Statuses, Working
<1>2. ASSUME NEW v \in Runs, v # w
      PROVE  RunInv(v)'
  <2>1. Untouched(v)
    BY <1>2 DEF IInv, TypeOK, Untouched, Start, RunFails, Answer, Goto, agent, input
  <2>2. RunInv(v)
    BY DEF IInv
  <2> QED
    BY <2>1, <2>2, UntouchedKeeps
<1>3. RunInv(w)'
  BY DEF IInv, TypeOK, Start, RunFails, Answer, Goto, agent, input, Kinds, Outcomes,
     Statuses, Working,
     RunInv, Located, Unkilled, TimedOut, Ended, Truthful, CleanedUp, Reported
<1> QED
  BY <1>1, <1>2, <1>3 DEF IInv

\* The script ends by itself.
LEMMA ExitKeeps ==
    ASSUME IInv, NEW w \in Runs, Exit(w)
    PROVE  IInv'
<1>1. TypeOK'
  BY DEF IInv, TypeOK, Exit, agent, input, Kinds, Outcomes, Statuses, Working
<1>2. ASSUME NEW v \in Runs, v # w
      PROVE  RunInv(v)'
  <2>1. Untouched(v)
    BY <1>2 DEF IInv, TypeOK, Untouched, Exit, agent, input
  <2>2. RunInv(v)
    BY DEF IInv
  <2> QED
    BY <2>1, <2>2, UntouchedKeeps
<1>3. RunInv(w)'
  BY DEF IInv, TypeOK, Exit, agent, input, Kinds, Outcomes, Statuses, Working,
     RunInv, Located, Unkilled, TimedOut, Ended, Truthful, CleanedUp, Reported
<1> QED
  BY <1>1, <1>2, <1>3 DEF IInv

\* container.wait() returns.
LEMMA WaitReturnsKeeps ==
    ASSUME IInv, NEW w \in Runs, WaitReturns(w)
    PROVE  IInv'
<1>1. TypeOK'
  BY DEF IInv, TypeOK, WaitReturns, Goto, agent, input, Kinds, Outcomes, Statuses, Working
<1>2. ASSUME NEW v \in Runs, v # w
      PROVE  RunInv(v)'
  <2>1. Untouched(v)
    BY <1>2 DEF IInv, TypeOK, Untouched, WaitReturns, Goto, agent, input
  <2>2. RunInv(v)
    BY DEF IInv
  <2> QED
    BY <2>1, <2>2, UntouchedKeeps
<1>3. RunInv(w)'
  BY DEF IInv, TypeOK, WaitReturns, Goto, agent, input, Kinds, Outcomes, Statuses, Working,
     RunInv, Located, Unkilled, TimedOut, Ended, Truthful, CleanedUp, Reported
<1> QED
  BY <1>1, <1>2, <1>3 DEF IInv

\* container.wait() times out.
LEMMA WaitTimesOutKeeps ==
    ASSUME IInv, NEW w \in Runs, WaitTimesOut(w)
    PROVE  IInv'
<1>1. TypeOK'
  BY DEF IInv, TypeOK, WaitTimesOut, Goto, agent, input, Kinds, Outcomes, Statuses, Working
<1>2. ASSUME NEW v \in Runs, v # w
      PROVE  RunInv(v)'
  <2>1. Untouched(v)
    BY <1>2 DEF IInv, TypeOK, Untouched, WaitTimesOut, Goto, agent, input
  <2>2. RunInv(v)
    BY DEF IInv
  <2> QED
    BY <2>1, <2>2, UntouchedKeeps
<1>3. RunInv(w)'
  BY DEF IInv, TypeOK, WaitTimesOut, Goto, agent, input, Kinds, Outcomes, Statuses, Working,
     RunInv, Located, Unkilled, TimedOut, Ended, Truthful, CleanedUp, Reported
<1> QED
  BY <1>1, <1>2, <1>3 DEF IInv

\* wait() or logs() raises.
LEMMA FailsKeeps ==
    ASSUME IInv, NEW w \in Runs, Fails(w)
    PROVE  IInv'
<1>1. TypeOK'
  BY DEF IInv, TypeOK, Fails, Answer, Goto, agent, input, Kinds, Outcomes, Statuses, Working
<1>2. ASSUME NEW v \in Runs, v # w
      PROVE  RunInv(v)'
  <2>1. Untouched(v)
    BY <1>2 DEF IInv, TypeOK, Untouched, Fails, Answer, Goto, agent, input
  <2>2. RunInv(v)
    BY DEF IInv
  <2> QED
    BY <2>1, <2>2, UntouchedKeeps
<1>3. RunInv(w)'
  BY DEF IInv, TypeOK, Fails, Answer, Goto, agent, input, Kinds, Outcomes, Statuses, Working,
     RunInv, Located, Unkilled, TimedOut, Ended, Truthful, CleanedUp, Reported
<1> QED
  BY <1>1, <1>2, <1>3 DEF IInv

\* The logs are read.
LEMMA ReadLogsKeeps ==
    ASSUME IInv, NEW w \in Runs, ReadLogs(w)
    PROVE  IInv'
<1>1. TypeOK'
  BY DEF IInv, TypeOK, ReadLogs, Answer, Goto, agent, input, Kinds, Outcomes, Statuses, Working
<1>2. ASSUME NEW v \in Runs, v # w
      PROVE  RunInv(v)'
  <2>1. Untouched(v)
    BY <1>2 DEF IInv, TypeOK, Untouched, ReadLogs, Answer, Goto, agent, input
  <2>2. RunInv(v)
    BY DEF IInv
  <2> QED
    BY <2>1, <2>2, UntouchedKeeps
<1>3. RunInv(w)'
  BY DEF IInv, TypeOK, ReadLogs, Answer, Goto, agent, input, Kinds, Outcomes, Statuses,
     Working,
     RunInv, Located, Unkilled, TimedOut, Ended, Truthful, CleanedUp, Reported
<1> QED
  BY <1>1, <1>2, <1>3 DEF IInv

\* container.kill() succeeds or fails.
LEMMA KillKeeps ==
    ASSUME IInv, NEW w \in Runs, Kill(w)
    PROVE  IInv'
<1>1. TypeOK'
  BY DEF IInv, TypeOK, Kill, Answer, Goto, agent, input, Kinds, Outcomes, Statuses, Working
<1>2. ASSUME NEW v \in Runs, v # w
      PROVE  RunInv(v)'
  <2>1. Untouched(v)
    BY <1>2 DEF IInv, TypeOK, Untouched, Kill, Answer, Goto, agent, input
  <2>2. RunInv(v)
    BY DEF IInv
  <2> QED
    BY <2>1, <2>2, UntouchedKeeps
<1>3. RunInv(w)'
  BY DEF IInv, TypeOK, Kill, Answer, Goto, agent, input, Kinds, Outcomes, Statuses, Working,
     RunInv, Located, Unkilled, TimedOut, Ended, Truthful, CleanedUp, Reported
<1> QED
  BY <1>1, <1>2, <1>3 DEF IInv

\* The finally block.
LEMMA RemoveKeeps ==
    ASSUME IInv, NEW w \in Runs, Remove(w)
    PROVE  IInv'
<1>1. TypeOK'
  BY DEF IInv, TypeOK, Remove, Goto, agent, input, Kinds, Outcomes, Statuses, Working
<1>2. ASSUME NEW v \in Runs, v # w
      PROVE  RunInv(v)'
  <2>1. Untouched(v)
    BY <1>2 DEF IInv, TypeOK, Untouched, Remove, Goto, agent, input
  <2>2. RunInv(v)
    BY DEF IInv
  <2> QED
    BY <2>1, <2>2, UntouchedKeeps
<1>3. RunInv(w)'
  BY DEF IInv, TypeOK, Remove, Goto, agent, input, Kinds, Outcomes, Statuses, Working,
     RunInv, Located, Unkilled, TimedOut, Ended, Truthful, CleanedUp, Reported
<1> QED
  BY <1>1, <1>2, <1>3 DEF IInv

\* The process dies.
LEMMA CrashKeeps ==
    ASSUME IInv, Crash
    PROVE  IInv'
<1>1. TypeOK'
  BY VerifierBounds DEF IInv, TypeOK, Crash, agent, input, Working
<1>2. ASSUME NEW v \in Runs
      PROVE  RunInv(v)'
  BY DEF IInv, TypeOK, Crash, agent, input, Working,
     RunInv, Located, Unkilled, TimedOut, Ended, Truthful, CleanedUp, Reported
<1> QED
  BY <1>1, <1>2 DEF IInv

LEMMA StutterKeeps ==
    ASSUME IInv, UNCHANGED vars
    PROVE  IInv'
BY DEF IInv, TypeOK, vars, agent, input, Working,
   RunInv, Located, Unkilled, TimedOut, Ended, Truthful, CleanedUp, Reported

\* The invariant is inductive.
THEOREM Inductive == Spec => []IInv
<1>1. IInv /\ [Next]_vars => IInv'
  <2> SUFFICES ASSUME IInv, [Next]_vars
               PROVE  IInv'
    OBVIOUS
  <2>1. ASSUME NEW v \in Runs, Take(v) \/ AgentStep(v) \/ Exit(v)
        PROVE  IInv'
    BY <2>1, TakeKeeps, CreateKeeps, StartKeeps, ExitKeeps, WaitReturnsKeeps, WaitTimesOutKeeps,
       FailsKeeps, ReadLogsKeeps, KillKeeps, RemoveKeeps DEF AgentStep
  <2>2. CASE Crash
    BY <2>2, CrashKeeps
  <2>3. CASE UNCHANGED vars
    BY <2>3, StutterKeeps
  <2> QED
    BY <2>1, <2>2, <2>3 DEF Next
<1> QED
  BY <1>1, InitHolds, PTL DEF Spec

\* Every state is of its type.
THEOREM TypeCorrect == Spec => []TypeOK
<1>1. IInv => TypeOK
  BY DEF IInv
<1> QED
  BY <1>1, Inductive, PTL

\* The result run() returns is what happened in the sandbox, however the script, the
\* timeout, the kill and a crash interleave.
THEOREM ResultsAreTrue == Spec => []ResultIsTrue
<1>1. IInv => ResultIsTrue
  BY DEF IInv, RunInv, Truthful, ResultIsTrue
<1> QED
  BY <1>1, Inductive, PTL

\* run() leaves a container behind only if the daemon refused or never answered.
THEOREM NothingDangles == Spec => []NoDanglingContainer
<1>1. IInv => NoDanglingContainer
  BY DEF IInv, RunInv, CleanedUp, NoDanglingContainer
<1> QED
  BY <1>1, Inductive, PTL

\* A script that run() leaves behind unfinished is reported as an execution_error,
\* whichever request of whom failed.
THEOREM StrayScriptsAreReported == Spec => []StrayScriptIsReported
<1>1. IInv => StrayScriptIsReported
  BY DEF IInv, RunInv, Reported, StrayScriptIsReported
<1> QED
  BY <1>1, Inductive, PTL

-----------------------------------------------------------------------------
(* Every script is stopped.                                                *)

\* The script of v has ended, or nobody can end it.
Stopped(v) == box[v] # "running" \/ v \in refused \cup lost \/ pc[v] = "dead"

\* A container runs only while run() waits for it, kills it or removes it.
LEMMA RunningIsAttended ==
  ASSUME IInv, NEW v \in Runs
  PROVE  Stopped(v) \/ pc[v] \in {"wait", "kill", "remove"}
BY DEF IInv, TypeOK, RunInv, Located, CleanedUp, Stopped, Working

\* What a step of anybody does to a run that waits, kills or removes; a step of its own
\* brings it one further.
LEMMA StepTowardsEnd ==
  ASSUME IInv, NEW v \in Runs, [Next]_vars
  PROVE  /\ pc[v] = "wait" => pc'[v] \in {"wait", "kill", "remove"} \/ Stopped(v)'
         /\ pc[v] = "kill" => pc'[v] \in {"kill", "remove"} \/ Stopped(v)'
         /\ pc[v] = "remove" => pc'[v] = "remove" \/ Stopped(v)'
         /\ AgentStep(v) =>
                /\ pc[v] = "wait" => pc'[v] \in {"kill", "remove"} \/ Stopped(v)'
                /\ pc[v] = "kill" => pc'[v] = "remove" \/ Stopped(v)'
                /\ pc[v] = "remove" => Stopped(v)'
<1>0. TypeOK /\ RunInv(v)
  BY DEF IInv
<1>1. CASE AgentStep(v)
  BY <1>0, <1>1 DEF TypeOK, AgentStep, Create, Start, WaitReturns, WaitTimesOut, Fails, ReadLogs,
     Kill, Remove, RunFails, Answer, Goto, agent, RunInv, Located, Stopped, Working
<1>2. CASE ~AgentStep(v)
  <2>1. CASE Crash
    BY <1>0, <2>1, <1>2 DEF TypeOK, Crash, Stopped, Working
  <2>2. ASSUME NEW w \in Runs, Take(w) \/ AgentStep(w) \/ Exit(w), pc[v] \in {"wait", "kill", "remove"}
        PROVE  pc'[v] = pc[v]
    BY <1>0, <1>2, <2>2 DEF TypeOK, Take, AgentStep, Exit, Create, Start, WaitReturns, WaitTimesOut,
       Fails, ReadLogs, Kill, Remove, RunFails, Answer, Goto, agent
  <2>3. CASE UNCHANGED vars
    BY <1>2, <2>3 DEF vars, agent
  <2>. QED BY <1>2, <2>1, <2>2, <2>3 DEF Next
<1>. QED BY <1>1, <1>2

LEMMA OneIsStopped ==
  ASSUME NEW v \in Runs
  PROVE  FairSpec /\ []NeverStuck => (box[v] = "running" ~> Stopped(v))
<1> DEFINE Waits   == pc[v] = "wait"
           Kills   == pc[v] = "kill"
           Removes == pc[v] = "remove"
<1>1. IInv => Stopped(v) \/ Waits \/ Kills \/ Removes
  BY RunningIsAttended
<1>2. IInv /\ Waits /\ [Next]_vars => Waits' \/ Kills' \/ Removes' \/ Stopped(v)'
  BY StepTowardsEnd
<1>3. IInv /\ Kills /\ [Next]_vars => Kills' \/ Removes' \/ Stopped(v)'
  BY StepTowardsEnd
<1>4. IInv /\ Removes /\ [Next]_vars => Removes' \/ Stopped(v)'
  BY StepTowardsEnd
<1>5. IInv /\ Waits /\ [Next]_vars /\ <<AgentStep(v)>>_vars => Kills' \/ Removes' \/ Stopped(v)'
  BY StepTowardsEnd
<1>6. IInv /\ Kills /\ [Next]_vars /\ <<AgentStep(v)>>_vars => Removes' \/ Stopped(v)'
  BY StepTowardsEnd
<1>7. IInv /\ Removes /\ [Next]_vars /\ <<AgentStep(v)>>_vars => Stopped(v)'
  BY StepTowardsEnd
<1>8. NeverStuck /\ (Waits \/ Kills \/ Removes) => ENABLED <<AgentStep(v)>>_vars
  BY DEF NeverStuck, Working
<1>9. FairSpec => Spec /\ Scheduled(v)
  BY DEF FairSpec
<1>. QED
  BY <1>1, <1>2, <1>3, <1>4, <1>5, <1>6, <1>7, <1>8, <1>9, Inductive, PTL DEF Spec, Scheduled

\* Under the fairness of FairSpec, and because run() is never stuck, no script runs for
\* ever unless the daemon refuses to remove it or never told run() of it, or the process
\* died.  That run() is never stuck is a fact about ENABLED, which the run checks.
THEOREM ScriptsAreStopped == FairSpec /\ []NeverStuck => ScriptIsStopped
<1>1. ASSUME NEW v \in Runs
      PROVE  FairSpec /\ []NeverStuck =>
                 (box[v] = "running" ~> box[v] # "running" \/ v \in refused \cup lost \/ pc[v] = "dead")
  BY OneIsStopped DEF Stopped
<1>. QED BY <1>1 DEF ScriptIsStopped
=============================================================================
