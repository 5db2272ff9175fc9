------------------------------ MODULE Verifier ------------------------------
(***************************************************************************)
(* What happens to a fix artifact once a specialist emitted it: the        *)
(* producer's one retry, the Verifier's normalisation, and the container   *)
(* VerifierAgent.run() creates, starts, waits for, kills and removes.      *)
(*                                                                         *)
(* The Docker daemon and the script are actors of their own: the script    *)
(* ends when it likes, if at all, and any request to the daemon can fail,  *)
(* after having been carried out or before.  The process can die and is    *)
(* restarted; containers survive it.                                       *)
(*                                                                         *)
(* The graph runs a specialist before the Verifier, so fix_artifact is     *)
(* never None here.                                                        *)
(***************************************************************************)
EXTENDS Naturals

CONSTANTS
    Runs,           \* calls of VerifierAgent.run(), each with its own container
    MaxCrashes      \* bound: deaths of the process

ASSUME VerifierBounds == MaxCrashes \in Nat

\* What an LLM answers, as compile() sees it: "empty" has only white space, a
\* "fragment" returns or yields outside a function and compiles inside one, an
\* "unwrappable" one does not, and on a "choking" one compile() raises something
\* else than a SyntaxError (a NUL byte, too deep a nesting).
Kinds    == {"script", "empty", "fragment", "unwrappable", "broken", "choking"}
Outcomes == {"verbatim", "wrapped", "rejected"}
Statuses == {"success", "failure", "timeout", "error"}  \* "error": execution_error is set

VARIABLES
    pc,         \* where each run() is
    kind,       \* the artifact it got
    outcome,    \* what normalize_fix_artifact() made of it
    box,        \* its container, as the daemon has it
    exit,       \* how its container's process ended
    result,     \* what run() returns
    crashes,
    \* history
    late,       \* container.wait() raised ReadTimeout
    refused,    \* container.remove() failed
    lost        \* containers.run() failed with a container made

agent == <<pc, result>>
input == <<kind, outcome>>
vars  == <<agent, input, box, exit, crashes, late, refused, lost>>

Working == {"create", "start", "wait", "read", "kill", "remove"}

TypeOK ==
    /\ pc \in [Runs -> Working \cup {"new", "done", "raised", "dead"}]
    /\ kind \in [Runs -> Kinds \cup {"none"}]
    /\ outcome \in [Runs -> Outcomes \cup {"none"}]
    /\ box \in [Runs -> {"none", "created", "running", "exited", "removed"}]
    /\ exit \in [Runs -> {"none", "zero", "nonzero", "killed"}]
    /\ result \in [Runs -> Statuses \cup {"none"}]
    /\ crashes \in 0..MaxCrashes
    /\ late \in SUBSET Runs /\ refused \in SUBSET Runs /\ lost \in SUBSET Runs

Init ==
    /\ pc = [v \in Runs |-> "new"]
    /\ kind = [v \in Runs |-> "none"]
    /\ outcome = [v \in Runs |-> "none"]
    /\ box = [v \in Runs |-> "none"]
    /\ exit = [v \in Runs |-> "none"]
    /\ result = [v \in Runs |-> "none"]
    /\ crashes = 0
    /\ late = {} /\ refused = {} /\ lost = {}

Goto(v, step) == pc' = [pc EXCEPT ![v] = step]

\* The result is decided; what is left is the finally block.
Answer(v, status, step) ==
    /\ Goto(v, step)
    /\ result' = [result EXCEPT ![v] = status]

-----------------------------------------------------------------------------
(* The artifact.                                                           *)

\* compile() of the process's own Python, 3.11 or later, for which the empty text is
\* a program.  The container has Python 3.10: a script in newer syntax compiles here
\* and ends there with a nonzero code, like any other script that fails.
Compiles(k) == k \in {"script", "empty"}

\* complete_script_artifact(): one retry when the first answer does not compile,
\* and the second answer is passed on whatever it is.  A "choking" first answer
\* stands for itself: the specialist raises.
Emitted(first, second) == IF Compiles(first) \/ first = "choking" THEN first ELSE second

\* normalize_fix_artifact(), when compile() does not raise in it.
Normalize(k) ==
    CASE k = "script" -> "verbatim"
      [] k = "fragment" -> "wrapped"
      [] OTHER -> "rejected"

\* A rejected artifact is an honest failure and touches no container.  An artifact on
\* which compile() raises ends the node with that exception: in the specialist if it
\* was the first answer, in run() before its try if it was the second.
Take(v) ==
    /\ pc[v] = "new"
    /\ \E first, second \in Kinds : kind' = [kind EXCEPT ![v] = Emitted(first, second)]
    /\ \/ kind'[v] = "choking" /\ Goto(v, "raised") /\ UNCHANGED <<outcome, result>>
       \/ /\ kind'[v] # "choking"
          /\ outcome' = [outcome EXCEPT ![v] = Normalize(kind'[v])]
          /\ \/ outcome'[v] = "rejected" /\ Answer(v, "failure", "done")
             \/ outcome'[v] # "rejected" /\ Goto(v, "create") /\ UNCHANGED result
    /\ UNCHANGED <<box, exit, crashes, late, refused, lost>>

-----------------------------------------------------------------------------
(* containers.run(): create, then start.                                   *)

\* Without an answer there is no container object to remove, whether or not the
\* daemon has made one.
RunFails(v, left) ==
    /\ Answer(v, "error", "done")
    /\ box' = [box EXCEPT ![v] = left]
    /\ lost' = IF left = "none" THEN lost ELSE lost \cup {v}

Create(v) ==
    /\ pc[v] = "create"
    /\ \/ /\ Goto(v, "start")
          /\ box' = [box EXCEPT ![v] = "created"]
          /\ UNCHANGED <<result, lost>>
       \/ \E left \in {"none", "created"} : RunFails(v, left)
    /\ UNCHANGED <<input, exit, crashes, late, refused>>

Start(v) ==
    /\ pc[v] = "start"
    /\ \/ /\ Goto(v, "wait")
          /\ box' = [box EXCEPT ![v] = "running"]
          /\ UNCHANGED <<result, lost>>
       \/ \E left \in {"created", "running"} : RunFails(v, left)
    /\ UNCHANGED <<input, exit, crashes, late, refused>>

\* The script ends by itself.
Exit(v) ==
    /\ box[v] = "running"
    /\ box' = [box EXCEPT ![v] = "exited"]
    /\ \E code \in {"zero", "nonzero"} : exit' = [exit EXCEPT ![v] = code]
    /\ UNCHANGED <<agent, input, crashes, late, refused, lost>>

-----------------------------------------------------------------------------
(* container.wait(timeout=5) and what follows.                             *)

WaitReturns(v) ==
    /\ pc[v] = "wait"
    /\ box[v] = "exited"
    /\ Goto(v, "read")
    /\ UNCHANGED <<result, input, box, exit, crashes, late, refused, lost>>

\* Mutated form of WaitTimesOut: ReadTimeout is not caught and leaves the node.
WaitTimesOutUncaught(v) ==
    /\ pc[v] = "wait"
    /\ Goto(v, "uncaught")
    /\ late' = late \cup {v}
    /\ UNCHANGED <<result, input, box, exit, crashes, refused, lost>>

\* ReadTimeout: the script has not ended, or the news of it comes too late.
WaitTimesOut(v) ==
    /\ pc[v] = "wait"
    /\ Goto(v, "kill")
    /\ late' = late \cup {v}
    /\ UNCHANGED <<result, input, box, exit, crashes, refused, lost>>

\* Mutated form of Fails: the error path returns without cleaning up.
FailsAtOnce(v) ==
    /\ pc[v] \in {"wait", "read"}
    /\ Answer(v, "error", "done")
    /\ UNCHANGED <<input, box, exit, crashes, late, refused, lost>>

\* wait() or logs() raises anything else: except Exception, then finally.
Fails(v) ==
    /\ pc[v] \in {"wait", "read"}
    /\ Answer(v, "error", "remove")
    /\ UNCHANGED <<input, box, exit, crashes, late, refused, lost>>

\* The logs are read, and the exit code decides.
ReadLogs(v) ==
    /\ pc[v] = "read"
    /\ Answer(v, IF exit[v] = "zero" THEN "success" ELSE "failure", "remove")
    /\ UNCHANGED <<input, box, exit, crashes, late, refused, lost>>

\* Mutated form of Kill: an error of kill() is swallowed like one of remove().
KillQuietly(v) ==
    /\ pc[v] = "kill"
    /\ Answer(v, "timeout", "remove")
    /\ \/ /\ box[v] = "running"
          /\ box' = [box EXCEPT ![v] = "exited"]
          /\ exit' = [exit EXCEPT ![v] = "killed"]
       \/ UNCHANGED <<box, exit>>
    /\ UNCHANGED <<input, crashes, late, refused, lost>>

\* Mutated form of Kill: the request hangs when the script has ended in the meantime.
KillHangs(v) ==
    /\ pc[v] = "kill" /\ box[v] = "running"
    /\ box' = [box EXCEPT ![v] = "exited"]
    /\ exit' = [exit EXCEPT ![v] = "killed"]
    /\ Answer(v, "timeout", "remove")
    /\ UNCHANGED <<input, crashes, late, refused, lost>>

\* container.kill().  It fails when the script has ended in the meantime, and
\* then the answer is an execution_error.
Kill(v) ==
    /\ pc[v] = "kill"
    /\ \/ /\ box[v] = "running"
          /\ box' = [box EXCEPT ![v] = "exited"]
          /\ exit' = [exit EXCEPT ![v] = "killed"]
          /\ \E status \in {"timeout", "error"} : Answer(v, status, "remove")
       \/ /\ Answer(v, "error", "remove")
          /\ UNCHANGED <<box, exit>>
    /\ UNCHANGED <<input, crashes, late, refused, lost>>

\* Mutated form of Remove: remove() without force=True refuses a running container.
RemoveUnforced(v) ==
    /\ pc[v] = "remove"
    /\ Goto(v, "done")
    /\ IF box[v] = "running" THEN UNCHANGED box ELSE box' = [box EXCEPT ![v] = "removed"]
    /\ UNCHANGED <<result, input, exit, crashes, late, refused, lost>>

\* finally: container.remove(force=True), which also ends a running script; an
\* error is swallowed.
Remove(v) ==
    /\ pc[v] = "remove"
    /\ Goto(v, "done")
    /\ \/ /\ box' = [box EXCEPT ![v] = "removed"]
          /\ UNCHANGED refused
       \/ /\ refused' = refused \cup {v}
          /\ UNCHANGED box
    /\ UNCHANGED <<result, input, exit, crashes, late, lost>>

\* The process dies.  Nothing looks for its containers after the restart.
Crash ==
    /\ crashes < MaxCrashes
    /\ crashes' = crashes + 1
    /\ pc' = [v \in Runs |-> IF pc[v] \in Working THEN "dead" ELSE pc[v]]
    /\ UNCHANGED <<result, input, box, exit, late, refused, lost>>

AgentStep(v) ==
    \/ Create(v) \/ Start(v) \/ WaitReturns(v) \/ WaitTimesOut(v) \/ Fails(v)
    \/ ReadLogs(v) \/ Kill(v) \/ Remove(v)

Next ==
    \/ \E v \in Runs : Take(v) \/ AgentStep(v) \/ Exit(v)
    \/ Crash

Spec == Init /\ [][Next]_vars

\* A run() that began is scheduled, and the SDK's timeouts end every request.  The
\* script need not end.
Scheduled(v) == WF_vars(AgentStep(v))

FairSpec == Spec /\ \A v \in Runs : Scheduled(v)

-----------------------------------------------------------------------------
(* Properties.                                                             *)

\* What run() reports is what happened in the sandbox, whenever the script, the
\* timeout and the kill come: a success ended by itself with code 0, a failure by
\* itself with another, or the artifact was rejected and no container made, and a
\* timeout was killed before it ended.  Once wait() timed out, the script's own end no
\* longer makes it a success or a failure.
ResultIsTrue ==
    \A v \in Runs :
        /\ result[v] = "success" => exit[v] = "zero"
        /\ result[v] = "failure" =>
               exit[v] = "nonzero" \/ (outcome[v] = "rejected" /\ box[v] = "none")
        /\ result[v] = "timeout" => exit[v] = "killed" /\ v \in late
        /\ v \in late => result[v] \in {"none", "timeout", "error"}

\* spec 003 FR-005: on every path out of run() the container is gone, except where
\* the daemon refused to remove it or never told run() of it.
NoDanglingContainer ==
    \A v \in Runs : pc[v] = "done" /\ box[v] \notin {"none", "removed"} =>
        v \in refused \cup lost

\* spec 003 FR-004, FR-007: no fix is called verified, failed or timed out while its
\* script may still run or start.  A container that run() left behind with its script
\* unfinished, because start(), kill() or remove() failed and in whatever order, goes
\* with an execution_error.
StrayScriptIsReported ==
    \A v \in Runs : pc[v] = "done" /\ box[v] \in {"created", "running"} => result[v] = "error"

\* run() is never stuck: whatever the daemon answered and whenever the script ended,
\* there is a next step until it returns.
NeverStuck == \A v \in Runs : pc[v] \in Working => ENABLED <<AgentStep(v)>>_vars

\* spec 003 FR-004: a script that does not end is stopped, unless the daemon refuses
\* or the process dies.
ScriptIsStopped ==
    \A v \in Runs :
        box[v] = "running" ~> box[v] # "running" \/ v \in refused \cup lost \/ pc[v] = "dead"
=============================================================================
