----------------------------- MODULE GraphRuns ------------------------------
(***************************************************************************)
(* What the event gateway takes the graph of one incident to do: the part  *)
(* of a run that an endpoint or the worker can see, without nodes,         *)
(* channels and artifacts.  Pipeline, which has the graph, implements it;  *)
(* so does EventGateway, which only has what the graph does, for each job. *)
(*                                                                         *)
(* A run is working until it reaches the approval gate, and at the gate    *)
(* until it has reported.  Every node that returns leaves a checkpoint, so *)
(* a run that goes on moves it back when another one was ahead.            *)
(***************************************************************************)
EXTENDS Naturals

CONSTANTS
    Worker,         \* the gateway's one worker task
    Resumers        \* requests to the resume endpoint

VARIABLES
    at,             \* the checkpoint of the thread
    step,           \* what each run does
    resumed,        \* the run continues from the gate, or from behind it
    failed,         \* some run of the incident has failed or aborted
    restarts        \* how often the process has died

vars == <<at, step, resumed, failed, restarts>>

Runs        == {Worker} \cup Resumers
Checkpoints == {"none", "running", "gate", "ended"}
Steps       == {"idle", "working", "gate"}

Init ==
    /\ at = "none"
    /\ step = [e \in Runs |-> "idle"]
    /\ resumed = [e \in Runs |-> FALSE]
    /\ failed = FALSE
    /\ restarts = 0

Ends(e) ==
    /\ step' = [step EXCEPT ![e] = "idle"]
    /\ resumed' = [resumed EXCEPT ![e] = FALSE]

\* The worker starts the graph over, whatever checkpoint there is; what it cannot parse
\* ends the graph.
Begin ==
    /\ step[Worker] = "idle"
    /\ \/ step' = [step EXCEPT ![Worker] = "working"] /\ at' = "running" /\ UNCHANGED failed
       \/ at' = "ended" /\ failed' = TRUE /\ UNCHANGED step
    /\ UNCHANGED <<resumed, restarts>>

\* A resume request continues from the checkpoint there is now.
BeginResumed(r) ==
    /\ step[r] = "idle"
    /\ at \in {"running", "gate"}
    /\ step' = [step EXCEPT ![r] = IF at = "gate" THEN "gate" ELSE "working"]
    /\ resumed' = [resumed EXCEPT ![r] = (at = "gate")]
    /\ UNCHANGED <<at, failed, restarts>>

\* A run raises before its first node: the graph is not built or the database refuses.
BeginFails(e) ==
    /\ step[e] = "idle"
    /\ failed' = TRUE
    /\ UNCHANGED <<at, step, resumed, restarts>>

\* A node returns and its run is still on the same side of the gate.
SaveNode(e) ==
    /\ step[e] # "idle"
    /\ at' = IF step[e] = "gate" THEN "gate" ELSE "running"
    /\ UNCHANGED <<step, resumed, failed, restarts>>

\* The reviewer returns.
ReachGate(e) ==
    /\ step[e] = "working"
    /\ step' = [step EXCEPT ![e] = "gate"]
    /\ at' = "gate"
    /\ UNCHANGED <<resumed, failed, restarts>>

\* The gate asks a human; a run that was resumed there does not ask again.
Suspend(e) ==
    /\ step[e] = "gate" /\ ~resumed[e]
    /\ Ends(e)
    /\ UNCHANGED <<at, failed, restarts>>

\* The budget, or a file that cannot be parsed, ends the graph.  Neither does so
\* at the gate.
Abort(e) ==
    /\ step[e] = "working"
    /\ Ends(e)
    /\ at' = "ended" /\ failed' = TRUE
    /\ UNCHANGED restarts

\* A node, the disk or the database raises; the checkpoint stays.
Raise(e) ==
    /\ step[e] # "idle"
    /\ Ends(e)
    /\ failed' = TRUE
    /\ UNCHANGED <<at, restarts>>

\* The report is written.
Report(e) ==
    /\ step[e] = "gate"
    /\ Ends(e)
    /\ at' = "ended"
    /\ UNCHANGED <<failed, restarts>>

\* The process dies.
Crash ==
    /\ step' = [e \in Runs |-> "idle"]
    /\ resumed' = [e \in Runs |-> FALSE]
    /\ restarts' = restarts + 1
    /\ UNCHANGED <<at, failed>>

Run(e) == SaveNode(e) \/ ReachGate(e) \/ Suspend(e) \/ Abort(e) \/ Raise(e) \/ Report(e)

Next ==
    \/ Begin
    \/ \E r \in Resumers : BeginResumed(r)
    \/ \E e \in Runs : BeginFails(e) \/ Run(e)
    \/ Crash

Spec == Init /\ [][Next]_vars
=============================================================================
