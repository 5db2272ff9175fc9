----------------------------- MODULE CostGuard -----------------------------
(***************************************************************************)
(* The LLM call path of AutoSentinel: ArkLLMClient.complete() (and its     *)
(* twin GlmLLMClient.complete()), the tenacity retry around the SDK call,  *)
(* the lazily built CostGuard singleton and CostGuard.accumulate().        *)
(*                                                                         *)
(* A caller is a thread that runs pipeline nodes: the worker's to_thread   *)
(* job, the to_thread job of a resume request, a benchmark.  It makes one  *)
(* call after another; between two calls it is "idle".                     *)
(*                                                                         *)
(* Money is counted in abstract units.  What the provider bills and what   *)
(* the price tables make of it are chosen apart: a model that is not in    *)
(* the table is priced at zero, a GLM answer at one tier whatever its own, *)
(* and some of what is billed the guard never hears of.                    *)
(***************************************************************************)
EXTENDS Integers, FiniteSets

CONSTANTS
    Callers,        \* threads that call LLMClient.complete()
    NoGuard,        \* the None of the module-level _singleton and of a lock
    Limit,          \* budget_limit (AUTOSENTINEL_BUDGET_LIMIT_CNY)
    MaxCost,        \* the most one answer can cost, billed or priced
    MaxAttempts,    \* tenacity.stop_after_attempt
    MaxCalls        \* bound: calls made in one run of the model

ASSUME CallersAssumption == IsFiniteSet(Callers) /\ NoGuard \notin Callers
ASSUME BudgetAssumption  == Limit \in Nat /\ MaxCost \in Nat
ASSUME BoundsAssumption  == MaxAttempts \in Nat \ {0} /\ MaxCalls \in Nat

VARIABLES
    pc,             \* where each caller is in complete()
    attempt,        \* attempt number of the SDK call in progress
    cost,           \* what the answer the caller holds is priced at
    outcome,        \* how the caller's last call ended
    budgeted,       \* AUTOSENTINEL_BUDGET_LIMIT_CNY is a budget CostGuard accepts
    singleton,      \* _singleton: the guard, named after the caller that built it
    mine,           \* the guard get_cost_guard() returned to the caller
    total,          \* total_spent of each guard built
    count,          \* call_count of each guard built
    lock,           \* CostGuard._lock of each guard: its holder
    newTotal,       \* the local new_total of accumulate()
    \* history
    started,        \* calls started
    answers,        \* answers that are, or are to be, given to accumulate()
    answered,       \* what those answers are priced at together
    billed,         \* what the provider charges, answered or not
    unseen,         \* attempts billed higher than what the guard is given for them
    trips           \* CostGuardErrors raised

guardVars   == <<singleton, mine, total, count, lock, newTotal>>
history     == <<started, answers, answered, billed, unseen, trips>>
vars        == <<pc, attempt, cost, outcome, budgeted, guardVars, history>>

Steps    == {"idle", "sdk", "answered", "build", "charge", "commit"}
Outcomes == {"none", "ok", "timeout", "provider_error", "malformed", "no_guard", "cost_guard"}
Costs    == 0..MaxCost

TypeOK ==
    /\ pc \in [Callers -> Steps]
    /\ attempt \in [Callers -> 0..MaxAttempts]
    /\ cost \in [Callers -> Costs]
    /\ outcome \in [Callers -> Outcomes]
    /\ budgeted \in BOOLEAN
    /\ singleton \in Callers \cup {NoGuard}
    /\ mine \in [Callers -> Callers \cup {NoGuard}]
    /\ total \in [Callers -> Nat]
    /\ count \in [Callers -> Nat]
    /\ lock \in [Callers -> Callers \cup {NoGuard}]
    /\ newTotal \in [Callers -> Nat]
    /\ started \in 0..MaxCalls
    /\ answers \in Nat /\ answered \in Nat /\ billed \in Nat
    /\ unseen \in Nat /\ trips \in Nat

Init ==
    /\ pc = [c \in Callers |-> "idle"]
    /\ attempt = [c \in Callers |-> 0]
    /\ cost = [c \in Callers |-> 0]
    /\ outcome = [c \in Callers |-> "none"]
    /\ budgeted \in BOOLEAN
    /\ singleton = NoGuard
    /\ mine = [c \in Callers |-> NoGuard]
    /\ total = [c \in Callers |-> 0]
    /\ count = [c \in Callers |-> 0]
    /\ lock = [c \in Callers |-> NoGuard]
    /\ newTotal = [c \in Callers |-> 0]
    /\ started = 0 /\ answers = 0 /\ answered = 0 /\ billed = 0
    /\ unseen = 0 /\ trips = 0

Goto(c, step) == pc' = [pc EXCEPT ![c] = step]

\* complete() returns or raises: the caller is idle and knows how the call ended.
Return(c, how) ==
    /\ Goto(c, "idle")
    /\ outcome' = [outcome EXCEPT ![c] = how]

-----------------------------------------------------------------------------
(* The SDK call and its retries.                                           *)

\* The provider charges an attempt, and the guard is, or will be, given known for it.
Bill(charge, known) ==
    /\ billed' = billed + charge
    /\ unseen' = IF known < charge THEN unseen + 1 ELSE unseen

\* complete(): the request is sent for the first time.  Nothing is asked of
\* the guard beforehand.
Start(c) ==
    /\ pc[c] = "idle"
    /\ started < MaxCalls
    /\ started' = started + 1
    /\ attempt' = [attempt EXCEPT ![c] = 1]
    /\ Goto(c, "sdk")
    /\ UNCHANGED <<cost, outcome, budgeted, guardVars, answers, answered, billed, unseen, trips>>

\* The provider answers; _compute_cost prices the answer, at what the table has.
Answer(c) ==
    /\ pc[c] = "sdk"
    /\ \E charge, price \in Costs :
        /\ Bill(charge, price)
        /\ cost' = [cost EXCEPT ![c] = price]
        /\ answered' = answered + price
    /\ answers' = answers + 1
    /\ Goto(c, "answered")
    /\ UNCHANGED <<attempt, outcome, budgeted, guardVars, started, trips>>

\* The answer has no choice or no usage, or the tracer raises: the exception
\* leaves complete() before accumulate().
Malformed(c) ==
    /\ pc[c] = "sdk"
    /\ \E charge \in Costs : Bill(charge, 0)
    /\ Return(c, "malformed")
    /\ UNCHANGED <<attempt, cost, budgeted, guardVars, started, answers, answered, trips>>

\* Mutated form of Timeout: a retry without stop_after_attempt.
TimeoutUnlimited(c) ==
    /\ pc[c] = "sdk"
    /\ attempt' = [attempt EXCEPT ![c] = @ + 1]
    /\ UNCHANGED <<pc, cost, outcome, budgeted, guardVars, history>>

\* An attempt times out.  The provider may have worked and bill it all the
\* same.  The retry re-sends until the attempts are used up.
Timeout(c) ==
    /\ pc[c] = "sdk"
    /\ \E charge \in Costs : Bill(charge, 0)
    /\ \/ /\ attempt[c] < MaxAttempts
          /\ attempt' = [attempt EXCEPT ![c] = @ + 1]
          /\ UNCHANGED <<pc, outcome>>
       \/ /\ attempt[c] = MaxAttempts
          /\ Return(c, "timeout")
          /\ UNCHANGED attempt
    /\ UNCHANGED <<cost, budgeted, guardVars, started, answers, answered, trips>>

\* Any other SDK error is not retried.  A connection that broke after the request
\* was sent may be billed.
ProviderError(c) ==
    /\ pc[c] = "sdk"
    /\ \E charge \in Costs : Bill(charge, 0)
    /\ Return(c, "provider_error")
    /\ UNCHANGED <<attempt, cost, budgeted, guardVars, started, answers, answered, trips>>

-----------------------------------------------------------------------------
(* get_cost_guard(): double-checked locking around _singleton.             *)

\* The first look at _singleton, outside the lock.
LookUp(c) ==
    /\ pc[c] = "answered"
    /\ mine' = [mine EXCEPT ![c] = singleton]
    /\ Goto(c, IF singleton = NoGuard THEN "build" ELSE "charge")
    /\ UNCHANGED <<attempt, cost, outcome, budgeted, singleton, total, count, lock, newTotal, history>>

\* Mutated form of Build: the second look is forgotten, so a caller that
\* waited for the lock replaces the guard the other one built.
BuildUnchecked(c) ==
    /\ pc[c] = "build"
    /\ budgeted
    /\ singleton' = c
    /\ mine' = [mine EXCEPT ![c] = c]
    /\ Goto(c, "charge")
    /\ UNCHANGED <<attempt, cost, outcome, budgeted, total, count, lock, newTotal, history>>

\* Under _singleton_lock: the second look, and the construction when there is
\* still no guard.  _singleton is written nowhere else, so the critical section
\* is one step.
Build(c) ==
    /\ pc[c] = "build"
    /\ singleton # NoGuard \/ budgeted
    /\ singleton' = IF singleton = NoGuard THEN c ELSE singleton
    /\ mine' = [mine EXCEPT ![c] = singleton']
    /\ Goto(c, "charge")
    /\ UNCHANGED <<attempt, cost, outcome, budgeted, total, count, lock, newTotal, history>>

\* The environment does not hold a budget, and the exception leaves complete(): the
\* answer was billed, and nobody is left who would charge it.
BuildFails(c) ==
    /\ pc[c] = "build"
    /\ singleton = NoGuard /\ ~budgeted
    /\ answers' = answers - 1
    /\ answered' = answered - cost[c]
    /\ unseen' = unseen + 1
    /\ Return(c, "no_guard")
    /\ UNCHANGED <<attempt, cost, budgeted, guardVars, started, billed, trips>>

-----------------------------------------------------------------------------
(* CostGuard.accumulate(): read, add, store and check under _lock.         *)

\* Mutated form of Acquire: accumulate() without its lock.
AcquireUnlocked(c) ==
    /\ pc[c] = "charge"
    /\ newTotal' = [newTotal EXCEPT ![c] = total[mine[c]] + cost[c]]
    /\ Goto(c, "commit")
    /\ UNCHANGED <<attempt, cost, outcome, budgeted, singleton, mine, total, count, lock, history>>

\* The lock is taken and new_total computed.
Acquire(c) ==
    /\ pc[c] = "charge"
    /\ lock[mine[c]] = NoGuard
    /\ lock' = [lock EXCEPT ![mine[c]] = c]
    /\ newTotal' = [newTotal EXCEPT ![c] = total[mine[c]] + cost[c]]
    /\ Goto(c, "commit")
    /\ UNCHANGED <<attempt, cost, outcome, budgeted, singleton, mine, total, count, history>>

\* What accumulate() stores.
Store(c) ==
    /\ total' = [total EXCEPT ![mine[c]] = newTotal[c]]
    /\ count' = [count EXCEPT ![mine[c]] = @ + 1]

\* Mutated form of Over: the budget is looked at before the answer is added to it.
OverBefore(c) == total[mine[c]] > Limit

\* The strict comparison after the addition.
Over(c) == newTotal[c] > Limit

\* Mutated form of Commit: the lock is released by hand on the normal path
\* only, so the error path keeps it.
CommitKeepingLock(c) ==
    /\ pc[c] = "commit"
    /\ Store(c)
    /\ \/ Over(c)  /\ Return(c, "cost_guard") /\ trips' = trips + 1 /\ UNCHANGED lock
       \/ ~Over(c) /\ Return(c, "ok") /\ UNCHANGED trips
                   /\ lock' = [lock EXCEPT ![mine[c]] = NoGuard]
    /\ UNCHANGED <<attempt, cost, budgeted, singleton, mine, newTotal,
                   started, answers, answered, billed, unseen>>

\* The state is stored first; then CostGuardError is raised or the answer is
\* returned, and the `with` statement releases the lock on both paths.
Commit(c) ==
    /\ pc[c] = "commit"
    /\ Store(c)
    /\ lock' = [lock EXCEPT ![mine[c]] = NoGuard]
    /\ \/ Over(c)  /\ Return(c, "cost_guard") /\ trips' = trips + 1
       \/ ~Over(c) /\ Return(c, "ok") /\ UNCHANGED trips
    /\ UNCHANGED <<attempt, cost, budgeted, singleton, mine, newTotal,
                   started, answers, answered, billed, unseen>>

Progress(c) ==
    \/ Answer(c) \/ Malformed(c) \/ Timeout(c) \/ ProviderError(c)
    \/ LookUp(c) \/ Build(c) \/ BuildFails(c) \/ Acquire(c) \/ Commit(c)

Next == \E c \in Callers : Start(c) \/ Progress(c)

\* The model stops when every caller is idle and MaxCalls calls were made.

Spec == Init /\ [][Next]_vars

\* The SDK timeout ends every attempt and the OS scheduler runs every thread
\* that is not blocked; nothing makes a caller begin a call.  threading.Lock
\* promises no fairness, so none is assumed of Acquire beyond weak fairness.
FairSpec == Spec /\ \A c \in Callers : WF_vars(Progress(c))

-----------------------------------------------------------------------------
(* Properties.                                                             *)

Quiescent == \A c \in Callers : pc[c] = "idle"

\* Once no call is in progress, the guard get_cost_guard() returns accounts
\* for every answer any thread got as far as accumulate(): no charge was lost to a
\* second guard (get_cost_guard) or to a concurrent accumulate().
NothingLost ==
    Quiescent =>
        IF singleton = NoGuard
        THEN answers = 0
        ELSE total[singleton] = answered /\ count[singleton] = answers

\* The call path implements the ledger: whatever the interleaving of the callers in
\* get_cost_guard() and accumulate(), each answer is added to one total in one step, and
\* complete() raises CostGuardError exactly when that total, with the answer of the call
\* in it, exceeds the limit.  A guard that is being built or locked is not visible.
Books == INSTANCE Ledger WITH
    total <- IF singleton = NoGuard THEN 0 ELSE total[singleton],
    stage <- [c \in Callers |-> CASE pc[c] = "idle" -> "none"
                                  [] pc[c] = "sdk"  -> "asked"
                                  [] OTHER          -> "owed"],
    owes  <- [c \in Callers |-> IF pc[c] \in {"idle", "sdk"} THEN 0 ELSE cost[c]],
    told  <- outcome,
    solvent <- budgeted

ImplementsLedger == Books!Spec

\* What the guard is for: the bill.  However the threads interleave, what the
\* provider charges exceeds the limit by at most one answer for each caller that was
\* told so with a CostGuardError, and one for each attempt the guard was given less
\* for than it cost (timeouts, errors, malformed answers, models that are not in the
\* price table, the dearer tier, a budget that could not be read).
BillBounded == Quiescent => billed <= Limit + (trips + unseen) * MaxCost

\* A call that was started always returns or raises: no retry loop without end
\* and no thread stuck on the locks of the singleton or of the guard.
EveryCallEnds == \A c \in Callers : pc[c] # "idle" ~> pc[c] = "idle"

\* What cost_guard.py promises of a spent budget: "the next outbound call is
\* what fails fast", so no call goes out once the total exceeds the limit.
NextCallFailsFast ==
    [][\A c \in Callers :
        pc[c] = "idle" /\ pc'[c] = "sdk"
            => singleton = NoGuard \/ total[singleton] <= Limit]_vars
=============================================================================
