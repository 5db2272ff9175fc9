------------------------------- MODULE Ledger -------------------------------
(***************************************************************************)
(* What the call path promises about money, without its threads' locks,    *)
(* retries and lazily built singleton: one total for the process, to which *)
(* every answer is added in one step, and a caller that is refused exactly *)
(* when the total with its own answer in it exceeds the limit.             *)
(* A process without a budget charges nobody and answers nobody.           *)
(***************************************************************************)
EXTENDS Integers

CONSTANTS Callers, Limit, MaxCost

VARIABLES
    total,      \* what the answers added so far cost
    stage,      \* of each caller's call: "none", "asked" or "owed"
    owes,       \* the cost of its answer while that is not in the total
    told,       \* how its last call ended
    solvent     \* there is a budget to charge

vars == <<total, stage, owes, told, solvent>>

Init ==
    /\ total = 0
    /\ stage = [c \in Callers |-> "none"]
    /\ owes = [c \in Callers |-> 0]
    /\ told = [c \in Callers |-> "none"]
    /\ solvent \in BOOLEAN

Ask(c) ==
    /\ stage[c] = "none"
    /\ stage' = [stage EXCEPT ![c] = "asked"]
    /\ UNCHANGED <<total, owes, told, solvent>>

Answer(c) ==
    /\ stage[c] = "asked"
    /\ stage' = [stage EXCEPT ![c] = "owed"]
    /\ \E price \in 0..MaxCost : owes' = [owes EXCEPT ![c] = price]
    /\ UNCHANGED <<total, told, solvent>>

GiveUp(c) ==
    /\ stage[c] = "asked"
    /\ stage' = [stage EXCEPT ![c] = "none"]
    /\ \E why \in {"timeout", "provider_error", "malformed"} : told' = [told EXCEPT ![c] = why]
    /\ UNCHANGED <<total, owes, solvent>>

\* The answer is charged, and the caller told whether it may have it.
Settle(c) ==
    /\ stage[c] = "owed" /\ solvent
    /\ stage' = [stage EXCEPT ![c] = "none"]
    /\ owes' = [owes EXCEPT ![c] = 0]
    /\ total' = total + owes[c]
    /\ told' = [told EXCEPT ![c] = IF total' > Limit THEN "cost_guard" ELSE "ok"]
    /\ UNCHANGED solvent

\* Without a budget no answer is ever charged, and none is handed out.
Forgo(c) ==
    /\ stage[c] = "owed" /\ ~solvent
    /\ stage' = [stage EXCEPT ![c] = "none"]
    /\ owes' = [owes EXCEPT ![c] = 0]
    /\ told' = [told EXCEPT ![c] = "no_guard"]
    /\ UNCHANGED <<total, solvent>>

Next == \E c \in Callers : Ask(c) \/ Answer(c) \/ GiveUp(c) \/ Settle(c) \/ Forgo(c)

Spec == Init /\ [][Next]_vars
=============================================================================
