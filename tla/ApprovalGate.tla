---------------------------- MODULE ApprovalGate ----------------------------
(***************************************************************************)
(* What the multi-agent pipeline promises about fix artifacts, without its *)
(* nodes, threads and checkpoints: an artifact is executed only once it    *)
(* was reviewed, and either a review cleared it or a human answered for    *)
(* the HIGH_RISK verdict it was held for (Constitution, principle V; the   *)
(* security_gate node).                                                    *)
(*                                                                         *)
(* Facts about an artifact are only ever added.  An artifact can be both   *)
(* cleared and held: two invocations of the graph on the same incident may *)
(* both review it and disagree.                                            *)
(***************************************************************************)
EXTENDS Integers

CONSTANT Artifacts

VARIABLES
    produced,   \* artifacts a specialist emitted
    cleared,    \* artifacts some review judged SAFE or CAUTION
    held,       \* artifacts some review judged HIGH_RISK
    released,   \* held artifacts a resume decision let pass the gate
    executed    \* artifacts the Verifier ran

vars == <<produced, cleared, held, released, executed>>

Init ==
    /\ produced = {} /\ cleared = {} /\ held = {}
    /\ released = {} /\ executed = {}

Produce(a) ==
    /\ a \notin produced
    /\ produced' = produced \cup {a}
    /\ UNCHANGED <<cleared, held, released, executed>>

Clear(a) ==
    /\ a \in produced
    /\ cleared' = cleared \cup {a}
    /\ UNCHANGED <<produced, held, released, executed>>

Hold(a) ==
    /\ a \in produced
    /\ held' = held \cup {a}
    /\ UNCHANGED <<produced, cleared, released, executed>>

Release(a) ==
    /\ a \in held
    /\ released' = released \cup {a}
    /\ UNCHANGED <<produced, cleared, held, executed>>

Execute(a) ==
    /\ a \in cleared \cup released
    /\ executed' = executed \cup {a}
    /\ UNCHANGED <<produced, cleared, held, released>>

Next == \E a \in Artifacts :
    Produce(a) \/ Clear(a) \/ Hold(a) \/ Release(a) \/ Execute(a)

Spec == Init /\ [][Next]_vars
=============================================================================
