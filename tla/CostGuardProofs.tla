-------------------------- MODULE CostGuardProofs --------------------------
(***************************************************************************)
(* Proofs about CostGuard, for any finite set of callers, any budget, any  *)
(* price and any number of attempts and calls.                             *)
(*                                                                         *)
(* The safety properties are not inductive: they only hold because the     *)
(* singleton is built once, because whoever is between reading and storing *)
(* total_spent holds the lock, and because what is answered but not yet    *)
(* stored is still in some caller's hands.  IInv says those three things,  *)
(* and what of the bill the guard cannot know.                             *)
(* With them, every step is one of Ledger or invisible in it: the second   *)
(* half of accumulate() is the one that settles.                           *)
(***************************************************************************)
EXTENDS CostGuard, FiniteSetTheorems, TLAPS

\* Callers whose answer was received and is not yet in total_spent.
Holding == {c \in Callers : pc[c] \notin {"idle", "sdk"}}

\* Their answers, one element a unit of money, so that a sum of costs is the
\* cardinality of a set.
Units(c)   == {c} \X (1..cost[c])
UnitsHeld  == {u \in Callers \X (1..MaxCost) : u[1] \in Holding /\ u[2] <= cost[u[1]]}

Spent   == IF singleton = NoGuard THEN 0 ELSE total[singleton]
Charged == IF singleton = NoGuard THEN 0 ELSE count[singleton]

\* A caller that charges has a guard to charge: without this, total[mine[c]]
\* has no type.
TypeInv == TypeOK /\ \A c \in Callers : pc[c] \in {"charge", "commit"} => mine[c] \in Callers

\* There is one guard: whoever charges has it, and the others were never used.
OneGuard ==
    /\ \A c \in Callers : pc[c] \in {"charge", "commit"}
                            => singleton # NoGuard /\ mine[c] = singleton
    /\ \A g \in Callers : g # singleton => total[g] = 0 /\ count[g] = 0

\* Between reading and storing, the reader holds the lock and the total is
\* still what it read.
ReadUnderLock ==
    \A c \in Callers : pc[c] = "commit"
        => /\ lock[singleton] = c
           /\ newTotal[c] = total[singleton] + cost[c]

\* What was answered is either stored or in a caller's hands.
Conservation ==
    /\ Charged + Cardinality(Holding) = answers
    /\ Spent + Cardinality(UnitsHeld) = answered

\* Somebody was refused if, and only if, the budget is exceeded: no spend above the limit
\* goes unreported, and a budget that is only met refuses nobody.
TripsExactlyWhenOver == (trips > 0) <=> (\E g \in Callers : total[g] > Limit)

\* The overshoot is bounded by the calls that were told about it: every unit above the
\* limit belongs to an answer whose caller got CostGuardError.
BoundedOvershoot == \A g \in Callers : total[g] <= Limit + trips * MaxCost

\* What is billed above what the guard is given belongs to the attempts it was given
\* less for.
BillKnown == billed <= answered + unseen * MaxCost

\* Nobody is charged in a process without a budget.
NoBudgetNoGuard == ~budgeted => singleton = NoGuard

IInv ==
    /\ TypeInv
    /\ OneGuard
    /\ NoBudgetNoGuard
    /\ ReadUnderLock
    /\ Conservation
    /\ TripsExactlyWhenOver
    /\ BoundedOvershoot
    /\ BillKnown
-----------------------------------------------------------------------------
(* Counting the units of money in flight.                                  *)

\* n units in one pair of hands are n units.
LEMMA UnitsOf ==
  ASSUME NEW x, NEW n \in Nat
  PROVE  IsFiniteSet({x} \X (1..n)) /\ Cardinality({x} \X (1..n)) = n
<1>1. IsFiniteSet(1..n) /\ Cardinality(1..n) = n
  BY FS_Interval
<1>2. IsFiniteSet({x}) /\ Cardinality({x}) = 1
  BY FS_Singleton
<1>3. Cardinality({x} \X (1..n)) = 1 * n
  BY <1>1, <1>2, FS_Product
<1>4. IsFiniteSet({x} \X (1..n))
  BY <1>1, <1>2, FS_Product
<1>. QED BY <1>3, <1>4

\* The sets that are counted are finite, and a caller's units are its cost.
LEMMA Finiteness ==
  ASSUME TypeOK
  PROVE  /\ IsFiniteSet(Holding)
         /\ IsFiniteSet(UnitsHeld)
         /\ \A c \in Callers : IsFiniteSet(Units(c)) /\ Cardinality(Units(c)) = cost[c]
<1>1. IsFiniteSet(Holding)
  <2>1. Holding \in SUBSET Callers
    BY DEF Holding
  <2>. QED BY <2>1, CallersAssumption, FS_Subset
<1>2. IsFiniteSet(UnitsHeld)
  <2>1. IsFiniteSet(1..MaxCost)
    BY BudgetAssumption, FS_Interval
  <2>2. IsFiniteSet(Callers \X (1..MaxCost))
    BY <2>1, CallersAssumption, FS_Product
  <2>3. UnitsHeld \in SUBSET (Callers \X (1..MaxCost))
    BY DEF UnitsHeld
  <2>. QED BY <2>2, <2>3, FS_Subset
<1>3. ASSUME NEW c \in Callers
      PROVE  IsFiniteSet(Units(c)) /\ Cardinality(Units(c)) = cost[c]
  <2>1. cost[c] \in Nat
    BY BudgetAssumption DEF TypeOK, Costs
  <2>. QED BY <2>1, UnitsOf DEF Units
<1>. QED BY <1>1, <1>2, <1>3

\* A step by which no caller receives or stores an answer keeps both sets.
LEMMA NothingMoves ==
  ASSUME TypeOK, Holding' = Holding, \A c \in Holding : cost'[c] = cost[c]
  PROVE  UnitsHeld' = UnitsHeld
BY DEF UnitsHeld, Holding

\* As long as nothing was charged, what a caller holds is among what was answered.
LEMMA HeldIsCounted ==
  ASSUME TypeOK, Conservation, singleton = NoGuard, NEW c \in Callers, pc[c] = "build"
  PROVE  answers >= 1 /\ answered >= cost[c]
<1>1. answers = Cardinality(Holding) /\ answered = Cardinality(UnitsHeld)
  BY Finiteness, FS_CardinalityType DEF Conservation, Spent, Charged
<1>2. Cardinality(Holding) >= 1
  <2>1. Holding # {}
    BY DEF Holding
  <2>2. Cardinality(Holding) # 0 /\ Cardinality(Holding) \in Nat
    BY <2>1, Finiteness, FS_EmptySet, FS_CardinalityType
  <2>. QED BY <2>2
<1>3. Cardinality(UnitsHeld) >= cost[c]
  <2>1. Units(c) \in SUBSET UnitsHeld
    BY BudgetAssumption DEF Units, UnitsHeld, Holding, TypeOK, Costs
  <2>2. Cardinality(Units(c)) <= Cardinality(UnitsHeld)
    BY <2>1, Finiteness, FS_Subset
  <2>. QED BY <2>2, Finiteness, FS_CardinalityType
<1>. QED BY <1>1, <1>2, <1>3

-----------------------------------------------------------------------------
(* Type correctness.                                                       *)

\* Every step keeps the types.
LEMMA TypeStep == IInv /\ [Next]_vars => TypeInv'
<1>. USE CallersAssumption, BudgetAssumption, BoundsAssumption
     DEF TypeInv, TypeOK, Steps, Outcomes, Costs
<1>. SUFFICES ASSUME IInv, [Next]_vars PROVE TypeInv'
  OBVIOUS
<1>0. TypeInv /\ Conservation
  BY DEF IInv
<1>1. ASSUME NEW c \in Callers, Start(c) PROVE TypeInv'
  BY <1>0, <1>1 DEF Start, Goto, guardVars
<1>2. ASSUME NEW c \in Callers, Answer(c) PROVE TypeInv'
  BY <1>0, <1>2 DEF Answer, Bill, Goto, guardVars
<1>3. ASSUME NEW c \in Callers, Timeout(c) PROVE TypeInv'
  BY <1>0, <1>3 DEF Timeout, Bill, Goto, Return, guardVars
<1>4. ASSUME NEW c \in Callers, ProviderError(c) PROVE TypeInv'
  BY <1>0, <1>4 DEF ProviderError, Bill, Goto, Return, guardVars, history
<1>5. ASSUME NEW c \in Callers, LookUp(c) PROVE TypeInv'
  BY <1>0, <1>5 DEF LookUp, Goto, history
<1>6. ASSUME NEW c \in Callers, Build(c) PROVE TypeInv'
  BY <1>0, <1>6 DEF Build, Goto, history
<1>7. ASSUME NEW c \in Callers, Acquire(c) PROVE TypeInv'
  BY <1>0, <1>7 DEF Acquire, Goto, history
<1>8. ASSUME NEW c \in Callers, Commit(c) PROVE TypeInv'
  BY <1>0, <1>8 DEF Commit, Store, Over, Return, Goto
<1>a. ASSUME NEW c \in Callers, Malformed(c) PROVE TypeInv'
  BY <1>0, <1>a DEF Malformed, Bill, Goto, Return, guardVars
<1>b. ASSUME NEW c \in Callers, BuildFails(c) PROVE TypeInv'
  <2>1. answers >= 1 /\ answered >= cost[c]
    BY <1>0, <1>b, HeldIsCounted DEF BuildFails
  <2>2. answers - 1 \in Nat /\ answered - cost[c] \in Nat
    BY <1>0, <2>1
  <2>. QED BY <1>0, <1>b, <2>2 DEF BuildFails, Return, Goto, guardVars
<1>9. CASE UNCHANGED vars
  BY <1>0, <1>9 DEF vars, guardVars, history
<1>. QED
  BY <1>1, <1>2, <1>3, <1>4, <1>5, <1>6, <1>7, <1>8, <1>9, <1>a, <1>b DEF Next, Progress

-----------------------------------------------------------------------------
(* One guard, and reads under its lock.                                    *)

\* The double-checked locking of get_cost_guard() never replaces a guard, and
\* the lock of accumulate() keeps what was read valid until it is stored.
LEMMA GuardStep ==
  TypeInv /\ OneGuard /\ ReadUnderLock /\ [Next]_vars => OneGuard' /\ ReadUnderLock'
<1>. USE CallersAssumption DEF TypeInv, TypeOK, OneGuard, ReadUnderLock
<1>. SUFFICES ASSUME TypeInv, OneGuard, ReadUnderLock, [Next]_vars
              PROVE  OneGuard' /\ ReadUnderLock'
  OBVIOUS
<1>1. ASSUME NEW c \in Callers, Start(c) PROVE OneGuard' /\ ReadUnderLock'
  BY <1>1 DEF Start, Goto, guardVars
<1>2. ASSUME NEW c \in Callers, Answer(c) PROVE OneGuard' /\ ReadUnderLock'
  BY <1>2 DEF Answer, Goto, guardVars
<1>3. ASSUME NEW c \in Callers, Timeout(c) PROVE OneGuard' /\ ReadUnderLock'
  BY <1>3 DEF Timeout, Goto, Return, guardVars
<1>4. ASSUME NEW c \in Callers, ProviderError(c) PROVE OneGuard' /\ ReadUnderLock'
  BY <1>4 DEF ProviderError, Goto, Return, guardVars
<1>5. ASSUME NEW c \in Callers, LookUp(c) PROVE OneGuard' /\ ReadUnderLock'
  BY <1>5 DEF LookUp, Goto
<1>6. ASSUME NEW c \in Callers, Build(c) PROVE OneGuard' /\ ReadUnderLock'
  <2>1. OneGuard'
    BY <1>6 DEF Build, Goto
  <2>2. ReadUnderLock'
    BY <1>6 DEF Build, Goto
  <2>. QED BY <2>1, <2>2
<1>7. ASSUME NEW c \in Callers, Acquire(c) PROVE OneGuard' /\ ReadUnderLock'
  <2>1. OneGuard'
    BY <1>7 DEF Acquire, Goto
  <2>2. ASSUME NEW d \in Callers, pc'[d] = "commit"
        PROVE  lock'[singleton'] = d /\ newTotal'[d] = total'[singleton'] + cost'[d]
    <3>1. CASE d = c
      BY <1>7, <3>1 DEF Acquire, Goto
    <3>2. CASE d # c
      \* d would hold the lock that c just found free
      BY <1>7, <2>2, <3>2 DEF Acquire, Goto
    <3>. QED BY <3>1, <3>2
  <2>. QED BY <2>1, <2>2
<1>8. ASSUME NEW c \in Callers, Commit(c) PROVE OneGuard' /\ ReadUnderLock'
  <2>1. OneGuard'
    BY <1>8 DEF Commit, Store, Return, Goto
  <2>2. \A d \in Callers \ {c} : pc[d] # "commit"
    BY <1>8 DEF Commit
  <2>3. ReadUnderLock'
    BY <1>8, <2>2 DEF Commit, Store, Return, Goto
  <2>. QED BY <2>1, <2>3
<1>a. ASSUME NEW c \in Callers, Malformed(c) PROVE OneGuard' /\ ReadUnderLock'
  BY <1>a DEF Malformed, Goto, Return, guardVars
<1>b. ASSUME NEW c \in Callers, BuildFails(c) PROVE OneGuard' /\ ReadUnderLock'
  BY <1>b DEF BuildFails, Goto, Return, guardVars
<1>9. CASE UNCHANGED vars
  BY <1>9 DEF vars, guardVars
<1>. QED
  BY <1>1, <1>2, <1>3, <1>4, <1>5, <1>6, <1>7, <1>8, <1>9, <1>a, <1>b DEF Next, Progress

\* Only Build makes a guard, and not without a budget.
LEMMA NoGuardStep == NoBudgetNoGuard /\ [Next]_vars => NoBudgetNoGuard'
BY DEF NoBudgetNoGuard, Next, Progress, Start, Answer, Malformed, Timeout, ProviderError, LookUp,
       Build, BuildFails, Acquire, Commit, vars, guardVars

-----------------------------------------------------------------------------
(* The budget.                                                             *)

\* Multiplication by a successor, which the budget steps need as a fact.
LEMMA TimesSuccessor == \A n, m \in Nat : n * m \in Nat /\ (n + 1) * m = n * m + m
  OBVIOUS

LEMMA TimesSum ==
  \A k, n, m \in Nat : k * m \in Nat /\ n * m \in Nat /\ (k + n) * m = k * m + n * m
  OBVIOUS

\* What Bill does to the bound of the bill.
LEMMA BillStep ==
  ASSUME BillKnown, NEW charge \in 0..MaxCost, NEW known \in Nat, Bill(charge, known),
         answered' = answered + known, unseen \in Nat, answered \in Nat, billed \in Nat
  PROVE  BillKnown'
<1>1. unseen * MaxCost \in Nat /\ (unseen + 1) * MaxCost = unseen * MaxCost + MaxCost
  BY BudgetAssumption, TimesSuccessor
<1>2. CASE known < charge
  BY <1>1, <1>2, BudgetAssumption DEF Bill, BillKnown
<1>3. CASE ~(known < charge)
  BY <1>1, <1>3, BudgetAssumption DEF Bill, BillKnown
<1>. QED BY <1>2, <1>3

Budget == TripsExactlyWhenOver /\ BoundedOvershoot /\ BillKnown

\* Only storing a total can exceed the budget, and it raises when it does; only
\* an attempt that counts as unseen is billed above what the guard gets for it.
LEMMA BudgetStep ==
  TypeInv /\ OneGuard /\ ReadUnderLock /\ Budget /\ [Next]_vars => Budget'
<1>. USE CallersAssumption, BudgetAssumption
     DEF TypeInv, TypeOK, Costs, Budget, TripsExactlyWhenOver, BoundedOvershoot,
         BillKnown
<1>. SUFFICES ASSUME TypeInv, OneGuard, ReadUnderLock, Budget, [Next]_vars
              PROVE  Budget'
  OBVIOUS
<1>1. ASSUME NEW c \in Callers, Start(c) PROVE Budget'
  BY <1>1 DEF Start, guardVars
<1>2. ASSUME NEW c \in Callers, Answer(c) PROVE Budget'
  <2>1. PICK charge \in Costs, price \in Costs : Bill(charge, price) /\ answered' = answered + price
    BY <1>2 DEF Answer
  <2>2. BillKnown'
    BY <2>1, BillStep
  <2>. QED BY <1>2, <2>2 DEF Answer, guardVars
<1>c. ASSUME NEW charge \in Costs, Bill(charge, 0), answered' = answered PROVE BillKnown'
  BY <1>c, BillStep
<1>3. ASSUME NEW c \in Callers, Timeout(c) PROVE Budget'
  <2>1. BillKnown'
    BY <1>3, <1>c DEF Timeout
  <2>. QED BY <1>3, <2>1 DEF Timeout, guardVars
<1>4. ASSUME NEW c \in Callers, ProviderError(c) PROVE Budget'
  <2>1. BillKnown'
    BY <1>4, <1>c DEF ProviderError
  <2>. QED BY <1>4, <2>1 DEF ProviderError, guardVars
<1>a. ASSUME NEW c \in Callers, Malformed(c) PROVE Budget'
  <2>1. BillKnown'
    BY <1>a, <1>c DEF Malformed
  <2>. QED BY <1>a, <2>1 DEF Malformed, guardVars
<1>b. ASSUME NEW c \in Callers, BuildFails(c) PROVE Budget'
  <2>1. (unseen + 1) * MaxCost = unseen * MaxCost + MaxCost /\ unseen * MaxCost \in Nat
    BY TimesSuccessor
  <2>2. BillKnown'
    BY <1>b, <2>1 DEF BuildFails
  <2>. QED BY <1>b, <2>2 DEF BuildFails, guardVars
<1>5. ASSUME NEW c \in Callers, LookUp(c) PROVE Budget'
  BY <1>5 DEF LookUp, history
<1>6. ASSUME NEW c \in Callers, Build(c) PROVE Budget'
  BY <1>6 DEF Build, history
<1>7. ASSUME NEW c \in Callers, Acquire(c) PROVE Budget'
  BY <1>7 DEF Acquire, history
<1>8. ASSUME NEW c \in Callers, Commit(c) PROVE Budget'
  <2>1. /\ mine[c] = singleton /\ singleton \in Callers
        /\ newTotal[c] = total[singleton] + cost[c] /\ cost[c] \in 0..MaxCost
    BY <1>8 DEF Commit, OneGuard, ReadUnderLock
  <2>2. total' = [total EXCEPT ![singleton] = newTotal[c]]
    BY <1>8, <2>1 DEF Commit, Store
  <2>3. CASE Over(c) /\ trips' = trips + 1
    <3>1. trips' * MaxCost = trips * MaxCost + MaxCost /\ trips * MaxCost \in Nat
      BY <2>3, TimesSuccessor
    <3>2. ASSUME NEW g \in Callers PROVE total'[g] <= Limit + trips' * MaxCost
      <4>1. total[singleton] <= Limit + trips * MaxCost /\ total[g] <= Limit + trips * MaxCost
        BY <2>1
      <4>2. total'[g] = IF g = singleton THEN total[singleton] + cost[c] ELSE total[g]
        BY <2>1, <2>2
      <4>. QED BY <2>1, <3>1, <4>1, <4>2
    <3>3. TripsExactlyWhenOver'
      BY <2>1, <2>2, <2>3 DEF Over
    <3>. QED BY <1>8, <3>2, <3>3 DEF Commit
  <2>4. CASE ~Over(c) /\ trips' = trips
    <3>1. trips * MaxCost \in Nat
      BY TimesSuccessor
    <3>2. total'[singleton] <= Limit
      BY <2>1, <2>2, <2>4 DEF Over
    <3>3. BoundedOvershoot'
      BY <2>1, <2>2, <2>4, <3>1, <3>2
    <3>4. TripsExactlyWhenOver'
      \* the total only grows, so a guard that is not over now never was
      BY <2>1, <2>2, <2>4, <3>2
    <3>. QED BY <1>8, <3>3, <3>4 DEF Commit
  <2>. QED BY <1>8, <2>3, <2>4 DEF Commit
<1>9. CASE UNCHANGED vars
  BY <1>9 DEF vars, guardVars, history
<1>. QED
  BY <1>1, <1>2, <1>3, <1>4, <1>5, <1>6, <1>7, <1>8, <1>9, <1>a, <1>b DEF Next, Progress

-----------------------------------------------------------------------------
(* Nothing is lost.                                                        *)

\* A caller that lets go of its answer takes its units with it.
LEMMA LetsGo ==
  ASSUME TypeOK, NEW c \in Holding, Holding' = Holding \ {c}, UNCHANGED cost
  PROVE  /\ Cardinality(UnitsHeld) = Cardinality(UnitsHeld') + cost[c]
         /\ Cardinality(Holding') = Cardinality(Holding) - 1
         /\ Cardinality(UnitsHeld') \in Nat /\ Cardinality(Holding) \in Nat
<1>. USE BudgetAssumption DEF TypeOK, Costs
<1>0. c \in Callers
  BY DEF Holding
<1>1. UnitsHeld = UnitsHeld' \cup Units(c) /\ UnitsHeld' \cap Units(c) = {}
  BY <1>0 DEF UnitsHeld, Units
<1>2. IsFiniteSet(UnitsHeld')
  <2>1. UnitsHeld' \in SUBSET UnitsHeld
    BY <1>1
  <2>. QED BY <2>1, Finiteness, FS_Subset
<1>3. Cardinality(UnitsHeld) = Cardinality(UnitsHeld') + cost[c]
  <2>1. Cardinality(UnitsHeld) = Cardinality(UnitsHeld') + cost[c] - Cardinality({})
    BY <1>0, <1>1, <1>2, Finiteness, FS_Union
  <2>. QED BY <1>0, <2>1, <1>2, FS_EmptySet, FS_CardinalityType
<1>4. Cardinality(Holding') = Cardinality(Holding) - 1
  BY Finiteness, FS_RemoveElement
<1>. QED BY <1>2, <1>3, <1>4, Finiteness, FS_CardinalityType

\* Receiving an answer puts its units into a caller's hands; storing it takes
\* them out and adds them to the total of the one guard.
LEMMA ConservationStep ==
  IInv /\ [Next]_vars => Conservation'
<1>. USE CallersAssumption, BudgetAssumption DEF IInv, TypeInv, TypeOK, Costs
<1>. SUFFICES ASSUME IInv, [Next]_vars PROVE Conservation'
  OBVIOUS
<1>. DEFINE Still == /\ Holding' = Holding /\ UnitsHeld' = UnitsHeld
                     /\ Spent' = Spent /\ Charged' = Charged
                     /\ UNCHANGED <<answers, answered>>
<1>0. ASSUME Still PROVE Conservation'
  BY <1>0 DEF Conservation
<1>1. ASSUME NEW c \in Callers, Start(c) PROVE Conservation'
  <2>1. Holding' = Holding
    BY <1>1 DEF Start, Goto, Holding
  <2>2. UnitsHeld' = UnitsHeld
    BY <1>1, <2>1, NothingMoves DEF Start
  <2>. QED BY <1>0, <1>1, <2>1, <2>2 DEF Start, guardVars, Spent, Charged
<1>2. ASSUME NEW c \in Callers, Answer(c) PROVE Conservation'
  <2>1. PICK price \in Costs : cost' = [cost EXCEPT ![c] = price] /\ answered' = answered + price
    BY <1>2 DEF Answer
  <2>2. Holding' = Holding \cup {c} /\ c \notin Holding
    BY <1>2 DEF Answer, Goto, Holding
  <2>3. UnitsHeld' = UnitsHeld \cup Units(c)' /\ UnitsHeld \cap Units(c)' = {}
    BY <2>1, <2>2 DEF UnitsHeld, Units
  <2>4. TypeOK'
    BY TypeStep
  <2>5. IsFiniteSet(Units(c)') /\ Cardinality(Units(c)') = price
    <3>1. Units(c)' = {c} \X (1..price)
      BY <2>1 DEF Units
    <3>2. price \in Nat
      OBVIOUS
    <3>3. /\ IsFiniteSet({c} \X (1..price))
          /\ Cardinality({c} \X (1..price)) = price
      BY <3>2, UnitsOf
    <3>. QED BY <3>1, <3>3, Zenon
  <2>6. Cardinality(UnitsHeld') = Cardinality(UnitsHeld) + price
    <3>1. Cardinality(UnitsHeld') = Cardinality(UnitsHeld) + price - Cardinality({})
      BY <2>3, <2>5, Finiteness, FS_Union
    <3>. QED BY <3>1, <2>5, Finiteness, FS_EmptySet, FS_CardinalityType
  <2>7. Cardinality(Holding') = Cardinality(Holding) + 1
    BY <2>2, Finiteness, FS_AddElement
  <2>8. Spent' = Spent /\ Charged' = Charged /\ answers' = answers + 1
    BY <1>2 DEF Answer, guardVars, Spent, Charged
  <2>9. /\ Cardinality(Holding) \in Nat /\ Cardinality(UnitsHeld) \in Nat
        /\ Spent \in Nat /\ Charged \in Nat
    BY Finiteness, FS_CardinalityType DEF Spent, Charged
  <2>. QED BY <2>1, <2>6, <2>7, <2>8, <2>9 DEF Conservation
<1>3. ASSUME NEW c \in Callers, Timeout(c) PROVE Conservation'
  <2>1. Holding' = Holding
    BY <1>3 DEF Timeout, Return, Goto, Holding
  <2>2. UnitsHeld' = UnitsHeld
    BY <1>3, <2>1, NothingMoves DEF Timeout
  <2>. QED BY <1>0, <1>3, <2>1, <2>2 DEF Timeout, guardVars, Spent, Charged
<1>4. ASSUME NEW c \in Callers, ProviderError(c) PROVE Conservation'
  <2>1. Holding' = Holding
    BY <1>4 DEF ProviderError, Return, Goto, Holding
  <2>2. UnitsHeld' = UnitsHeld
    BY <1>4, <2>1, NothingMoves DEF ProviderError
  <2>. QED BY <1>0, <1>4, <2>1, <2>2 DEF ProviderError, guardVars, Spent, Charged
<1>5. ASSUME NEW c \in Callers, LookUp(c) PROVE Conservation'
  <2>1. Holding' = Holding
    BY <1>5 DEF LookUp, Goto, Holding
  <2>2. UnitsHeld' = UnitsHeld
    BY <1>5, <2>1, NothingMoves DEF LookUp
  <2>. QED BY <1>0, <1>5, <2>1, <2>2 DEF LookUp, history, Spent, Charged
<1>6. ASSUME NEW c \in Callers, Build(c) PROVE Conservation'
  <2>1. Holding' = Holding
    BY <1>6 DEF Build, Goto, Holding
  <2>2. UnitsHeld' = UnitsHeld
    BY <1>6, <2>1, NothingMoves DEF Build
  <2>3. Spent' = Spent /\ Charged' = Charged
    \* a new guard has spent nothing
    BY <1>6 DEF Build, Spent, Charged, OneGuard
  <2>. QED BY <1>0, <1>6, <2>1, <2>2, <2>3 DEF Build, history
<1>7. ASSUME NEW c \in Callers, Acquire(c) PROVE Conservation'
  <2>1. Holding' = Holding
    BY <1>7 DEF Acquire, Goto, Holding
  <2>2. UnitsHeld' = UnitsHeld
    BY <1>7, <2>1, NothingMoves DEF Acquire
  <2>. QED BY <1>0, <1>7, <2>1, <2>2 DEF Acquire, history, Spent, Charged
<1>8. ASSUME NEW c \in Callers, Commit(c) PROVE Conservation'
  <2>1. /\ mine[c] = singleton /\ singleton \in Callers
        /\ newTotal[c] = total[singleton] + cost[c]
    BY <1>8 DEF Commit, OneGuard, ReadUnderLock
  <2>2. Spent' = Spent + cost[c] /\ Charged' = Charged + 1
    BY <1>8, <2>1 DEF Commit, Store, Spent, Charged
  <2>3. Holding' = Holding \ {c} /\ c \in Holding
    BY <1>8 DEF Commit, Return, Goto, Holding
  <2>4. /\ Cardinality(UnitsHeld) = Cardinality(UnitsHeld') + cost[c]
        /\ Cardinality(Holding') = Cardinality(Holding) - 1
        /\ Cardinality(UnitsHeld') \in Nat /\ Cardinality(Holding) \in Nat
    BY <1>8, <2>3, LetsGo DEF Commit
  <2>8. Spent \in Nat /\ Charged \in Nat
    BY DEF Spent, Charged
  <2>9. UNCHANGED <<answers, answered>>
    BY <1>8 DEF Commit
  <2>. QED BY <2>2, <2>4, <2>8, <2>9 DEF Conservation
<1>a. ASSUME NEW c \in Callers, Malformed(c) PROVE Conservation'
  <2>1. Holding' = Holding
    BY <1>a DEF Malformed, Return, Goto, Holding
  <2>2. UnitsHeld' = UnitsHeld
    BY <1>a, <2>1, NothingMoves DEF Malformed
  <2>. QED BY <1>0, <1>a, <2>1, <2>2 DEF Malformed, guardVars, Spent, Charged
<1>b. ASSUME NEW c \in Callers, BuildFails(c) PROVE Conservation'
  <2>1. Spent' = Spent /\ Charged' = Charged /\ UNCHANGED cost
    BY <1>b DEF BuildFails, guardVars, Spent, Charged
  <2>2. Holding' = Holding \ {c} /\ c \in Holding
    BY <1>b DEF BuildFails, Return, Goto, Holding
  <2>3. /\ Cardinality(UnitsHeld) = Cardinality(UnitsHeld') + cost[c]
        /\ Cardinality(Holding') = Cardinality(Holding) - 1
        /\ Cardinality(UnitsHeld') \in Nat /\ Cardinality(Holding) \in Nat
    BY <2>1, <2>2, LetsGo
  <2>4. Spent \in Nat /\ Charged \in Nat
    BY DEF Spent, Charged
  <2>5. answers' = answers - 1 /\ answered' = answered - cost[c]
    BY <1>b DEF BuildFails
  <2>. QED BY <2>1, <2>3, <2>4, <2>5 DEF Conservation
<1>9. CASE UNCHANGED vars
  <2>1. Holding' = Holding
    BY <1>9 DEF vars, Holding
  <2>2. UnitsHeld' = UnitsHeld
    BY <1>9, <2>1, NothingMoves DEF vars
  <2>. QED BY <1>0, <1>9, <2>1, <2>2 DEF vars, guardVars, history, Spent, Charged
<1>. QED
  BY <1>1, <1>2, <1>3, <1>4, <1>5, <1>6, <1>7, <1>8, <1>9, <1>a, <1>b DEF Next, Progress

-----------------------------------------------------------------------------
(* The theorems.                                                           *)

\* IInv is an inductive invariant of every run of the callers.
THEOREM Inductive == Spec => []IInv
<1>1. Init => IInv
  <2>. SUFFICES ASSUME Init PROVE IInv
    OBVIOUS
  <2>1. TypeInv
    BY CallersAssumption, BudgetAssumption, BoundsAssumption
       DEF Init, TypeInv, TypeOK, Steps, Outcomes, Costs
  <2>2. Holding = {} /\ UnitsHeld = {}
    BY DEF Init, Holding, UnitsHeld
  <2>3. Conservation
    BY <2>2, FS_EmptySet DEF Init, Conservation, Spent, Charged
  <2>4. OneGuard /\ ReadUnderLock /\ NoBudgetNoGuard
    BY CallersAssumption DEF Init, OneGuard, ReadUnderLock, NoBudgetNoGuard
  <2>5. TripsExactlyWhenOver /\ BoundedOvershoot /\ BillKnown
    BY BudgetAssumption
       DEF Init, TripsExactlyWhenOver, BoundedOvershoot, BillKnown
  <2>. QED BY <2>1, <2>3, <2>4, <2>5 DEF IInv
<1>2. IInv /\ [Next]_vars => IInv'
  BY TypeStep, GuardStep, NoGuardStep, BudgetStep, ConservationStep DEF IInv, Budget
<1>. QED
  BY <1>1, <1>2, PTL DEF Spec

\* Every variable keeps its type, whatever the interleaving of the callers.
THEOREM TypeCorrect == Spec => []TypeOK
<1>1. IInv => TypeOK
  BY DEF IInv, TypeInv
<1>. QED
  BY <1>1, Inductive, PTL

\* At quiescence the singleton accounts for every answer (get_cost_guard and
\* accumulate lose no charge to a race).
THEOREM NothingIsLost == Spec => []NothingLost
<1>1. IInv => NothingLost
  <2>. SUFFICES ASSUME IInv, Quiescent PROVE NothingLost
    BY DEF NothingLost
  <2>1. Holding = {} /\ UnitsHeld = {}
    BY DEF Quiescent, Holding, UnitsHeld
  <2>2. /\ Charged + 0 = answers /\ Spent + 0 = answered
        /\ Charged \in Nat /\ Spent \in Nat
    BY <2>1, FS_EmptySet DEF IInv, Conservation, TypeInv, TypeOK, Spent, Charged
  <2>. QED BY <2>2, CallersAssumption DEF NothingLost, Spent, Charged, IInv, TypeInv, TypeOK
<1>. QED
  BY <1>1, Inductive, PTL

\* The guard aborts a caller exactly when the budget is exceeded.
THEOREM BudgetHolds == Spec => []TripsExactlyWhenOver
<1>1. IInv => TripsExactlyWhenOver
  BY DEF IInv
<1>. QED
  BY <1>1, Inductive, PTL

\* The overshoot is paid for by the callers that were aborted.
THEOREM OvershootIsBounded == Spec => []BoundedOvershoot
<1>1. IInv => BoundedOvershoot
  BY DEF IInv
<1>. QED
  BY <1>1, Inductive, PTL

\* Whatever is priced wrongly, times out or breaks, the bill exceeds the limit by at most
\* one answer for each caller that was refused and each attempt the guard was given
\* less for.
THEOREM BillIsBounded == Spec => []BillBounded
<1>1. IInv => BillBounded
  <2>. SUFFICES ASSUME IInv, Quiescent PROVE billed <= Limit + (trips + unseen) * MaxCost
    BY DEF BillBounded
  <2>1. /\ billed \in Nat /\ answered \in Nat /\ trips \in Nat /\ unseen \in Nat
        /\ Limit \in Nat /\ MaxCost \in Nat /\ Spent \in Nat
    BY BudgetAssumption DEF IInv, TypeInv, TypeOK, Spent
  <2>2. UnitsHeld = {}
    BY DEF Quiescent, Holding, UnitsHeld
  <2>3. Spent = answered
    BY <2>1, <2>2, FS_EmptySet DEF IInv, Conservation
  <2>4. /\ trips * MaxCost \in Nat /\ unseen * MaxCost \in Nat
        /\ (trips + unseen) * MaxCost = trips * MaxCost + unseen * MaxCost
    BY <2>1, TimesSum
  <2>5. Spent <= Limit + trips * MaxCost
    BY <2>1, <2>4 DEF IInv, BoundedOvershoot, Spent, TypeInv, TypeOK
  <2>6. billed <= answered + unseen * MaxCost
    BY DEF IInv, BillKnown
  <2>. QED BY <2>1, <2>3, <2>4, <2>5, <2>6
<1>. QED
  BY <1>1, Inductive, PTL

-----------------------------------------------------------------------------
(* The call path implements the ledger.                                    *)

\* How the ledger sees a caller: the stages and the debts of the refinement mapping.
Stage == [c \in Callers |-> CASE pc[c] = "idle" -> "none"
                             [] pc[c] = "sdk"  -> "asked"
                             [] OTHER          -> "owed"]
Owes  == [c \in Callers |-> IF pc[c] \in {"idle", "sdk"} THEN 0 ELSE cost[c]]

LEMMA InitBooked == Init => Books!Init
BY DEF Init, Books!Init

\* Asking, being answered and failing are steps of the ledger.  Looking the guard up,
\* building it and locking it are not visible in it; storing the total settles the call.
LEMMA StepBooked == IInv /\ IInv' /\ [Next]_vars => [Books!Next]_Books!vars
<1>. SUFFICES ASSUME IInv, IInv', [Next]_vars PROVE Books!Next \/ UNCHANGED Books!vars
  OBVIOUS
<1>0. /\ pc \in [Callers -> Steps] /\ cost \in [Callers -> 0..MaxCost] /\ NoGuard \notin Callers
      /\ outcome \in [Callers -> Outcomes]
  BY CallersAssumption DEF IInv, TypeInv, TypeOK, Costs
<1>1. ASSUME NEW c \in Callers, Start(c) PROVE Books!Next \/ UNCHANGED Books!vars
  <2>1. Stage' = [Stage EXCEPT ![c] = "asked"] /\ Stage[c] = "none" /\ Owes' = Owes /\ Spent' = Spent
    BY <1>0, <1>1 DEF Start, Goto, guardVars, Stage, Owes, Spent
  <2>2. Books!Ask(c)
    BY <1>1, <2>1 DEF Start, Books!Ask, Stage, Owes, Spent
  <2>. QED BY <2>2 DEF Books!Next
<1>2. ASSUME NEW c \in Callers, Answer(c) PROVE Books!Next \/ UNCHANGED Books!vars
  <2>1. PICK price \in Costs : cost' = [cost EXCEPT ![c] = price]
    BY <1>2 DEF Answer
  <2>2. /\ Stage' = [Stage EXCEPT ![c] = "owed"] /\ Stage[c] = "asked"
        /\ Owes' = [Owes EXCEPT ![c] = price] /\ Spent' = Spent
    BY <1>0, <1>2, <2>1 DEF Answer, Goto, guardVars, Stage, Owes, Spent
  <2>3. Books!Answer(c)
    BY <1>2, <2>1, <2>2 DEF Answer, Costs, Books!Answer, Stage, Owes, Spent
  <2>. QED BY <2>3 DEF Books!Next
<1>3. ASSUME NEW c \in Callers, NEW why \in {"timeout", "provider_error", "malformed"},
             pc[c] = "sdk", Return(c, why), UNCHANGED <<cost, budgeted, guardVars>>
      PROVE  Books!Next
  <2>1. Stage' = [Stage EXCEPT ![c] = "none"] /\ Stage[c] = "asked" /\ Owes' = Owes /\ Spent' = Spent
    BY <1>0, <1>3 DEF Return, Goto, guardVars, Stage, Owes, Spent
  <2>2. Books!GiveUp(c)
    BY <1>3, <2>1 DEF Return, Books!GiveUp, Stage, Owes, Spent
  <2>. QED BY <2>2 DEF Books!Next
<1>4. ASSUME NEW c \in Callers, Timeout(c) PROVE Books!Next \/ UNCHANGED Books!vars
  <2>1. CASE UNCHANGED <<pc, outcome>>
    BY <1>4, <2>1 DEF Timeout, guardVars, Books!vars
  <2>2. CASE Return(c, "timeout")
    BY <1>3, <1>4, <2>2 DEF Timeout
  <2>. QED BY <1>4, <2>1, <2>2 DEF Timeout
<1>5. ASSUME NEW c \in Callers, ProviderError(c) \/ Malformed(c) PROVE Books!Next
  BY <1>3, <1>5 DEF ProviderError, Malformed
<1>9. ASSUME NEW c \in Callers, BuildFails(c) PROVE Books!Next
  <2>1. /\ Stage' = [Stage EXCEPT ![c] = "none"] /\ Stage[c] = "owed"
        /\ Owes' = [Owes EXCEPT ![c] = 0] /\ Spent' = Spent
    BY <1>0, <1>9 DEF BuildFails, Return, Goto, guardVars, Stage, Owes, Spent
  <2>2. Books!Forgo(c)
    BY <1>9, <2>1 DEF BuildFails, Return, Books!Forgo, Stage, Owes, Spent
  <2>. QED BY <2>2 DEF Books!Next
<1>6. ASSUME NEW c \in Callers, LookUp(c) \/ Build(c) \/ Acquire(c) PROVE UNCHANGED Books!vars
  <2>1. /\ pc[c] \in {"answered", "build", "charge"} /\ UNCHANGED <<cost, outcome, budgeted, total>>
        /\ \E step \in {"build", "charge", "commit"} : Goto(c, step)
    BY <1>6 DEF LookUp, Build, Acquire
  <2>2. Stage' = Stage /\ Owes' = Owes
    BY <1>0, <2>1 DEF Goto, Stage, Owes
  <2>3. Spent' = Spent
    \* a guard that is new has spent nothing
    BY <1>0, <1>6, <2>1 DEF LookUp, Build, Acquire, Spent, IInv, OneGuard
  <2>. QED BY <2>1, <2>2, <2>3 DEF Books!vars, Stage, Owes, Spent
<1>7. ASSUME NEW c \in Callers, Commit(c) PROVE Books!Next
  <2>1. /\ mine[c] = singleton /\ singleton \in Callers /\ singleton' = singleton
        /\ newTotal[c] = total[singleton] + cost[c]
        /\ total \in [Callers -> Nat]
    BY <1>7 DEF Commit, IInv, OneGuard, ReadUnderLock, TypeInv, TypeOK
  <2>2. Owes[c] = cost[c] /\ Stage[c] = "owed"
    BY <1>0, <1>7 DEF Commit, Owes, Stage
  <2>3. Spent' = Spent + Owes[c] /\ Spent' = newTotal[c]
    BY <1>0, <1>7, <2>1, <2>2 DEF Commit, Store, Spent
  <2>4. Stage' = [Stage EXCEPT ![c] = "none"] /\ Owes' = [Owes EXCEPT ![c] = 0]
    BY <1>0, <1>7 DEF Commit, Return, Goto, Stage, Owes
  <2>5. outcome' = [outcome EXCEPT ![c] = IF Spent' > Limit THEN "cost_guard" ELSE "ok"]
    BY <1>7, <2>3 DEF Commit, Over, Return
  <2>7. budgeted /\ budgeted' = budgeted
    BY <1>7, <2>1, CallersAssumption DEF Commit, IInv, NoBudgetNoGuard
  <2>6. Books!Settle(c)
    BY <2>2, <2>3, <2>4, <2>5, <2>7 DEF Books!Settle, Stage, Owes, Spent
  <2>. QED BY <2>6 DEF Books!Next
<1>8. CASE UNCHANGED vars
  BY <1>8 DEF vars, guardVars, Books!vars
<1>. QED
  BY <1>1, <1>2, <1>4, <1>5, <1>6, <1>7, <1>8, <1>9 DEF Next, Progress

\* For any number of threads, whatever their interleaving, each answer is charged once
\* and atomically, and a call is refused exactly when its own answer takes, or finds,
\* the total above the limit.
THEOREM CallPathKeepsBooks == Spec => ImplementsLedger
<1>. QED
  BY InitBooked, Inductive, StepBooked, PTL DEF Spec, ImplementsLedger, Books!Spec
=============================================================================
