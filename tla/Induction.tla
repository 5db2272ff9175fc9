------------------------------ MODULE Induction ------------------------------
(***************************************************************************)
(* Induction over the natural numbers, and over sequences of them, in a    *)
(* form that takes a set where a proof rule would take a predicate: S is   *)
(* the set of the numbers the claim holds for.  It rests on the library's  *)
(* theorem that a set with a well-founded order has least elements.        *)
(***************************************************************************)
EXTENDS Integers, Sequences, Functions, WellFoundedInduction, TLAPS

\* Every set of natural numbers that is not empty has a least element.
LEMMA LeastNumber ==
  ASSUME NEW T \in SUBSET Nat, T # {}
  PROVE  \E x \in T : \A y \in T : x <= y
<1> DEFINE Less == {p \in Nat \X Nat : p[1] < p[2]}
<1>1. IsWellFoundedOn(Less, Nat)
  BY NatLessThanWellFounded DEF OpToRel
<1>2. \E x \in T : \A y \in T : ~(<<y, x>> \in Less)
  <2> HIDE DEF Less
  <2>. QED BY <1>1, WFMin
<1>3. PICK x \in T : \A y \in T : ~(<<y, x>> \in Less)
  BY <1>2
<1>4. ASSUME NEW y \in T PROVE x <= y
  <2>1. x \in Nat /\ y \in Nat /\ <<y, x>> \in Nat \X Nat /\ <<y, x>>[1] = y /\ <<y, x>>[2] = x
    OBVIOUS
  <2>2. ~(y < x)
    BY <1>3, <2>1
  <2>. QED BY <2>1, <2>2
<1>. QED BY <1>4

\* A set that has 0, and with every number its successor, has them all.
THEOREM SetInduction ==
  ASSUME NEW S \in SUBSET Nat, 0 \in S, \A n \in S : n + 1 \in S
  PROVE  S = Nat
<1> SUFFICES ASSUME Nat \ S # {} PROVE FALSE
  OBVIOUS
<1>1. PICK x \in Nat \ S : \A y \in Nat \ S : x <= y
  BY LeastNumber
<1>2. x - 1 \in Nat /\ x - 1 \in S
  BY <1>1
<1>. QED BY <1>1, <1>2

\* A sequence that is not empty has a position that no other one exceeds.
LEMMA Largest ==
  ASSUME NEW n \in Nat, NEW s \in [1..(n + 1) -> Nat]
  PROVE  \E m \in 1..(n + 1) : \A i \in 1..(n + 1) : s[i] <= s[m]
<1> DEFINE Has(k) == \E m \in 1..(n + 1) : \A i \in 1..(n + 1) : i <= k + 1 => s[i] <= s[m]
           S == {k \in Nat : Has(k)}
<1>1. Has(0)
  <2>1. 1 \in 1..(n + 1) /\ \A i \in 1..(n + 1) : i <= 0 + 1 => s[i] <= s[1]
    OBVIOUS
  <2>. QED BY <2>1
<1>2. ASSUME NEW k \in Nat, Has(k) PROVE Has(k + 1)
  <2>1. PICK m \in 1..(n + 1) : \A i \in 1..(n + 1) : i <= k + 1 => s[i] <= s[m]
    BY <1>2
  <2>2. CASE k + 2 \in 1..(n + 1) /\ s[m] < s[k + 2]
    <3>1. \A i \in 1..(n + 1) : i <= (k + 1) + 1 => s[i] <= s[k + 2]
      BY <2>1, <2>2
    <3>. QED BY <2>2, <3>1
  <2>3. CASE ~(k + 2 \in 1..(n + 1) /\ s[m] < s[k + 2])
    <3>1. \A i \in 1..(n + 1) : i <= (k + 1) + 1 => s[i] <= s[m]
      BY <2>1, <2>3
    <3>. QED BY <3>1
  <2>. QED BY <2>2, <2>3
<1> HIDE DEF Has
<1>3. S = Nat
  <2>1. S \in SUBSET Nat /\ 0 \in S /\ \A k \in S : k + 1 \in S
    BY <1>1, <1>2
  <2> HIDE DEF S
  <2>. QED BY <2>1, SetInduction
<1>4. PICK m \in 1..(n + 1) : \A i \in 1..(n + 1) : i <= n + 1 => s[i] <= s[m]
  BY <1>3 DEF Has
<1>. QED BY <1>4

\* Every sequence can be sorted.
THEOREM CanBeSorted ==
  ASSUME NEW n \in Nat, NEW s \in [1..n -> Nat]
  PROVE  \E p \in Bijection(1..n, 1..n) : \A i, j \in 1..n : i <= j => s[p[i]] <= s[p[j]]
<1> DEFINE Sorts(p, t, k) ==
             /\ p \in [1..k -> 1..k]
             /\ \A i, j \in 1..k : p[i] = p[j] => i = j
             /\ \A x \in 1..k : \E i \in 1..k : p[i] = x
             /\ \A i, j \in 1..k : i <= j => t[p[i]] <= t[p[j]]
           S == {k \in Nat : \A t \in [1..k -> Nat] : \E p : Sorts(p, t, k)}
<1>1. 0 \in S
  <2>1. ASSUME NEW t \in [1..0 -> Nat] PROVE Sorts([i \in 1..0 |-> i], t, 0)
    OBVIOUS
  <2>. QED BY <2>1
<1>2. ASSUME NEW k \in S, NEW t \in [1..(k + 1) -> Nat] PROVE \E p : Sorts(p, t, k + 1)
  <2>0. k \in Nat
    OBVIOUS
  <2>1. PICK m \in 1..(k + 1) : \A i \in 1..(k + 1) : t[i] <= t[m]
    BY <2>0, Largest
  <2> DEFINE u == [i \in 1..k |-> IF i = m THEN t[k + 1] ELSE t[i]]
  <2>2. u \in [1..k -> Nat]
    BY <2>0
  <2>3. PICK p : Sorts(p, u, k)
    BY <2>2
  <2> DEFINE q == [i \in 1..(k + 1) |-> IF i = k + 1 THEN m ELSE IF p[i] = m THEN k + 1 ELSE p[i]]
  <2> DEFINE Moved(i) == IF i = k + 1 THEN m ELSE IF p[i] = m THEN k + 1 ELSE p[i]
  <2>a. /\ \A i \in 1..k : p[i] \in 1..k
        /\ \A i, j \in 1..k : p[i] = p[j] => i = j
    BY <2>3
  <2>b. \A i \in 1..(k + 1) : i = k + 1 \/ i \in 1..k
    BY <2>0
  <2>c. \A i \in 1..(k + 1) : Moved(i) \in 1..(k + 1)
    BY <2>0, <2>a, <2>b
  <2>4. q \in [1..(k + 1) -> 1..(k + 1)] /\ \A i \in 1..(k + 1) : q[i] = Moved(i)
    BY <2>c
  <2>5. ASSUME NEW i \in 1..(k + 1), NEW j \in 1..(k + 1), q[i] = q[j] PROVE i = j
    <3>1. Moved(i) = Moved(j)
      BY <2>4, <2>5
    <3>. QED BY <2>0, <2>a, <2>b, <3>1
  <2>6. ASSUME NEW x \in 1..(k + 1) PROVE \E i \in 1..(k + 1) : q[i] = x
    <3>1. CASE x = m
      <4>1. q[k + 1] = x /\ k + 1 \in 1..(k + 1)
        BY <2>0, <3>1
      <4>. QED BY <4>1
    <3>2. CASE x # m /\ x = k + 1
      <4>1. m \in 1..k
        BY <2>0, <3>2
      <4>2. PICK i \in 1..k : p[i] = m
        BY <2>3, <4>1
      <4>3. i \in 1..(k + 1) /\ q[i] = x
        BY <2>0, <3>2, <4>2
      <4>. QED BY <4>3
    <3>3. CASE x # m /\ x # k + 1
      <4>1. x \in 1..k
        BY <2>0, <3>3
      <4>2. PICK i \in 1..k : p[i] = x
        BY <2>3, <4>1
      <4>3. i \in 1..(k + 1) /\ q[i] = x
        BY <2>0, <3>3, <4>2
      <4>. QED BY <4>3
    <3>. QED BY <3>1, <3>2, <3>3
  <2>7. ASSUME NEW i \in 1..k PROVE t[q[i]] = u[p[i]]
    <3>1. p[i] \in 1..k /\ i # k + 1 /\ i \in 1..(k + 1)
      BY <2>0, <2>a
    <3>2. q[i] = IF p[i] = m THEN k + 1 ELSE p[i]
      BY <3>1
    <3>3. u[p[i]] = IF p[i] = m THEN t[k + 1] ELSE t[p[i]]
      BY <3>1
    <3>. QED BY <3>2, <3>3
  <2>8. ASSUME NEW i \in 1..(k + 1), NEW j \in 1..(k + 1), i <= j PROVE t[q[i]] <= t[q[j]]
    <3>1. CASE j = k + 1
      <4>1. q[j] = m /\ q[i] \in 1..(k + 1)
        BY <2>0, <2>4, <3>1
      <4>. QED BY <2>1, <4>1
    <3>2. CASE j # k + 1
      <4>1. i \in 1..k /\ j \in 1..k
        BY <2>0, <2>8, <3>2
      <4>2. u[p[i]] <= u[p[j]]
        BY <2>3, <2>8, <4>1
      <4>. QED BY <2>7, <4>1, <4>2
    <3>. QED BY <3>1, <3>2
  <2> HIDE DEF q
  <2>9. Sorts(q, t, k + 1)
    BY <2>4, <2>5, <2>6, <2>8
  <2>. QED BY <2>9
<1>3. \A k \in S : k + 1 \in S
  <2> HIDE DEF Sorts
  <2>1. \A k \in S : k + 1 \in Nat
    OBVIOUS
  <2>. QED BY <1>2, <2>1
<1>4. S = Nat
  <2>1. S \in SUBSET Nat
    OBVIOUS
  <2> HIDE DEF S
  <2>. QED BY <1>1, <1>3, <2>1, SetInduction
<1>5. PICK p : Sorts(p, s, n)
  BY <1>4
<1>6. p \in Bijection(1..n, 1..n)
  BY <1>5 DEF Bijection, Injection, Surjection, IsInjective
<1>. QED BY <1>5, <1>6
=============================================================================
