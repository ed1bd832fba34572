------------------------------- MODULE Recursion -------------------------------
(***************************************************************************)
(* Induction and recursion along the naturals in a form that takes sets    *)
(* and functions for its arguments, never operators: the least element of  *)
(* a set, and a function whose value at i comes from its value at i - 1.   *)
(***************************************************************************)
EXTENDS Integers, WellFoundedInduction, TLAPS

(* A set of naturals has a least element.  With the set of those at which  *)
(* a formula fails, this is induction.                                     *)
LEMMA LeastNatural ==
  ASSUME NEW T \in SUBSET Nat, T # {}
  PROVE  \E n \in T : \A m \in T : n <= m
<1>1. PICK n \in T : \A m \in T : <<m, n>> \notin OpToRel(<, Nat)
  BY NatLessThanWellFounded, WFMin
<1>2. \A m \in T : ~(m < n)
  BY <1>1 DEF OpToRel
<1>3. QED
  BY <1>2

(* What holds at 0 and passes from each number to the next holds at n: the *)
(* form in which the prefixes of a sequence are gone through.              *)
LEMMA StepByStep ==
  ASSUME NEW n \in Nat, NEW T, 0 \in T,
         \A i \in 1..n : i - 1 \in T => i \in T
  PROVE  n \in T
<1> DEFINE Missing == {i \in 0..n : i \notin T}
<1>1. SUFFICES ASSUME Missing # {} PROVE FALSE
  OBVIOUS
<1>2. Missing \in SUBSET Nat
  OBVIOUS
<1>3. PICK i \in Missing : \A j \in Missing : i <= j
  <2> HIDE DEF Missing
  <2>1. QED
    BY <1>1, <1>2, LeastNatural
<1>4. i \in 1..n /\ i - 1 \notin Missing
  BY <1>3
<1>5. QED
  BY <1>4

(* f goes from base to f[n] in n steps.                                    *)
Stepping(f, n, S, base, step) ==
  /\ f \in [0..n -> S]
  /\ f = [i \in 0..n |-> IF i = 0 THEN base ELSE step[i][f[i - 1]]]

(* A function on 0..n is defined by its value at 0 and a step at each i.   *)
LEMMA StepFunction ==
  ASSUME NEW S, NEW n \in Nat, NEW base \in S, NEW step \in [1..n -> [S -> S]]
  PROVE  \E f : Stepping(f, n, S, base, step)
<1> DEFINE Steps(f, k) == f[0] = base /\ \A i \in 1..k : f[i] = step[i][f[i - 1]]
           T == {k \in 0..n : \E f \in [0..k -> S] : Steps(f, k)}
<1>1. 0 \in T
  <2> DEFINE f == [i \in 0..0 |-> base]
  <2>1. f \in [0..0 -> S] /\ Steps(f, 0)
    OBVIOUS
  <2> HIDE DEF f, Steps
  <2>2. QED
    BY <2>1
<1>2. ASSUME NEW k \in 1..n, k - 1 \in T PROVE k \in T
  <2>1. PICK f \in [0..(k - 1) -> S] : Steps(f, k - 1)
    <3> HIDE DEF Steps
    <3>1. QED
      BY <1>2
  <2> DEFINE g == [i \in 0..k |-> IF i = k THEN step[k][f[k - 1]] ELSE f[i]]
  <2>2. g \in [0..k -> S]
    OBVIOUS
  <2>3. Steps(g, k)
    BY <2>1
  <2> HIDE DEF g, Steps
  <2>4. QED
    BY <2>2, <2>3
<1>3. n \in T
  <2> HIDE DEF T
  <2>1. \A k \in 1..n : k - 1 \in T => k \in T
    BY <1>2
  <2>2. QED
    BY <1>1, <2>1, StepByStep
<1>4. PICK f \in [0..n -> S] : Steps(f, n)
  BY <1>3
<1>5. \A i \in 0..n : f[i] = IF i = 0 THEN base ELSE step[i][f[i - 1]]
  BY <1>4
<1>6. f = [i \in 0..n |-> IF i = 0 THEN base ELSE step[i][f[i - 1]]]
  BY <1>5
<1>7. QED
  BY <1>6 DEF Stepping

================================================================================
