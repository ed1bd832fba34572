---------------------------- MODULE SettlementProofs ----------------------------
(***************************************************************************)
(* The prizes of Settlement go where they should, for every number of      *)
(* bidders, places and boxes, every list that the pages build and every    *)
(* loss and retry on the way.                                              *)
(*                                                                         *)
(* The inductive invariant SettlementInv says of the chain (ChainInv) that *)
(* a token is in its store, at its place or with the seller, a redemption  *)
(* being marked on the winner's ticket in the layout that is read          *)
(* (TransferInv); that the copies printed for a place are the editions     *)
(* taken of it, and the master stays until they are as many as expected    *)
(* (PrintInv); that a participation is printed once for a loser            *)
(* (ParticipationInv); and of each tab (TabInv) that what it sends is an   *)
(* instruction that its page can build.  It is kept only when no winner is *)
(* given a participation (TicketsLast), since a ticket saved in the other  *)
(* layout forgets what was redeemed.                                       *)
(*                                                                         *)
(* The sums, the choices and the flattened lists are recursive functions;  *)
(* their lemmas come first.                                                *)
(***************************************************************************)
EXTENDS Settlement, Recursion, FiniteSetTheorems, SequenceTheorems

-----------------------------------------------------------------------------
(* Sums                                                                    *)

(* f[k] is the sum of the first k elements of s.                           *)
Sums(s, n, f) ==
  /\ f \in [0..n -> Nat]
  /\ f[0] = 0
  /\ \A i \in 1..n : f[i] = f[i - 1] + s[i]
  /\ Sum(s) = f[n]

(* A sum is reached step by step. *)
LEMMA PartialSums ==
  ASSUME NEW n \in Nat, NEW s \in [1..n -> Nat]
  PROVE  \E f : Sums(s, n, f)
<1> DEFINE go == [i \in 1..n |-> [k \in Nat |-> k + s[i]]]
           IsSum(f) == f = [i \in 0..n |-> IF i = 0 THEN 0 ELSE f[i - 1] + s[i]]
           upTo == CHOOSE f : IsSum(f)
<1>1. go \in [1..n -> [Nat -> Nat]]
  OBVIOUS
<1>2. PICK f : Stepping(f, n, Nat, 0, go)
  <2> HIDE DEF go
  <2>1. QED
    BY <1>1, StepFunction
<1>3. f \in [0..n -> Nat] /\ f = [i \in 0..n |-> IF i = 0 THEN 0 ELSE go[i][f[i - 1]]]
  <2> HIDE DEF go
  <2>1. QED
    BY <1>2, Zenon DEF Stepping
<1>4. IsSum(f)
  <2>1. \A i \in 1..n : i - 1 \in 0..n
    OBVIOUS
  <2>2. \A i \in 1..n : f[i - 1] \in Nat
    <3> HIDE DEF go
    <3>1. f \in [0..n -> Nat]
      BY <1>3
    <3>2. QED
      BY <2>1, <3>1
  <2>3. \A i \in 1..n : go[i][f[i - 1]] = f[i - 1] + s[i]
    BY <2>2
  <2> HIDE DEF go
  <2>4. \A i \in 0..n : (IF i = 0 THEN 0 ELSE go[i][f[i - 1]]) = IF i = 0 THEN 0 ELSE f[i - 1] + s[i]
    BY <2>3
  <2>5. QED
    BY <1>3, <2>4, Zenon
<1>5. IsSum(upTo)
  <2> HIDE DEF IsSum
  <2>1. QED
    BY <1>4, Zenon
<1>6. Len(s) = n
  OBVIOUS
<1>7. Sum(s) = upTo[n]
  BY <1>6, Zenon DEF Sum
<1> HIDE DEF upTo
<1>8. upTo[0] = 0 /\ \A i \in 1..n : upTo[i] = upTo[i - 1] + s[i]
  <2> DEFINE V(i) == IF i = 0 THEN 0 ELSE upTo[i - 1] + s[i]
  <2>1. upTo = [i \in 0..n |-> V(i)]
    BY <1>5, Zenon
  <2>2. \A i \in 0..n : upTo[i] = V(i)
    <3> HIDE DEF V
    <3>1. QED
      BY <2>1
  <2>3. 0 \in 0..n /\ \A i \in 1..n : i \in 0..n /\ i # 0
    OBVIOUS
  <2>4. QED
    BY <2>2, <2>3, Zenon
<1>9. DOMAIN upTo = 0..n
  BY <1>5, Zenon
<1>10. upTo \in [0..n -> Nat]
  <2>1. \A k \in 0..n : upTo[k] \in Nat
    <3> SUFFICES ASSUME NEW k \in 0..n PROVE upTo[k] \in Nat
      OBVIOUS
    <3> DEFINE G == {i \in 0..k : upTo[i] \in Nat}
    <3>1. 0 \in G
      BY <1>8
    <3>2. \A i \in 1..k : i - 1 \in G => i \in G
      <4> SUFFICES ASSUME NEW i \in 1..k, upTo[i - 1] \in Nat PROVE upTo[i] \in Nat
        OBVIOUS
      <4>1. i \in 1..n /\ s[i] \in Nat
        OBVIOUS
      <4>2. QED
        BY <4>1, <1>8
    <3> HIDE DEF G
    <3>3. k \in G
      BY <3>1, <3>2, StepByStep
    <3>4. QED
      BY <3>3 DEF G
  <2>2. upTo = [k \in 0..n |-> upTo[k]]
    BY <1>5, <1>9, Zenon
  <2>3. QED
    BY <2>1, <2>2
<1>11. QED
  BY <1>7, <1>8, <1>10 DEF Sums

(* A sum of naturals is one, and is nothing when they all are.             *)
LEMMA SumOfNaturals ==
  ASSUME NEW n \in Nat, NEW s \in [1..n -> Nat]
  PROVE  /\ Sum(s) \in Nat
         /\ (\A k \in 1..n : s[k] = 0) => Sum(s) = 0
<1>1. PICK f : Sums(s, n, f)
  BY PartialSums
<1>2. f \in [0..n -> Nat] /\ f[0] = 0 /\ Sum(s) = f[n] /\ \A i \in 1..n : f[i] = f[i - 1] + s[i]
  BY <1>1 DEF Sums
<1>3. ASSUME \A k \in 1..n : s[k] = 0 PROVE Sum(s) = 0
  <2> DEFINE G == {i \in 0..n : f[i] = 0}
  <2>1. 0 \in G
    BY <1>2
  <2>2. \A i \in 1..n : i - 1 \in G => i \in G
    BY <1>2, <1>3
  <2> HIDE DEF G
  <2>3. n \in G
    BY <2>1, <2>2, StepByStep
  <2>4. QED
    BY <2>3, <1>2 DEF G
<1>4. QED
  BY <1>2, <1>3

(* Two sums that differ in one element differ as it does.                  *)
LEMMA SumOneChanged ==
  ASSUME NEW n \in Nat, NEW s \in [1..n -> Nat], NEW t \in [1..n -> Nat], NEW k \in 1..n,
         \A j \in 1..n : j # k => t[j] = s[j]
  PROVE  Sum(t) + s[k] = Sum(s) + t[k]
<1>1. PICK f : Sums(s, n, f)
  BY PartialSums
<1>2. PICK g : Sums(t, n, g)
  BY PartialSums
<1>3. /\ f \in [0..n -> Nat] /\ f[0] = 0 /\ Sum(s) = f[n]
      /\ \A i \in 1..n : f[i] = f[i - 1] + s[i]
  BY <1>1 DEF Sums
<1>4. /\ g \in [0..n -> Nat] /\ g[0] = 0 /\ Sum(t) = g[n]
      /\ \A i \in 1..n : g[i] = g[i - 1] + t[i]
  BY <1>2 DEF Sums
<1> DEFINE G == {i \in 0..n : IF i < k THEN g[i] = f[i] ELSE g[i] + s[k] = f[i] + t[k]}
<1>5. 0 \in G
  BY <1>3, <1>4
<1>6. \A i \in 1..n : i - 1 \in G => i \in G
  <2> SUFFICES ASSUME NEW i \in 1..n, i - 1 \in G PROVE i \in G
    OBVIOUS
  <2>1. /\ f[i] = f[i - 1] + s[i] /\ g[i] = g[i - 1] + t[i]
        /\ f[i] \in Nat /\ g[i] \in Nat /\ f[i - 1] \in Nat /\ g[i - 1] \in Nat
        /\ s[i] \in Nat /\ t[i] \in Nat /\ s[k] \in Nat /\ t[k] \in Nat
    <3>1. i \in 0..n /\ i - 1 \in 0..n
      OBVIOUS
    <3>2. QED
      BY <3>1, <1>3, <1>4
  <2>2. IF i - 1 < k THEN g[i - 1] = f[i - 1] ELSE g[i - 1] + s[k] = f[i - 1] + t[k]
    OBVIOUS
  <2> HIDE DEF G
  <2>3. CASE i < k
    BY <2>1, <2>2, <2>3 DEF G
  <2>4. CASE i = k
    BY <2>1, <2>2, <2>4 DEF G
  <2>5. CASE k < i
    <3>1. t[i] = s[i] /\ ~(i - 1 < k)
      BY <2>5
    <3> DEFINE p == g[i - 1]
               q == f[i - 1]
               u == s[i]
               v == s[k]
               w == t[k]
    <3>2. /\ p + v = q + w /\ g[i] = p + u /\ f[i] = q + u
          /\ p \in Nat /\ q \in Nat /\ u \in Nat /\ v \in Nat /\ w \in Nat
      BY <3>1, <2>1, <2>2
    <3>3. ~(i < k)
      BY <2>5
    <3> HIDE DEF p, q, u, v, w
    <3>4. g[i] + v = f[i] + w
      BY <3>2
    <3>5. g[i] + s[k] = f[i] + t[k]
      BY <3>4, Zenon DEF v, w
    <3>6. IF i < k THEN g[i] = f[i] ELSE g[i] + s[k] = f[i] + t[k]
      BY <3>3, <3>5, Zenon
    <3>7. QED
      BY <3>6 DEF G
  <2>6. QED
    BY <2>3, <2>4, <2>5
<1> HIDE DEF G
<1>7. n \in G
  BY <1>5, <1>6, StepByStep
<1>8. QED
  BY <1>3, <1>4, <1>7 DEF G

(* Where no element is larger, the sum is not, and equal sums are those of *)
(* equal elements.                                                         *)
LEMMA SumNoLarger ==
  ASSUME NEW n \in Nat, NEW s \in [1..n -> Nat], NEW t \in [1..n -> Nat],
         \A j \in 1..n : s[j] <= t[j]
  PROVE  /\ Sum(s) <= Sum(t)
         /\ Sum(t) <= Sum(s) => \A j \in 1..n : s[j] = t[j]
<1>1. PICK f : Sums(s, n, f)
  BY PartialSums
<1>2. PICK g : Sums(t, n, g)
  BY PartialSums
<1>3. /\ f \in [0..n -> Nat] /\ f[0] = 0 /\ Sum(s) = f[n]
      /\ \A i \in 1..n : f[i] = f[i - 1] + s[i]
  BY <1>1 DEF Sums
<1>4. /\ g \in [0..n -> Nat] /\ g[0] = 0 /\ Sum(t) = g[n]
      /\ \A i \in 1..n : g[i] = g[i - 1] + t[i]
  BY <1>2 DEF Sums
<1> DEFINE G == {i \in 0..n : f[i] <= g[i]}
           H(k) == {i \in 0..n : k <= i => f[i] < g[i]}
<1>5. \A i \in 1..n : /\ f[i] = f[i - 1] + s[i] /\ g[i] = g[i - 1] + t[i]
                      /\ f[i] \in Nat /\ g[i] \in Nat /\ f[i - 1] \in Nat /\ g[i - 1] \in Nat
                      /\ s[i] \in Nat /\ t[i] \in Nat /\ s[i] <= t[i] /\ i \in 0..n
  <2> SUFFICES ASSUME NEW i \in 1..n
               PROVE  /\ f[i] = f[i - 1] + s[i] /\ g[i] = g[i - 1] + t[i]
                      /\ f[i] \in Nat /\ g[i] \in Nat /\ f[i - 1] \in Nat /\ g[i - 1] \in Nat
                      /\ s[i] \in Nat /\ t[i] \in Nat /\ s[i] <= t[i] /\ i \in 0..n
    OBVIOUS
  <2>1. i \in 0..n /\ i - 1 \in 0..n
    OBVIOUS
  <2>2. QED
    BY <2>1, <1>3, <1>4
<1>6. \A i \in 0..n : f[i] <= g[i]
  <2>1. 0 \in G
    BY <1>3, <1>4
  <2>2. ASSUME NEW i \in 1..n, i - 1 \in G PROVE i \in G
    <3>1. f[i - 1] <= g[i - 1]
      BY <2>2
    <3>2. f[i] <= g[i]
      BY <3>1, <1>5
    <3>3. QED
      BY <3>2
  <2> HIDE DEF G
  <2>3. SUFFICES ASSUME NEW k \in 0..n PROVE k \in G
    BY DEF G
  <2>4. \A i \in 1..k : i - 1 \in G => i \in G
    BY <2>2
  <2>5. QED
    BY <2>1, <2>4, StepByStep
<1>7. ASSUME Sum(t) <= Sum(s), NEW k \in 1..n PROVE s[k] = t[k]
  <2>1. SUFFICES ASSUME s[k] # t[k] PROVE FALSE
    OBVIOUS
  <2>2. 0 \in H(k)
    OBVIOUS
  <2>3. ASSUME NEW i \in 1..n, i - 1 \in H(k) PROVE i \in H(k)
    <3>1. k <= i - 1 => f[i - 1] < g[i - 1]
      BY <2>3
    <3>2. CASE i < k
      BY <3>2
    <3>3. CASE i = k
      <4>1. i - 1 \in 0..n /\ s[k] < t[k]
        BY <2>1, <1>5
      <4>2. f[i - 1] <= g[i - 1]
        BY <4>1, <1>6
      <4>3. f[i] < g[i]
        BY <4>1, <4>2, <3>3, <1>5
      <4>4. QED
        BY <4>3
    <3>4. CASE k < i
      <4>1. f[i - 1] < g[i - 1]
        BY <3>1, <3>4
      <4>2. f[i] < g[i]
        BY <4>1, <1>5
      <4>3. QED
        BY <4>2
    <3>5. QED
      BY <3>2, <3>3, <3>4
  <2> DEFINE K == H(k)
  <2>4. 0 \in K /\ \A i \in 1..n : i - 1 \in K => i \in K
    BY <2>2, <2>3
  <2>5. n \in K
    <3> HIDE DEF K
    <3>1. QED
      BY <2>4, StepByStep
  <2>6. f[n] < g[n] /\ f[n] \in Nat /\ g[n] \in Nat
    BY <2>5, <1>3, <1>4
  <2>7. QED
    BY <2>6, <1>3, <1>4, <1>7
<1>8. n \in 0..n
  OBVIOUS
<1>9. QED
  BY <1>3, <1>4, <1>6, <1>7, <1>8

-----------------------------------------------------------------------------
(* Lists                                                                   *)

(* What is chosen from a list is in it and in the set.                     *)
LEMMA ChosenList ==
  ASSUME NEW A, NEW s \in Seq(A), NEW S
  PROVE  Chosen(s, S) \in Seq(A \cap S)
<1> DEFINE n == Len(s)
           T == Seq(A \cap S)
           Step(i, r) == IF s[i] \in S THEN Append(r, s[i]) ELSE r
           go == [i \in 1..n |-> [r \in T |-> Step(i, r)]]
           IsChosen(f) == f = [i \in 0..n |-> IF i = 0 THEN <<>> ELSE Step(i, f[i - 1])]
           upTo == CHOOSE f : IsChosen(f)
<1>1. n \in Nat /\ \A i \in 1..n : s[i] \in A
  OBVIOUS
<1>2. <<>> \in T
  BY EmptySeq
<1>3. \A i \in 1..n, r \in T : Step(i, r) \in T
  BY <1>1, AppendProperties
<1> HIDE DEF T, n, Step
<1>4. go \in [1..n -> [T -> T]]
  BY <1>3
<1>5. PICK f : Stepping(f, n, T, <<>>, go)
  <2> HIDE DEF go
  <2>1. QED
    BY <1>1, <1>2, <1>4, StepFunction
<1>6. f \in [0..n -> T] /\ f = [i \in 0..n |-> IF i = 0 THEN <<>> ELSE go[i][f[i - 1]]]
  <2> HIDE DEF go
  <2>1. QED
    BY <1>5, Zenon DEF Stepping
<1>7. IsChosen(f)
  <2>1. \A i \in 1..n : i - 1 \in 0..n
    BY <1>1
  <2>2. \A i \in 1..n : f[i - 1] \in T
    <3> HIDE DEF go
    <3>1. f \in [0..n -> T]
      BY <1>6
    <3>2. QED
      BY <2>1, <3>1, Zenon
  <2>3. \A i \in 1..n : go[i][f[i - 1]] = Step(i, f[i - 1])
    BY <2>2, Zenon
  <2> HIDE DEF go
  <2>4. \A i \in 0..n : (IF i = 0 THEN <<>> ELSE go[i][f[i - 1]])
                         = IF i = 0 THEN <<>> ELSE Step(i, f[i - 1])
    BY <2>3, <1>1
  <2>5. QED
    BY <1>6, <2>4, Zenon
<1>8. IsChosen(upTo)
  <2> HIDE DEF IsChosen
  <2>1. QED
    BY <1>7, Zenon
<1>9. Chosen(s, S) = upTo[n]
  BY Zenon DEF Chosen, n, Step
<1> HIDE DEF upTo
<1>10. upTo[0] = <<>> /\ \A i \in 1..n : upTo[i] = Step(i, upTo[i - 1])
  <2> DEFINE V(i) == IF i = 0 THEN <<>> ELSE Step(i, upTo[i - 1])
  <2>1. upTo = [i \in 0..n |-> V(i)]
    BY <1>8, Zenon
  <2>2. \A i \in 0..n : upTo[i] = V(i)
    <3> HIDE DEF V
    <3>1. QED
      BY <2>1
  <2>3. 0 \in 0..n /\ \A i \in 1..n : i \in 0..n /\ i # 0
    BY <1>1
  <2>4. QED
    BY <2>2, <2>3, Zenon
<1> DEFINE G == {i \in 0..n : upTo[i] \in T}
<1>11. 0 \in G
  BY <1>1, <1>2, <1>10
<1>12. \A i \in 1..n : i - 1 \in G => i \in G
  <2> SUFFICES ASSUME NEW i \in 1..n, upTo[i - 1] \in T PROVE i \in G
    OBVIOUS
  <2>1. upTo[i] \in T
    BY <1>3, <1>10
  <2>2. QED
    BY <2>1, <1>1
<1> HIDE DEF G
<1>13. n \in G
  BY <1>1, <1>11, <1>12, StepByStep
<1>14. QED
  BY <1>9, <1>13 DEF G, T

(* Lists put together hold what they held.                                 *)
LEMMA FlatList ==
  ASSUME NEW A, NEW s \in Seq(Seq(A))
  PROVE  FlattenSeq(s) \in Seq(A)
<1> DEFINE n == Len(s)
           T == Seq(A)
           go == [i \in 1..n |-> [r \in T |-> r \o s[i]]]
           IsFlat(f) == f = [i \in 1..n |-> IF i = 1 THEN s[i] ELSE f[i - 1] \o s[i]]
           flatten == CHOOSE f : IsFlat(f)
<1>1. n \in Nat /\ \A i \in 1..n : s[i] \in T
  OBVIOUS
<1>2. <<>> \in T /\ \A r \in T : <<>> \o r = r
  BY EmptySeq, ConcatEmptySeq
<1>3. CASE n = 0
  <2>1. FlattenSeq(s) = s /\ s = <<>>
    BY <1>3, EmptySeq DEF FlattenSeq
  <2>2. QED
    BY <2>1, <1>2
<1>4. CASE n > 0
  <2>1. \A r, q \in T : r \o q \in T
    BY ConcatProperties
  <2> HIDE DEF T, n
  <2>2. go \in [1..n -> [T -> T]]
    BY <1>1, <2>1
  <2>3. PICK h : Stepping(h, n, T, <<>>, go)
    <3> HIDE DEF go
    <3>1. QED
      BY <1>1, <1>2, <2>2, StepFunction
  <2>4. h \in [0..n -> T] /\ h = [i \in 0..n |-> IF i = 0 THEN <<>> ELSE go[i][h[i - 1]]]
    <3> HIDE DEF go
    <3>1. QED
      BY <2>3, Zenon DEF Stepping
  <2> DEFINE f == [i \in 1..n |-> h[i]]
  <2>5. \A i \in 1..n : h[i - 1] \in T /\ h[i] = go[i][h[i - 1]]
    <3> HIDE DEF go
    <3>1. \A i \in 1..n : i - 1 \in 0..n /\ i \in 0..n /\ i # 0
      BY <1>1
    <3>2. \A i \in 1..n : h[i - 1] \in T
      <4>1. h \in [0..n -> T]
        BY <2>4
      <4>2. QED
        BY <3>1, <4>1, Zenon
    <3>3. \A i \in 0..n : h[i] = IF i = 0 THEN <<>> ELSE go[i][h[i - 1]]
      <4> DEFINE V(i) == IF i = 0 THEN <<>> ELSE go[i][h[i - 1]]
      <4>1. h = [i \in 0..n |-> V(i)]
        BY <2>4, Zenon
      <4>2. \A i \in 0..n : h[i] = V(i)
        <5> HIDE DEF V
        <5>1. QED
          BY <4>1
      <4>3. QED
        BY <4>2
    <3>4. QED
      BY <3>1, <3>2, <3>3, Zenon
  <2>6. \A i \in 1..n : h[i] = h[i - 1] \o s[i]
    BY <2>5, Zenon
  <2>7. h[0] = <<>>
    <3> HIDE DEF go
    <3>1. QED
      BY <2>4, <1>1
  <2>8. \A i \in 1..n : f[i] = IF i = 1 THEN s[i] ELSE f[i - 1] \o s[i]
    <3> SUFFICES ASSUME NEW i \in 1..n PROVE f[i] = IF i = 1 THEN s[i] ELSE f[i - 1] \o s[i]
      OBVIOUS
    <3>1. f[i] = h[i - 1] \o s[i]
      BY <2>6
    <3>2. CASE i = 1
      <4>1. h[i - 1] = <<>>
        BY <3>2, <2>7
      <4>2. QED
        BY <3>1, <3>2, <4>1, <1>1, <1>2
    <3>3. CASE i # 1
      <4>1. i - 1 \in 1..n
        BY <3>3, <1>1
      <4>2. f[i - 1] = h[i - 1]
        BY <4>1
      <4>3. QED
        BY <3>1, <3>3, <4>2
    <3>4. QED
      BY <3>2, <3>3
  <2>9. IsFlat(f)
    <3>1. DOMAIN f = 1..n
      OBVIOUS
    <3> DEFINE V(i) == IF i = 1 THEN s[i] ELSE f[i - 1] \o s[i]
    <3>2. f = [i \in 1..n |-> f[i]]
      OBVIOUS
    <3> HIDE DEF f
    <3>3. f = [i \in 1..n |-> V(i)]
      <4> HIDE DEF V
      <4>1. \A i \in 1..n : f[i] = V(i)
        BY <2>8 DEF V
      <4>2. QED
        BY <3>2, <4>1, Zenon
    <3>4. QED
      BY <3>3, Zenon
  <2>10. IsFlat(flatten)
    <3> HIDE DEF IsFlat, f
    <3>1. QED
      BY <2>9, Zenon
  <2>11. FlattenSeq(s) = flatten[n]
    <3>1. ~(Len(s) = 0)
      BY <1>4 DEF n
    <3>2. QED
      BY <3>1, Zenon DEF FlattenSeq, n
  <2> HIDE DEF flatten
  <2>12. \A i \in 1..n : flatten[i] = IF i = 1 THEN s[i] ELSE flatten[i - 1] \o s[i]
    <3> DEFINE V(i) == IF i = 1 THEN s[i] ELSE flatten[i - 1] \o s[i]
    <3>1. flatten = [i \in 1..n |-> V(i)]
      BY <2>10, Zenon
    <3>2. \A i \in 1..n : flatten[i] = V(i)
      <4> HIDE DEF V
      <4>1. QED
        BY <3>1
    <3>3. QED
      BY <3>2
  <2> DEFINE G == {i \in 0..n : i = 0 \/ flatten[i] \in T}
  <2>13. 0 \in G
    BY <1>1
  <2>14. \A i \in 1..n : i - 1 \in G => i \in G
    <3> SUFFICES ASSUME NEW i \in 1..n, i - 1 \in G PROVE flatten[i] \in T
      BY <1>1
    <3>1. CASE i = 1
      BY <3>1, <1>1, <2>12
    <3>2. CASE i # 1
      <4>1. flatten[i - 1] \in T /\ s[i] \in T
        BY <3>2, <1>1
      <4>2. flatten[i] = flatten[i - 1] \o s[i]
        BY <3>2, <2>12
      <4>3. QED
        BY <4>1, <4>2, <2>1
    <3>3. QED
      BY <3>1, <3>2
  <2> HIDE DEF G
  <2>15. n \in G
    BY <1>1, <2>13, <2>14, StepByStep
  <2>16. QED
    BY <1>4, <2>11, <2>15 DEF G, T
<1>5. QED
  BY <1>1, <1>3, <1>4

-----------------------------------------------------------------------------
(* What the pages send                                                     *)

Instructions ==
  {setupPlaceBid}
  \union {claimBid(b) : b \in Bidders}
  \union {cancelBid(b) : b \in Bidders}
  \union {redeemBid(b, i) : b \in Bidders, i \in Orders}
  \union {redeemUnused(k, i) : k \in 1..NumPlaces, i \in Orders}
  \union {redeemPrintingV2Bid(b, i, k, n) :
            b \in Bidders, i \in Orders, k \in 1..NumPlaces, n \in Nat}
  \union {createMintAndAccountWithOne(h, b) : h \in Holders, b \in Bidders}
  \union {redeemParticipationBidV3(h, b, i) : h \in Holders, b \in Bidders, i \in Orders}
  \union {updatePrimarySaleHappenedViaToken(h, b) : h \in Holders, b \in Bidders}
  \union {withdrawMasterEdition(i) : i \in Orders}

(* The prizes of a sale in numbers.                                        *)
LEMMA PrizeTypes ==
  /\ IsFiniteSet(Bidders) /\ Seller \notin Bidders
  /\ NumPlaces \in Nat
  /\ Len(Prizes) \in Nat /\ Orders = 1..Len(Prizes)
  /\ \A i \in Orders : /\ Prizes[i].amounts \in [1..NumPlaces -> Nat]
                       /\ \A k \in 1..NumPlaces : Amount(i, k) \in Nat
                       /\ Prizes[i].type \in Types
<1> DEFINE A == [type : Types, amounts : Seq(Nat)]
<1>1. Prizes \in Seq(A) /\ Len(Prizes) \in Nat /\ Orders = 1..Len(Prizes) /\ Len(Prizes) > 0
  BY PrizeAssumption, EmptySeq DEF Orders
<1>2. \A i \in Orders : Prizes[i] \in A
  <2> HIDE DEF A
  <2>1. QED
    BY <1>1
<1>3. \A i \in Orders : Prizes[i].amounts \in Seq(Nat) /\ Prizes[i].type \in Types
  BY <1>2
<1>4. 1 \in Orders
  BY <1>1
<1>5. NumPlaces \in Nat
  BY <1>3, <1>4 DEF NumPlaces
<1>6. \A i \in Orders : Len(Prizes[i].amounts) = NumPlaces
  BY PrizeAssumption
<1>7. ASSUME NEW i \in Orders
      PROVE  /\ Prizes[i].amounts \in [1..NumPlaces -> Nat]
             /\ \A k \in 1..NumPlaces : Amount(i, k) \in Nat
  BY <1>3, <1>6 DEF Amount
<1>8. QED
  BY <1>1, <1>3, <1>5, <1>7, PrizeAssumption

(* The first m elements of s, and nothing after them.                      *)
UpTo(s, n, m) == [k \in 1..n |-> IF k <= m THEN s[k] ELSE 0]

(* The prefixes of a sequence add up to the sequence cut short.            *)
LEMMA SumOfPrefix ==
  ASSUME NEW n \in Nat, NEW s \in [1..n -> Nat], NEW m \in 0..n
  PROVE  /\ Sum(SubSeq(s, 1, m)) \in Nat
         /\ Sum(SubSeq(s, 1, m)) = Sum(UpTo(s, n, m))
         /\ m < n => Sum(SubSeq(s, 1, m + 1)) = Sum(SubSeq(s, 1, m)) + s[m + 1]
<1>1. PICK f : Sums(s, n, f)
  BY PartialSums
<1>2. f \in [0..n -> Nat] /\ f[0] = 0 /\ \A i \in 1..n : f[i] = f[i - 1] + s[i]
  BY <1>1 DEF Sums
<1>3. ASSUME NEW l \in 0..n PROVE Sum(SubSeq(s, 1, l)) = f[l]
  <2> DEFINE t == SubSeq(s, 1, l)
  <2>1. t \in [1..l -> Nat] /\ \A i \in 1..l : t[i] = s[i]
    <3>1. \A i \in 1..l : s[i] \in Nat
      OBVIOUS
    <3>2. l - 1 + 1 = l /\ 1 \in Int /\ l \in Int
      OBVIOUS
    <3>3. /\ t \in Seq(Nat) /\ Len(t) = IF 1 <= l THEN l - 1 + 1 ELSE 0
          /\ \A i \in 1..(l - 1 + 1) : t[i] = s[1 + i - 1]
      BY <3>1, <3>2, SubSeqProperties
    <3> HIDE DEF t
    <3>4. Len(t) = l /\ \A i \in 1..l : t[i] = s[1 + i - 1] /\ 1 + i - 1 = i
      BY <3>2, <3>3
    <3>5. t \in [1..l -> Nat]
      BY <3>3, <3>4
    <3>6. QED
      BY <3>4, <3>5
  <2> HIDE DEF t
  <2>2. PICK g : Sums(t, l, g)
    BY <2>1, PartialSums
  <2>3. g \in [0..l -> Nat] /\ g[0] = 0 /\ Sum(t) = g[l] /\ \A i \in 1..l : g[i] = g[i - 1] + t[i]
    BY <2>2 DEF Sums
  <2> DEFINE G == {i \in 0..l : g[i] = f[i]}
  <2>4. 0 \in G
    BY <2>3, <1>2
  <2>5. \A i \in 1..l : i - 1 \in G => i \in G
    BY <2>1, <2>3, <1>2
  <2> HIDE DEF G
  <2>6. l \in G
    BY <2>4, <2>5, StepByStep
  <2>7. QED
    BY <2>3, <2>6 DEF G, t
<1>4. Sum(UpTo(s, n, m)) = f[m]
  <2> DEFINE t == UpTo(s, n, m)
  <2>1. t \in [1..n -> Nat] /\ \A i \in 1..n : t[i] = IF i <= m THEN s[i] ELSE 0
    BY DEF UpTo
  <2> HIDE DEF t
  <2>2. PICK g : Sums(t, n, g)
    BY <2>1, PartialSums
  <2>3. g \in [0..n -> Nat] /\ g[0] = 0 /\ Sum(t) = g[n] /\ \A i \in 1..n : g[i] = g[i - 1] + t[i]
    BY <2>2 DEF Sums
  <2> DEFINE G == {i \in 0..n : g[i] = IF i <= m THEN f[i] ELSE f[m]}
  <2>4. 0 \in G
    BY <2>3, <1>2
  <2>5. \A i \in 1..n : i - 1 \in G => i \in G
    <3> SUFFICES ASSUME NEW i \in 1..n, i - 1 \in G PROVE i \in G
      OBVIOUS
    <3>1. /\ g[i] = g[i - 1] + t[i] /\ f[i] = f[i - 1] + s[i]
          /\ g[i - 1] = IF i - 1 <= m THEN f[i - 1] ELSE f[m]
      BY <2>3, <1>2
    <3>2. i \in 0..n /\ i - 1 \in 0..n /\ f[i] \in Nat /\ f[m] \in Nat /\ f[i - 1] \in Nat
      <4>1. i \in 0..n /\ i - 1 \in 0..n
        OBVIOUS
      <4>2. QED
        BY <4>1, <1>2
    <3>3. CASE i <= m
      BY <3>1, <3>2, <3>3, <2>1
    <3>4. CASE i = m + 1
      <4>1. i - 1 = m
        BY <3>4
      <4>2. g[i] = f[m] + 0
        BY <4>1, <3>1, <3>2, <3>4, <2>1
      <4>3. QED
        BY <4>2, <3>2, <3>4
    <3>5. CASE i > m + 1
      BY <3>1, <3>2, <3>5, <2>1
    <3>6. QED
      BY <3>3, <3>4, <3>5
  <2> HIDE DEF G
  <2>6. n \in G
    BY <2>4, <2>5, StepByStep
  <2>7. n <= m => n = m
    OBVIOUS
  <2>8. QED
    BY <2>3, <2>6, <2>7 DEF G, t
<1>5. m < n => m + 1 \in 0..n
  OBVIOUS
<1>6. m < n => Sum(SubSeq(s, 1, m + 1)) = f[m + 1] /\ f[m + 1] = f[m] + s[m + 1]
  BY <1>2, <1>3, <1>5
<1>7. QED
  BY <1>2, <1>3, <1>4, <1>6

(* What the places before one are given, and the copies of each.           *)
LEMMA BeforeEach ==
  ASSUME NEW i \in Orders
  PROVE  /\ \A k \in 1..(NumPlaces + 1) :
              /\ Before[i][k] \in Nat
              /\ Before[i][k] = Sum(UpTo(Prizes[i].amounts, NumPlaces, k - 1))
         /\ \A k \in 1..NumPlaces : /\ Before[i][k + 1] = Before[i][k] + Amount(i, k)
                                    /\ Offsets[i][k] \in Seq(Nat)
                                    /\ ToSet(Offsets[i][k])
                                         = (Before[i][k] + 1)..(Before[i][k] + Amount(i, k))
<1> DEFINE s == Prizes[i].amounts
<1>1. NumPlaces \in Nat /\ s \in [1..NumPlaces -> Nat] /\ \A k \in 1..NumPlaces : Amount(i, k) = s[k]
  BY PrizeTypes DEF Amount
<1>2. \A k \in 1..(NumPlaces + 1) : Before[i][k] = Sum(SubSeq(s, 1, k - 1))
  BY DEF Before
<1> HIDE DEF s
<1>3. ASSUME NEW k \in 1..(NumPlaces + 1)
      PROVE  Before[i][k] \in Nat /\ Before[i][k] = Sum(UpTo(s, NumPlaces, k - 1))
  <2>1. k - 1 \in 0..NumPlaces
    BY <1>1
  <2>2. QED
    BY <1>1, <1>2, <2>1, SumOfPrefix
<1>4. ASSUME NEW k \in 1..NumPlaces
      PROVE  Before[i][k + 1] = Before[i][k] + Amount(i, k)
  <2> DEFINE m == k - 1
  <2>1. m \in 0..NumPlaces /\ m < NumPlaces /\ m + 1 = k
    BY <1>1
  <2>2. k + 1 \in 1..(NumPlaces + 1) /\ k \in 1..(NumPlaces + 1) /\ k + 1 - 1 = m + 1
    BY <1>1
  <2>3. Before[i][k + 1] = Sum(SubSeq(s, 1, m + 1)) /\ Before[i][k] = Sum(SubSeq(s, 1, m))
    BY <1>2, <2>2
  <2> HIDE DEF m
  <2>4. Sum(SubSeq(s, 1, m + 1)) = Sum(SubSeq(s, 1, m)) + s[m + 1]
    BY <1>1, <2>1, SumOfPrefix
  <2>5. QED
    BY <1>1, <2>1, <2>3, <2>4
<1>5. ASSUME NEW k \in 1..NumPlaces
      PROVE  /\ Offsets[i][k] \in Seq(Nat)
             /\ ToSet(Offsets[i][k]) = (Before[i][k] + 1)..(Before[i][k] + Amount(i, k))
  <2> DEFINE m == Amount(i, k)
             p == Before[i][k]
             o == [n \in 1..m |-> p + n]
  <2>1. m \in Nat /\ p \in Nat
    <3>1. k \in 1..(NumPlaces + 1)
      BY <1>1
    <3>2. QED
      BY <3>1, <1>3, PrizeTypes
  <2>2. Offsets[i][k] = o
    BY DEF Offsets
  <2> HIDE DEF m, p
  <2>3. o \in Seq(Nat) /\ DOMAIN o = 1..m
    BY <2>1
  <2>4. ToSet(o) = (p + 1)..(p + m)
    <3>1. ToSet(o) = {o[n] : n \in 1..m}
      BY <2>3 DEF ToSet
    <3>2. \A n \in 1..m : o[n] = p + n
      OBVIOUS
    <3>3. \A e \in (p + 1)..(p + m) : e - p \in 1..m /\ o[e - p] = e
      BY <2>1
    <3> HIDE DEF o
    <3>4. \A n \in 1..m : o[n] \in (p + 1)..(p + m)
      BY <2>1, <3>2
    <3>5. QED
      BY <3>1, <3>3, <3>4
  <2>5. QED
    BY <2>2, <2>3, <2>4 DEF m, p
<1>6. QED
  BY <1>3, <1>4, <1>5 DEF s

(* Boxes in order, and the bids, are lists of what they are made of.       *)
LEMMA ListsOfBoxes ==
  /\ \A S : BoxesInOrder(S) \in Seq(Orders \cap S)
  /\ Prints \in Seq(Orders) /\ participationItem \in Seq(Orders)
  /\ items \in [1..NumPlaces -> Seq(Orders)]
  /\ Bids \in Seq(Bidders)
<1>1. [i \in Orders |-> i] \in Seq(Orders)
  BY PrizeTypes
<1>2. \A S : BoxesInOrder(S) \in Seq(Orders \cap S)
  BY <1>1, ChosenList DEF BoxesInOrder
<1>3. \A S : Seq(Orders \cap S) \subseteq Seq(Orders)
  OBVIOUS
<1>4. Prints \in Seq(Orders) /\ participationItem \in Seq(Orders)
  BY <1>2, <1>3 DEF Prints, participationItem
<1>5. items \in [1..NumPlaces -> Seq(Orders)]
  <2>1. \A k \in 1..NumPlaces : BoxesInOrder({i \in Orders : Amount(i, k) > 0}) \in Seq(Orders)
    BY <1>2, <1>3
  <2>2. QED
    BY <2>1 DEF items
<1>6. Bids \in Seq(Bidders)
  <2> DEFINE n == Cardinality(Bidders)
             Listing == {f \in [1..n -> Bidders] : IsInjective(f)}
  <2>1. n \in Nat /\ ExistsBijection(1..n, Bidders)
    BY PrizeTypes, FS_CardinalityType
  <2> HIDE DEF n
  <2>2. PICK f \in [1..n -> Bidders] : IsInjective(f)
    BY <2>1 DEF ExistsBijection, Bijection, Injection
  <2>3. (CHOOSE g \in [1..n -> Bidders] : IsInjective(g)) \in [1..n -> Bidders]
    BY <2>2, Zenon
  <2>4. SetToSeq(Bidders) \in [1..n -> Bidders]
    BY <2>3, Zenon DEF SetToSeq, n
  <2>5. QED
    BY <2>1, <2>4 DEF Bids
<1>7. QED
  BY <1>2, <1>4, <1>5, <1>6

(* What ends an auction: nobody is at two places, nobody at one that is    *)
(* not there.                                                              *)
Placed(c) ==
  /\ c.places \in Seq(Bidders) /\ Len(c.places) <= NumPlaces
  /\ \A k, l \in DOMAIN c.places : c.places[k] = c.places[l] => k = l

(* The places are those of a prefix of the prizes' places, and a winner is *)
(* found at its own.                                                       *)
LEMMA Places ==
  ASSUME NEW c, Placed(c)
  PROVE  /\ Len(c.places) \in 0..NumPlaces /\ DOMAIN c.places = 1..Len(c.places)
         /\ DOMAIN c.places \subseteq 1..NumPlaces
         /\ Winners(c) = {c.places[k] : k \in DOMAIN c.places} /\ Winners(c) \subseteq Bidders
         /\ \A b \in Winners(c) : /\ PlaceOf(c, b) \in DOMAIN c.places
                                  /\ c.places[PlaceOf(c, b)] = b
         /\ \A k \in DOMAIN c.places : PlaceOf(c, c.places[k]) = k
<1>1. /\ Len(c.places) \in Nat /\ DOMAIN c.places = 1..Len(c.places)
      /\ \A k \in DOMAIN c.places : c.places[k] \in Bidders
  BY DEF Placed
<1>2. NumPlaces \in Nat
  BY PrizeTypes
<1>3. Winners(c) = {c.places[k] : k \in DOMAIN c.places}
  BY DEF Winners, ToSet
<1>4. ASSUME NEW b \in Winners(c)
      PROVE  PlaceOf(c, b) \in DOMAIN c.places /\ c.places[PlaceOf(c, b)] = b
  <2>1. \E k \in DOMAIN c.places : c.places[k] = b
    BY <1>3
  <2>2. QED
    BY <2>1, Zenon DEF PlaceOf
<1>5. ASSUME NEW k \in DOMAIN c.places PROVE PlaceOf(c, c.places[k]) = k
  BY <1>3, <1>4 DEF Placed
<1>6. QED
  BY <1>1, <1>2, <1>3, <1>4, <1>5 DEF Placed

(* Every function that builds an instruction builds one of the set.        *)
LEMMA Builders ==
  /\ setupPlaceBid \in Instructions
  /\ \A b \in Bidders : claimBid(b) \in Instructions /\ cancelBid(b) \in Instructions
  /\ \A b \in Bidders, i \in Orders : redeemBid(b, i) \in Instructions
  /\ \A b \in Bidders, i \in Orders : redeemFullRightsTransferBid(b, i) \in Instructions
  /\ \A k \in 1..NumPlaces, i \in Orders : redeemUnused(k, i) \in Instructions
  /\ \A b \in Bidders, i \in Orders, k \in 1..NumPlaces, n \in Nat :
       redeemPrintingV2Bid(b, i, k, n) \in Instructions
  /\ \A h \in Holders, b \in Bidders :
       /\ createMintAndAccountWithOne(h, b) \in Instructions
       /\ updatePrimarySaleHappenedViaToken(h, b) \in Instructions
  /\ \A h \in Holders, b \in Bidders, i \in Orders :
       redeemParticipationBidV3(h, b, i) \in Instructions
  /\ \A i \in Orders : withdrawMasterEdition(i) \in Instructions
<1>1. \A b \in Bidders, i \in Orders : redeemFullRightsTransferBid(b, i) = redeemBid(b, i)
  BY DEF redeemFullRightsTransferBid, redeemBid
<1>2. /\ setupPlaceBid \in Instructions
      /\ \A b \in Bidders : claimBid(b) \in Instructions /\ cancelBid(b) \in Instructions
  BY DEF Instructions
<1>3. /\ \A b \in Bidders, i \in Orders : redeemBid(b, i) \in Instructions
      /\ \A k \in 1..NumPlaces, i \in Orders : redeemUnused(k, i) \in Instructions
  BY DEF Instructions
<1>4. \A b \in Bidders, i \in Orders, k \in 1..NumPlaces, n \in Nat :
        redeemPrintingV2Bid(b, i, k, n) \in Instructions
  BY DEF Instructions
<1>5. \A h \in Holders, b \in Bidders :
        /\ createMintAndAccountWithOne(h, b) \in Instructions
        /\ updatePrimarySaleHappenedViaToken(h, b) \in Instructions
  BY DEF Instructions
<1>6. /\ \A h \in Holders, b \in Bidders, i \in Orders :
           redeemParticipationBidV3(h, b, i) \in Instructions
      /\ \A i \in Orders : withdrawMasterEdition(i) \in Instructions
  BY DEF Instructions
<1>7. QED
  BY <1>1, <1>2, <1>3, <1>4, <1>5, <1>6

(* Lists of instructions, put together.                                    *)
LEMMA Putting ==
  /\ <<>> \in Seq(Instructions)
  /\ \A x \in Instructions : <<x>> \in Seq(Instructions)
  /\ \A x, y, z \in Instructions : <<x, y, z>> \in Seq(Instructions)
  /\ \A s, t \in Seq(Instructions) : s \o t \in Seq(Instructions)
BY EmptySeq, ConcatProperties

(* What f makes of each element of s.                                      *)
Each(f, s) == [j \in DOMAIN s |-> f[s[j]]]

(* A list made from the elements of another.                               *)
LEMMA Mapped ==
  ASSUME NEW A, NEW B, NEW f \in [A -> B], NEW s \in Seq(A)
  PROVE  Each(f, s) \in Seq(B)
BY DEF Each

(* A list put together from what each element of another makes.            *)
LEMMA FlatMapped ==
  ASSUME NEW A, NEW B, NEW f \in [A -> Seq(B)], NEW s \in Seq(A)
  PROVE  FlattenSeq(Each(f, s)) \in Seq(B)
<1> DEFINE T == Seq(B)
<1>1. Each(f, s) \in Seq(T)
  <2> HIDE DEF T
  <2>1. f \in [A -> T]
    BY DEF T
  <2>2. QED
    BY <2>1, Mapped
<1>2. QED
  BY <1>1, FlatList, Zenon

(* The prints a place is still to have.                                    *)
LEMMA PrintsAreTyped ==
  ASSUME NEW c, NEW b \in Bidders, NEW i \in Orders, NEW k \in 1..NumPlaces
  PROVE  setupRedeemPrintingV2Instructions(c, b, i, k) \in Seq(Instructions)
<1> DEFINE free == {n \in ToSet(Offsets[i][k]) : Snapshot(c, i) + n \notin c.taken[i]}
           offsets == Chosen(Offsets[i][k], free)
           made == [n \in Nat |-> redeemPrintingV2Bid(b, i, k, n)]
<1>1. offsets \in Seq(Nat)
  <2>1. Offsets[i][k] \in Seq(Nat)
    BY BeforeEach
  <2> HIDE DEF free
  <2>2. offsets \in Seq(Nat \cap free)
    BY <2>1, ChosenList
  <2>3. Seq(Nat \cap free) \subseteq Seq(Nat)
    OBVIOUS
  <2>4. QED
    BY <2>2, <2>3, Zenon
<1>2. made \in [Nat -> Instructions]
  BY Builders
<1>3. Each(made, offsets) \in Seq(Instructions)
  <2> HIDE DEF offsets, made
  <2>1. QED
    BY <1>1, <1>2, Mapped
<1>4. \A j \in DOMAIN offsets : made[offsets[j]] = redeemPrintingV2Bid(b, i, k, offsets[j])
  <2> HIDE DEF offsets
  <2>1. \A j \in DOMAIN offsets : offsets[j] \in Nat
    BY <1>1
  <2>2. QED
    BY <2>1
<1>5. setupRedeemPrintingV2Instructions(c, b, i, k) = Each(made, offsets)
  <2> HIDE DEF offsets, made
  <2>1. QED
    BY <1>4 DEF setupRedeemPrintingV2Instructions, offsets, free, Each
<1>6. QED
  BY <1>3, <1>5, Zenon

(* What a winner sends for the items of its place.                         *)
LEMMA WinningSetIsTyped ==
  ASSUME NEW c, Placed(c), NEW b \in Winners(c)
  PROVE  winningSet(c, b) \in Seq(Instructions)
<1> DEFINE k == PlaceOf(c, b)
           s == items[k]
           made == [i \in Orders |-> redeemItem(c, b, i, k)]
<1>1. k \in 1..NumPlaces /\ b \in Bidders /\ s \in Seq(Orders)
  BY Places, ListsOfBoxes
<1> HIDE DEF k
<1>2. ASSUME NEW i \in Orders PROVE redeemItem(c, b, i, k) \in Seq(Instructions)
  <2>1. CASE IsPrint(i)
    <3>1. redeemItem(c, b, i, k) = setupRedeemPrintingV2Instructions(c, b, i, k)
      BY <2>1 DEF redeemItem, IsPrint
    <3>2. QED
      BY <1>1, <3>1, PrintsAreTyped
  <2>2. CASE ~IsPrint(i) /\ Prizes[i].type = "FullRightsTransfer"
    <3>1. redeemItem(c, b, i, k) = <<redeemFullRightsTransferBid(b, i)>>
      BY <2>2 DEF redeemItem
    <3>2. QED
      BY <1>1, <3>1, Builders, Putting
  <2>3. CASE ~IsPrint(i) /\ Prizes[i].type # "FullRightsTransfer"
    <3>1. redeemItem(c, b, i, k) = <<redeemBid(b, i)>>
      BY <2>3 DEF redeemItem
    <3>2. QED
      BY <1>1, <3>1, Builders, Putting
  <2>4. QED
    BY <2>1, <2>2, <2>3
<1>3. made \in [Orders -> Seq(Instructions)]
  BY <1>2
<1>4. \A j \in DOMAIN s : made[s[j]] = redeemItem(c, b, s[j], k)
  <2> HIDE DEF s
  <2>1. \A j \in DOMAIN s : s[j] \in Orders
    BY <1>1
  <2>2. QED
    BY <2>1
<1>5. winningSet(c, b) = FlattenSeq(Each(made, s))
  <2> HIDE DEF made
  <2>1. winningSet(c, b) = FlattenSeq([j \in DOMAIN s |-> redeemItem(c, b, s[j], k)])
    BY Zenon DEF winningSet, k
  <2>2. [j \in DOMAIN s |-> redeemItem(c, b, s[j], k)] = Each(made, s)
    BY <1>4 DEF Each
  <2>3. QED
    BY <2>1, <2>2, Zenon
<1> HIDE DEF s, made
<1>6. QED
  BY <1>1, <1>3, <1>5, FlatMapped

(* What the seller sends for the participations nobody asked for.          *)
LEMMA ParticipationIsTyped ==
  ASSUME NEW c, NEW i \in Orders
  PROVE  claimParticipation(c, i) \in Seq(Instructions)
<1> DEFINE bids == findEligibleParticipationBidsForRedemption(c)
           mint == [b \in Bidders |-> createMintAndAccountWithOne(Seller, b)]
           claim == [b \in Bidders |-> redeemParticipationBidV3(Seller, b, i)]
           mints == Each(mint, bids)
           claims == Each(claim, bids)
<1>1. bids \in Seq(Bidders)
  <2> DEFINE S == {b \in Bidders \ c.cancelled : eligibleForParticipationPrize(c, b)}
  <2>1. bids = Chosen(Bids, S)
    BY DEF findEligibleParticipationBidsForRedemption
  <2> HIDE DEF S
  <2>2. Chosen(Bids, S) \in Seq(Bidders \cap S) /\ Seq(Bidders \cap S) \subseteq Seq(Bidders)
    BY ListsOfBoxes, ChosenList
  <2>3. QED
    BY <2>1, <2>2
<1>2. mint \in [Bidders -> Instructions] /\ claim \in [Bidders -> Instructions]
  BY Builders DEF Holders
<1>3. mints \in Seq(Instructions) /\ claims \in Seq(Instructions)
  <2> HIDE DEF bids, mint, claim
  <2>1. QED
    BY <1>1, <1>2, Mapped
<1>4. /\ mints = [j \in DOMAIN bids |-> createMintAndAccountWithOne(Seller, bids[j])]
      /\ claims = [j \in DOMAIN bids |-> redeemParticipationBidV3(Seller, bids[j], i)]
  <2> HIDE DEF bids
  <2>1. \A j \in DOMAIN bids : bids[j] \in Bidders
    BY <1>1
  <2>2. QED
    BY <2>1 DEF Each
<1> DEFINE last == <<withdrawMasterEdition(i)>>
<1>5. last \in Seq(Instructions)
  BY Builders, Putting
<1>6. claimParticipation(c, i) = IF c.store[i] = 0 THEN <<>> ELSE (mints \o claims) \o last
  <2> HIDE DEF mints, claims
  <2>1. QED
    BY <1>4, Zenon DEF claimParticipation, last, bids
<1> HIDE DEF mints, claims, last
<1>7. QED
  BY <1>3, <1>5, <1>6, Putting

(* What the seller sends for a box of a place.                             *)
LEMMA ItemIsTyped ==
  ASSUME NEW c, Placed(c), NEW k \in 1..NumPlaces, NEW i \in Orders
  PROVE  claimItem(c, k, i) \in Seq(Instructions)
<1>1. CASE k \in DOMAIN c.places /\ IsPrint(i)
  <2>1. c.places[k] \in Bidders
    BY <1>1 DEF Placed
  <2>2. setupRedeemPrintingV2Instructions(c, c.places[k], i, k) \in Seq(Instructions)
    BY <2>1, PrintsAreTyped
  <2>3. QED
    BY <2>2, <1>1, Putting DEF claimItem
<1>2. CASE ~(k \in DOMAIN c.places /\ IsPrint(i))
  <2>1. claimItem(c, k, i) \in {<<>>, <<redeemUnused(k, i)>>}
    BY <1>2 DEF claimItem
  <2>2. QED
    BY <2>1, Builders, Putting
<1>3. QED
  BY <1>1, <1>2

(* What the seller sends for all that nobody won.                          *)
LEMMA UnusedIsTyped ==
  ASSUME NEW c, Placed(c)
  PROVE  claimUnusedPrizes(c) \in Seq(Instructions)
<1> DEFINE place(k) == FlattenSeq([j \in DOMAIN items[k] |-> claimItem(c, k, items[k][j])])
           prints == Chosen(Prints, {i \in Orders : c.store[i] > 0})
           given == [i \in Orders |-> claimParticipation(c, i)]
           taken == [i \in Orders |-> withdrawMasterEdition(i)]
           one == FlattenSeq(Each(given, participationItem))
           two == FlattenSeq([k \in 1..NumPlaces |-> place(k)])
           three == Each(taken, prints)
<1>1. one \in Seq(Instructions)
  <2>1. given \in [Orders -> Seq(Instructions)]
    BY ParticipationIsTyped
  <2> HIDE DEF given
  <2>2. QED
    <3>1. participationItem \in Seq(Orders)
      BY ListsOfBoxes
    <3>2. QED
      BY <2>1, <3>1, FlatMapped
<1>2. two \in Seq(Instructions)
  <2>1. ASSUME NEW k \in 1..NumPlaces PROVE place(k) \in Seq(Instructions)
    <3> DEFINE s == items[k]
               made == [i \in Orders |-> claimItem(c, k, i)]
    <3>1. s \in Seq(Orders) /\ made \in [Orders -> Seq(Instructions)]
      BY ListsOfBoxes, ItemIsTyped
    <3>2. \A j \in DOMAIN s : made[s[j]] = claimItem(c, k, s[j])
      <4> HIDE DEF s
      <4>1. \A j \in DOMAIN s : s[j] \in Orders
        BY <3>1
      <4>2. QED
        BY <4>1
    <3>3. place(k) = FlattenSeq(Each(made, s))
      <4> HIDE DEF made
      <4>1. [j \in DOMAIN s |-> claimItem(c, k, s[j])] = Each(made, s)
        BY <3>2 DEF Each
      <4>2. QED
        BY <4>1, Zenon
    <3> HIDE DEF place, s, made
    <3>4. QED
      BY <3>1, <3>3, FlatMapped
  <2> DEFINE T == Seq(Instructions)
             places == [k \in 1..NumPlaces |-> place(k)]
  <2>2. places \in Seq(T)
    <3> HIDE DEF place, T
    <3>1. \A k \in 1..NumPlaces : place(k) \in T
      BY <2>1 DEF T
    <3>2. NumPlaces \in Nat
      BY PrizeTypes
    <3>3. QED
      BY <3>1, <3>2
  <2> HIDE DEF places
  <2>3. FlattenSeq(places) \in Seq(Instructions)
    BY <2>2, FlatList
  <2>4. QED
    BY <2>3 DEF places
<1>3. three \in Seq(Instructions)
  <2> DEFINE S == {i \in Orders : c.store[i] > 0}
  <2>1. prints \in Seq(Orders \cap S) /\ Seq(Orders \cap S) \subseteq Seq(Orders)
    <3> HIDE DEF S
    <3>1. Chosen(Prints, S) \in Seq(Orders \cap S)
      BY ListsOfBoxes, ChosenList
    <3>2. QED
      BY <3>1 DEF S
  <2>2. taken \in [Orders -> Instructions]
    BY Builders
  <2> HIDE DEF prints, taken, S
  <2>3. QED
    BY <2>1, <2>2, Mapped
<1>4. claimUnusedPrizes(c) = (one \o two) \o three
  <2>1. /\ \A j \in DOMAIN participationItem : given[participationItem[j]] = claimParticipation(c, participationItem[j])
        /\ \A j \in DOMAIN prints : taken[prints[j]] = withdrawMasterEdition(prints[j])
    <3>1. \A j \in DOMAIN participationItem : participationItem[j] \in Orders
      BY ListsOfBoxes
    <3>2. \A j \in DOMAIN prints : prints[j] \in Orders
      <4> DEFINE S == {i \in Orders : c.store[i] > 0}
      <4> HIDE DEF S
      <4>1. Chosen(Prints, S) \in Seq(Orders \cap S)
        BY ListsOfBoxes, ChosenList
      <4>2. prints \in Seq(Orders \cap S)
        BY <4>1 DEF S
      <4> HIDE DEF prints
      <4>3. QED
        BY <4>2
    <3> HIDE DEF prints
    <3>3. QED
      BY <3>1, <3>2
  <2> HIDE DEF given, taken, prints, place
  <2>2. /\ one = FlattenSeq([j \in DOMAIN participationItem |-> claimParticipation(c, participationItem[j])])
        /\ three = [j \in DOMAIN prints |-> withdrawMasterEdition(prints[j])]
    <3>1. Each(given, participationItem)
            = [j \in DOMAIN participationItem |-> claimParticipation(c, participationItem[j])]
      BY <2>1 DEF Each
    <3>2. Each(taken, prints) = [j \in DOMAIN prints |-> withdrawMasterEdition(prints[j])]
      BY <2>1 DEF Each
    <3>3. QED
      BY <3>1, <3>2, Zenon
  <2> HIDE DEF one, three
  <2>3. QED
    BY <2>2, Zenon DEF claimUnusedPrizes, prints, place
<1> HIDE DEF one, two, three
<1>5. QED
  BY <1>1, <1>2, <1>3, <1>4, Putting

(* Whatever the page of a wallet builds is a list of instructions.         *)
LEMMA ListsAreTyped ==
  ASSUME NEW c, Placed(c), NEW w \in Holders
  PROVE  list(c, w) \in Seq(Instructions)
<1>1. ended(c) \in Seq(Instructions)
  BY Builders, Putting DEF ended
<1>2. setupCancelBid(w) \in Seq(Instructions)
  BY Builders, Putting DEF setupCancelBid
<1>3. CASE eligibleForAnything(c, w)
  <2>1. w \in Bidders
    BY <1>3, Places DEF eligibleForAnything, eligibleForParticipationPrize
  <2>2. setupRedeemParticipationInstructions(c, w) \in Seq(Instructions)
    <3>1. CASE ~eligibleForParticipationPrize(c, w)
      BY <3>1, Putting DEF setupRedeemParticipationInstructions
    <3>2. CASE eligibleForParticipationPrize(c, w)
      <4> DEFINE i == participationItem[1]
      <4>1. i \in Orders
        <5>1. ToSet(participationItem) # {}
          BY <3>2 DEF eligibleForParticipationPrize
        <5>2. participationItem \in Seq(Orders) /\ DOMAIN participationItem # {}
          BY <5>1, ListsOfBoxes DEF ToSet
        <5>3. 1 \in DOMAIN participationItem
          BY <5>2
        <5>4. QED
          BY <5>2, <5>3
      <4>2. w \in Holders
        OBVIOUS
      <4> HIDE DEF i
      <4>3. /\ createMintAndAccountWithOne(w, w) \in Instructions
            /\ redeemParticipationBidV3(w, w, i) \in Instructions
            /\ updatePrimarySaleHappenedViaToken(w, w) \in Instructions
        BY <2>1, <4>1, <4>2, Builders
      <4>4. <<createMintAndAccountWithOne(w, w), redeemParticipationBidV3(w, w, i),
              updatePrimarySaleHappenedViaToken(w, w)>> \in Seq(Instructions)
        BY <4>3, Putting
      <4>5. QED
        BY <3>2, <4>4, Zenon DEF setupRedeemParticipationInstructions, i
    <3>3. QED
      BY <3>1, <3>2
  <2>3. (IF w \in Winners(c) THEN winningSet(c, w) \o <<claimBid(w)>> ELSE setupCancelBid(w))
          \in Seq(Instructions)
    <3>1. <<claimBid(w)>> \in Seq(Instructions)
      BY <2>1, Builders, Putting
    <3>2. QED
      BY <3>1, <1>2, WinningSetIsTyped, Putting
  <2>4. sendRedeemBid(c, w) \in Seq(Instructions)
    BY <1>1, <2>2, <2>3, Putting DEF sendRedeemBid
  <2>5. QED
    BY <1>3, <2>4 DEF list
<1>4. CASE ~eligibleForAnything(c, w)
  <2>1. (IF w = Seller THEN claimUnusedPrizes(c) ELSE <<>>) \in Seq(Instructions)
    BY UnusedIsTyped, Putting
  <2>2. sendCancelBid(c, w) \in Seq(Instructions)
    BY <1>1, <1>2, <2>1, Putting DEF sendCancelBid
  <2>3. QED
    BY <1>4, <2>2 DEF list
<1>5. QED
  BY <1>3, <1>4

-----------------------------------------------------------------------------
(* The tabs                                                                *)

Tab == [pc : {"idle", "round", "sending"}, todo : Seq(Instructions), at : Nat, first : Nat,
        stop : Nat, tries : Nat, last : Nat, then : {"none", "once", "retry"}]

InList(b) == b.pc = "sending" => b.at \in 1..Len(b.todo)

TabInv(b) == b \in Tab /\ InList(b)

(* The fields of a tab that change.                                        *)
LEMMA TabFields ==
  ASSUME NEW b \in Tab
  PROVE  /\ \A stop \in Nat : [b EXCEPT !.pc = "round", !.stop = stop] \in Tab
         /\ \A at \in Nat : [b EXCEPT !.at = at] \in Tab
         /\ \A todo \in Seq(Instructions), last, tries \in Nat :
              [b EXCEPT !.todo = todo, !.last = last, !.at = 1, !.first = 0, !.tries = tries]
                \in Tab
         /\ [b EXCEPT !.pc = "sending"] \in Tab
BY DEF Tab

(* A round goes on with what is left of the list.                          *)
LEMMA NextRoundTab ==
  ASSUME NEW b \in Tab, MoreRounds(b)
  PROVE  /\ NextRound(b) \in Tab
         /\ TabInv([NextRound(b) EXCEPT !.pc = "sending"])
<1> DEFINE rest == SubSeq(b.todo, b.stop + 1, Len(b.todo))
<1>1. /\ b.todo \in Seq(Instructions) /\ Len(b.todo) \in Nat
      /\ b.stop \in Nat /\ b.stop < Len(b.todo) /\ b.tries \in Nat
  BY DEF Tab, MoreRounds
<1>2. rest \in Seq(Instructions) /\ Len(rest) > 0
  <2>1. \A k \in (b.stop + 1)..Len(b.todo) : b.todo[k] \in Instructions
    BY <1>1
  <2>2. b.stop + 1 \in Int /\ Len(b.todo) \in Int
    BY <1>1
  <2>3. /\ rest \in Seq(Instructions)
        /\ Len(rest) = IF b.stop + 1 <= Len(b.todo) THEN Len(b.todo) - (b.stop + 1) + 1 ELSE 0
    BY <2>1, <2>2, SubSeqProperties
  <2> HIDE DEF rest
  <2>4. QED
    BY <2>3, <1>1
<1> DEFINE again == IF Len(rest) = b.last THEN b.tries + 1 ELSE 0
           d == [b EXCEPT !.todo = rest, !.last = Len(rest), !.at = 1, !.first = 0,
                          !.tries = again]
<1>3. NextRound(b) = d
  BY <1>1 DEF NextRound, Tab
<1> HIDE DEF rest
<1>4. Len(rest) \in Nat /\ again \in Nat
  BY <1>1, <1>2
<1> HIDE DEF again
<1>5. d \in Tab
  BY <1>2, <1>4, TabFields
<1>6. d.todo = rest /\ d.at = 1
  BY DEF Tab
<1> HIDE DEF d
<1>7. /\ [d EXCEPT !.pc = "sending"] \in Tab
      /\ [d EXCEPT !.pc = "sending"].todo = rest /\ [d EXCEPT !.pc = "sending"].at = 1
  BY <1>5, <1>6 DEF Tab
<1>8. QED
  BY <1>2, <1>3, <1>4, <1>5, <1>7 DEF TabInv, InList

(* A pass goes on, or ends where the list ends.                            *)
LEMMA AfterTab ==
  ASSUME NEW b, TabInv(b), b.pc = "sending"
  PROVE  TabInv(After(b)) /\ TabInv(AfterFailure(b)) /\ TabInv(AfterException(b))
<1>1. b \in Tab /\ Len(b.todo) \in Nat /\ b.at \in 1..Len(b.todo)
  BY DEF TabInv, Tab, InList
<1>2. ASSUME NEW e, e \in Tab, e.pc = "sending", e.at = b.at, e.todo = b.todo
      PROVE  TabInv(After(e))
  <2>1. CASE e.at < Len(e.todo)
    <3>1. [e EXCEPT !.at = e.at + 1] \in Tab
      <4>1. e.at + 1 \in Nat
        BY <1>1, <1>2
      <4>2. QED
        BY <4>1, <1>2, TabFields, Zenon
    <3>2. [e EXCEPT !.at = e.at + 1].at \in 1..Len([e EXCEPT !.at = e.at + 1].todo)
      BY <1>1, <1>2, <2>1 DEF Tab
    <3>3. After(e) = [e EXCEPT !.at = e.at + 1]
      BY <2>1, <1>2 DEF After, Tab
    <3>4. QED
      BY <3>1, <3>2, <3>3 DEF TabInv, InList
  <2>2. CASE ~(e.at < Len(e.todo))
    <3>1. [e EXCEPT !.pc = "round", !.stop = Len(e.todo)] \in Tab
      BY <1>1, <1>2, TabFields
    <3>2. [e EXCEPT !.pc = "round", !.stop = Len(e.todo)].pc = "round"
      BY <1>2 DEF Tab
    <3>3. QED
      BY <2>2, <3>1, <3>2 DEF TabInv, InList, After
  <2>3. QED
    BY <2>1, <2>2
<1>3. /\ [b EXCEPT !.first = b.at] \in Tab /\ [b EXCEPT !.first = b.at].pc = "sending"
      /\ [b EXCEPT !.first = b.at].at = b.at /\ [b EXCEPT !.first = b.at].todo = b.todo
  BY <1>1 DEF Tab
<1>4. b.first # 0 => TabInv([b EXCEPT !.pc = "round", !.stop = b.first - 1])
  <2>1. b.first # 0 => b.first - 1 \in Nat
    BY <1>1 DEF Tab
  <2>2. b.first # 0 => [b EXCEPT !.pc = "round", !.stop = b.first - 1] \in Tab
    BY <2>1, <1>1, TabFields
  <2>3. [b EXCEPT !.pc = "round", !.stop = b.first - 1].pc = "round"
    BY <1>1 DEF Tab
  <2>4. QED
    BY <2>2, <2>3 DEF TabInv, InList
<1>5. TabInv(AfterFailure(b))
  BY <1>2, <1>3, <1>4 DEF AfterFailure
<1>6. TabInv(AfterException(b))
  BY <1>1 DEF TabInv, Tab, InList, AfterException
<1>7. QED
  BY <1>1, <1>2, <1>5, <1>6

(* What a tab is when it stands idle, goes on or starts.                   *)
LEMMA OnwardTab ==
  /\ TabInv(Idle)
  /\ \A b : TabInv(b) => TabInv(Onward(b))
  /\ \A s \in Seq(Instructions), then \in {"once", "retry"} : s # <<>> =>
       TabInv([NextRound(Start(s, "once")) EXCEPT !.pc = "sending", !.then = then])
<1>1. TabInv(Idle)
  BY EmptySeq DEF Idle, TabInv, Tab, InList
<1>2. ASSUME NEW b, TabInv(b) PROVE TabInv(Onward(b))
  <2>1. CASE b.pc = "sending"
    BY <1>2, <2>1 DEF Onward
  <2>2. CASE b.pc # "sending" /\ (b.then = "once" \/ ~MoreRounds(b))
    BY <1>1, <2>2 DEF Onward
  <2>3. CASE b.pc # "sending" /\ ~(b.then = "once" \/ ~MoreRounds(b))
    BY <1>2, <2>3, NextRoundTab DEF Onward, TabInv
  <2>4. QED
    BY <2>1, <2>2, <2>3
<1>3. ASSUME NEW s \in Seq(Instructions), NEW then \in {"once", "retry"}, s # <<>>
      PROVE  TabInv([NextRound(Start(s, "once")) EXCEPT !.pc = "sending", !.then = then])
  <2> DEFINE b == Start(s, "once")
             e == [NextRound(b) EXCEPT !.pc = "sending"]
             d == [NextRound(b) EXCEPT !.pc = "sending", !.then = then]
  <2>1. b \in Tab /\ b.todo = s /\ b.stop = 0 /\ b.tries = 0
    BY EmptySeq DEF Start, Idle, Tab
  <2>2. Len(s) \in Nat /\ Len(s) > 0
    BY <1>3, EmptySeq
  <2>3. MoreRounds(b)
    BY <2>1, <2>2 DEF MoreRounds
  <2> HIDE DEF b
  <2>4. NextRound(b) \in Tab /\ TabInv(e)
    BY <2>1, <2>3, NextRoundTab
  <2> DEFINE r == NextRound(b)
  <2>5. r \in Tab /\ TabInv([r EXCEPT !.pc = "sending"])
    BY <2>4
  <2> HIDE DEF r
  <2>6. TabInv([r EXCEPT !.pc = "sending", !.then = then])
    <3>1. [r EXCEPT !.pc = "sending", !.then = then] \in Tab
      BY <2>5 DEF Tab
    <3>2. /\ [r EXCEPT !.pc = "sending", !.then = then].at = [r EXCEPT !.pc = "sending"].at
          /\ [r EXCEPT !.pc = "sending", !.then = then].todo = [r EXCEPT !.pc = "sending"].todo
          /\ [r EXCEPT !.pc = "sending"].pc = "sending"
      BY <2>5 DEF Tab
    <3>3. QED
      BY <2>5, <3>1, <3>2 DEF TabInv, InList
  <2>7. QED
    BY <2>6 DEF r, b
<1>4. QED
  BY <1>1, <1>2, <1>3

-----------------------------------------------------------------------------
(* The accounts                                                            *)

Tickets == [indexed : BOOLEAN, low : SUBSET Orders, high : SUBSET Orders]
Trackings == [open : BOOLEAN, expected : Int, redeemed : Int, snapshot : Nat]
Mints == [Holders \X Bidders -> {"none", "blank", "printed"}]
Chains == [places : Seq(Bidders), uncancelled : Int, cancelled : SUBSET Bidders,
           pots : SUBSET Bidders, claimed : Nat, recorded : BOOLEAN,
           store : [Orders -> Nat], got : [Orders -> [Holders -> Nat]],
           ticket : [Bidders -> Tickets], tracking : [Orders -> Trackings],
           taken : [Orders -> SUBSET Nat], supply : [Orders -> Nat],
           mints : Mints]

(* Who won never cancels, only winners' tickets are indexed, and the bids  *)
(* counted are no fewer than those that are left.                          *)
Ended(c) ==
  /\ Placed(c)
  /\ \A k \in DOMAIN c.places : c.places[k] \notin c.cancelled
  /\ \A b \in Bidders \ Winners(c) : ~c.ticket[b].indexed
  /\ c.uncancelled >= Cardinality(Bidders \ c.cancelled)

(* What the bidder at each place has been given of a box.                  *)
ByPlace(c, i) == [k \in 1..NumPlaces |-> IF k \in DOMAIN c.places THEN c.got[i][c.places[k]] ELSE 0]

(* A token is in its store, at its place or with the seller, and a ticket  *)
(* says who has had its own.                                               *)
TransferInv(c, i) ==
  /\ \A b \in Bidders \ Winners(c) : c.got[i][b] = 0
  /\ \A k \in DOMAIN c.places :
       \/ c.got[i][c.places[k]] = 0
       \/ /\ c.got[i][c.places[k]] = Amount(i, k)
          /\ c.ticket[c.places[k]].indexed /\ i \in c.ticket[c.places[k]].high
  /\ DOMAIN c.places = 1..NumPlaces => c.got[i][Seller] = 0
  /\ c.store[i] + Sum(ByPlace(c, i)) + c.got[i][Seller] = InStore(i)

Editions(i, k) == ToSet(Offsets[i][k])

(* The prints made are the editions taken of each place, and the master    *)
(* left when they were as many as expected or none was due.                *)
PrintInv(c, i) ==
  /\ \A b \in Bidders \ Winners(c) : c.got[i][b] = 0
  /\ \A k \in DOMAIN c.places : c.got[i][c.places[k]] = Cardinality(c.taken[i] \cap Editions(i, k))
  /\ c.tracking[i].redeemed = Sum(ByPlace(c, i))
  /\ IF c.tracking[i].open THEN /\ c.tracking[i].snapshot = 0
                                /\ c.tracking[i].expected = Before[i][Len(c.places) + 1]
                           ELSE c.supply[i] = 0 /\ c.tracking[i].redeemed = 0
  /\ c.store[i] = 0 => \/ c.tracking[i].open /\ c.tracking[i].redeemed >= c.tracking[i].expected
                       \/ \A k \in DOMAIN c.places : Amount(i, k) = 0

Served(c, i) == {b \in Bidders : c.got[i][b] = 1}

(* A participation is printed for each loser once, and the master left     *)
(* when as many were as there were losers.                                 *)
ParticipationInv(c, i) ==
  /\ \A b \in Bidders : \/ c.got[i][b] = 0
                        \/ c.got[i][b] = 1 /\ b \notin Winners(c) /\ i \in c.ticket[b].low
  /\ c.tracking[i].redeemed = Cardinality(Served(c, i))
  /\ IF c.tracking[i].open THEN c.recorded /\ c.tracking[i].expected = c.uncancelled - Len(c.places)
                           ELSE c.tracking[i].redeemed = 0
  /\ c.store[i] = 0 => /\ c.recorded
                       /\ \/ c.uncancelled <= 0
                          \/ c.tracking[i].open /\ c.tracking[i].redeemed >= c.tracking[i].expected

BoxInv(c, i) ==
  /\ i \notin Masters => TransferInv(c, i)
  /\ IsPrint(i) => PrintInv(c, i)
  /\ IsParticipation(i) => ParticipationInv(c, i)

ChainInv(c) == c \in Chains /\ Ended(c) /\ \A i \in Orders : BoxInv(c, i)

(* The winners are not given participations: a ticket saved in one layout  *)
(* is not saved in the other, where its bits are forgotten.                *)
TicketsLast == \A i \in Orders : IsParticipation(i) => ~Given.winners

Same(c, d, i) ==
  /\ d.store[i] = c.store[i] /\ d.got[i] = c.got[i] /\ d.tracking[i] = c.tracking[i]
  /\ d.taken[i] = c.taken[i] /\ d.supply[i] = c.supply[i]

(* d comes after c: the places stand, the count once recorded, the bits.   *)
Later(c, d) ==
  /\ d.places = c.places
  /\ c.recorded => d.recorded /\ d.uncancelled = c.uncancelled
  /\ \A b \in Winners(c) : c.ticket[b].indexed =>
       d.ticket[b].indexed /\ c.ticket[b].high \subseteq d.ticket[b].high
  /\ \A b \in Bidders \ Winners(c) : c.ticket[b].low \subseteq d.ticket[b].low

(* A box an instruction leaves alone.                                      *)
LEMMA BoxStays ==
  ASSUME NEW c, NEW d, Later(c, d), NEW i \in Orders, BoxInv(c, i), Same(c, d, i), Placed(c)
  PROVE  BoxInv(d, i)
<1>1. /\ d.places = c.places /\ Winners(d) = Winners(c) /\ ByPlace(d, i) = ByPlace(c, i)
      /\ Served(d, i) = Served(c, i)
  BY DEF Later, Same, Winners, ByPlace, Served
<1>2. \A k \in DOMAIN c.places : c.places[k] \in Winners(c)
  BY Places
<1>3. i \notin Masters => TransferInv(d, i)
  <2> SUFFICES ASSUME TransferInv(c, i) PROVE TransferInv(d, i)
    BY DEF BoxInv
  <2>1. /\ \A b \in Bidders \ Winners(d) : d.got[i][b] = 0
        /\ DOMAIN d.places = 1..NumPlaces => d.got[i][Seller] = 0
        /\ d.store[i] + Sum(ByPlace(d, i)) + d.got[i][Seller] = InStore(i)
    BY <1>1 DEF TransferInv, Same
  <2>2. \A k \in DOMAIN d.places :
          \/ d.got[i][d.places[k]] = 0
          \/ /\ d.got[i][d.places[k]] = Amount(i, k)
             /\ d.ticket[d.places[k]].indexed /\ i \in d.ticket[d.places[k]].high
    BY <1>1, <1>2 DEF TransferInv, Same, Later
  <2>3. QED
    BY <2>1, <2>2 DEF TransferInv
<1>4. IsPrint(i) => PrintInv(d, i)
  BY <1>1 DEF BoxInv, PrintInv, Same
<1>5. IsParticipation(i) => ParticipationInv(d, i)
  <2> SUFFICES ASSUME ParticipationInv(c, i) PROVE ParticipationInv(d, i)
    BY DEF BoxInv
  <2>1. \A b \in Bidders : \/ d.got[i][b] = 0
                           \/ d.got[i][b] = 1 /\ b \notin Winners(d) /\ i \in d.ticket[b].low
    BY <1>1 DEF ParticipationInv, Same, Later
  <2>2. /\ d.tracking[i].redeemed = Cardinality(Served(d, i))
        /\ IF d.tracking[i].open THEN d.recorded /\ d.tracking[i].expected = d.uncancelled - Len(d.places)
                                 ELSE d.tracking[i].redeemed = 0
        /\ d.store[i] = 0 => /\ d.recorded
                             /\ \/ d.uncancelled <= 0
                                \/ d.tracking[i].open /\ d.tracking[i].redeemed >= d.tracking[i].expected
    BY <1>1 DEF ParticipationInv, Same, Later
  <2>3. QED
    BY <2>1, <2>2 DEF ParticipationInv
<1>6. QED
  BY <1>3, <1>4, <1>5 DEF BoxInv

(* What an instruction must show.                                          *)
LEMMA ChainStep ==
  ASSUME NEW c, NEW d, ChainInv(c), d \in Chains, Ended(d), Later(c, d),
         \A i \in Orders : Same(c, d, i) \/ BoxInv(d, i)
  PROVE  ChainInv(d)
<1>1. Placed(c) /\ \A i \in Orders : BoxInv(c, i)
  BY DEF ChainInv, Ended
<1>2. \A i \in Orders : BoxInv(d, i)
  BY <1>1, BoxStays
<1>3. QED
  BY <1>2 DEF ChainInv

(* The instructions that touch no box.                                     *)
LEMMA NoBoxTouched ==
  ASSUME NEW c, ChainInv(c), NEW d, d \in Chains, Later(c, d), Ended(d),
         d.store = c.store, d.got = c.got, d.tracking = c.tracking,
         d.taken = c.taken, d.supply = c.supply
  PROVE  ChainInv(d)
BY ChainStep DEF Same

(* Recording the end of the auction touches no box.                        *)
LEMMA EndBidKeeps ==
  ASSUME NEW c, ChainInv(c), ~c.recorded
  PROVE  ChainInv([c EXCEPT !.recorded = TRUE])
<1> DEFINE d == [c EXCEPT !.recorded = TRUE]
<1>1. c \in Chains /\ Ended(c)
  BY DEF ChainInv
<1>2. d \in Chains
  BY <1>1 DEF Chains
<1>3. /\ d.places = c.places /\ d.ticket = c.ticket /\ d.cancelled = c.cancelled
      /\ d.uncancelled = c.uncancelled
      /\ d.store = c.store /\ d.got = c.got /\ d.tracking = c.tracking
      /\ d.taken = c.taken /\ d.supply = c.supply
  BY <1>1 DEF Chains
<1> HIDE DEF d
<1>4. Ended(d) /\ Later(c, d)
  BY <1>1, <1>3 DEF Ended, Placed, Winners, Later
<1>5. QED
  BY <1>2, <1>3, <1>4, NoBoxTouched DEF d

(* Paying a winning bid to the seller touches no box.                      *)
LEMMA ClaimKeeps ==
  ASSUME NEW c, ChainInv(c), NEW b \in Bidders
  PROVE  ChainInv(Claim(c, b))
<1> DEFINE n == IF b \in c.pots THEN c.claimed + 1 ELSE c.claimed
           d == [c EXCEPT !.claimed = n, !.pots = @ \ {b}]
<1>1. c \in Chains /\ Ended(c) /\ n \in Nat
  BY DEF ChainInv, Chains
<1>2. Claim(c, b) = d
  BY DEF Claim
<1> HIDE DEF n
<1>3. d \in Chains
  BY <1>1 DEF Chains
<1>4. /\ d.places = c.places /\ d.ticket = c.ticket /\ d.cancelled = c.cancelled
      /\ d.uncancelled = c.uncancelled /\ d.recorded = c.recorded
      /\ d.store = c.store /\ d.got = c.got /\ d.tracking = c.tracking
      /\ d.taken = c.taken /\ d.supply = c.supply
  BY <1>1 DEF Chains
<1> HIDE DEF d
<1>5. Ended(d) /\ Later(c, d)
  BY <1>1, <1>4 DEF Ended, Placed, Winners, Later
<1>6. QED
  BY <1>2, <1>3, <1>4, <1>5, NoBoxTouched

(* A refund is taken by a loser only, and the bids counted stay no fewer   *)
(* than those left: after the end the count stands.                        *)
LEMMA CancelKeeps ==
  ASSUME NEW c, ChainInv(c), NEW b \in Bidders, b \notin Winners(c)
  PROVE  ChainInv(Cancel(c, b))
<1> DEFINE n == IF c.recorded \/ b \in c.cancelled THEN c.uncancelled ELSE c.uncancelled - 1
           d == [c EXCEPT !.pots = @ \ {b}, !.cancelled = @ \union {b}, !.uncancelled = n]
<1>1. c \in Chains /\ Ended(c) /\ c.uncancelled \in Int /\ n \in Int
  BY DEF ChainInv, Chains
<1>2. Cancel(c, b) = d
  BY DEF Cancel
<1>3. /\ Cardinality(Bidders \ c.cancelled) \in Nat
      /\ Cardinality(Bidders \ (c.cancelled \union {b}))
           = IF b \in c.cancelled THEN Cardinality(Bidders \ c.cancelled)
                                  ELSE Cardinality(Bidders \ c.cancelled) - 1
  <2> DEFINE S == Bidders \ c.cancelled
  <2>1. Bidders \ (c.cancelled \union {b}) = S \ {b} /\ (b \in S <=> b \notin c.cancelled)
    OBVIOUS
  <2>2. IsFiniteSet(S)
    BY PrizeTypes, FS_Difference
  <2> HIDE DEF S
  <2>3. QED
    BY <2>1, <2>2, FS_RemoveElement, FS_CardinalityType DEF S
<1>4. n >= Cardinality(Bidders \ (c.cancelled \union {b}))
  BY <1>1, <1>3 DEF Ended
<1>5. c.recorded => n = c.uncancelled
  OBVIOUS
<1> HIDE DEF n
<1>6. d \in Chains
  BY <1>1 DEF Chains
<1>7. /\ d.places = c.places /\ d.ticket = c.ticket /\ d.cancelled = c.cancelled \union {b}
      /\ d.uncancelled = n /\ d.recorded = c.recorded
      /\ d.store = c.store /\ d.got = c.got /\ d.tracking = c.tracking
      /\ d.taken = c.taken /\ d.supply = c.supply
  BY <1>1 DEF Chains
<1> HIDE DEF d
<1>8. Later(c, d)
  BY <1>5, <1>7 DEF Later
<1>9. Ended(d)
  <2>1. Placed(d) /\ Winners(d) = Winners(c)
    BY <1>1, <1>7 DEF Ended, Placed, Winners
  <2>2. \A k \in DOMAIN d.places : d.places[k] \notin d.cancelled
    <3>1. \A k \in DOMAIN c.places : c.places[k] \in Winners(c)
      BY <1>1, Places DEF Ended
    <3>2. QED
      BY <3>1, <1>1, <1>7 DEF Ended
  <2>3. QED
    BY <1>1, <1>4, <1>7, <2>1, <2>2 DEF Ended
<1>10. QED
  BY <1>2, <1>6, <1>7, <1>8, <1>9, NoBoxTouched

(* Making mints touches no box.                                            *)
LEMMA MintsKeep ==
  ASSUME NEW c, ChainInv(c),
         NEW m \in Mints
  PROVE  ChainInv([c EXCEPT !.mints = m])
<1> DEFINE d == [c EXCEPT !.mints = m]
<1>1. c \in Chains /\ Ended(c)
  BY DEF ChainInv
<1>2. d \in Chains
  BY <1>1 DEF Chains
<1>3. /\ d.places = c.places /\ d.ticket = c.ticket /\ d.cancelled = c.cancelled
      /\ d.uncancelled = c.uncancelled /\ d.recorded = c.recorded
      /\ d.store = c.store /\ d.got = c.got /\ d.tracking = c.tracking
      /\ d.taken = c.taken /\ d.supply = c.supply
  BY <1>1 DEF Chains
<1> HIDE DEF d
<1>4. Ended(d) /\ Later(c, d)
  BY <1>1, <1>3 DEF Ended, Placed, Winners, Later
<1>5. QED
  BY <1>2, <1>3, <1>4, NoBoxTouched DEF d

(* What the places are given are natural numbers.                          *)
LEMMA ByPlaceTypes ==
  ASSUME NEW c, c \in Chains, Placed(c), NEW i \in Orders
  PROVE  ByPlace(c, i) \in [1..NumPlaces -> Nat] /\ Sum(ByPlace(c, i)) \in Nat
<1>1. /\ c.got[i] \in [Holders -> Nat] /\ DOMAIN c.places \subseteq 1..NumPlaces
      /\ NumPlaces \in Nat
  BY Places, PrizeTypes DEF Chains
<1>2. \A k \in DOMAIN c.places : c.places[k] \in Holders
  BY DEF Placed, Holders
<1>3. ByPlace(c, i) \in [1..NumPlaces -> Nat]
  BY <1>1, <1>2 DEF ByPlace
<1>4. QED
  BY <1>1, <1>3, SumOfNaturals

(* What the bidder at one place is given is given at no other.             *)
LEMMA ByPlaceChanged ==
  ASSUME NEW c, c \in Chains, Placed(c), NEW d, d \in Chains, d.places = c.places,
         NEW i \in Orders, NEW k \in DOMAIN c.places,
         \A h \in Holders : h # c.places[k] => d.got[i][h] = c.got[i][h]
  PROVE  Sum(ByPlace(d, i)) + c.got[i][c.places[k]] = Sum(ByPlace(c, i)) + d.got[i][c.places[k]]
<1> DEFINE s == ByPlace(c, i)
           t == ByPlace(d, i)
<1>1. Placed(d)
  BY DEF Placed
<1>2. s \in [1..NumPlaces -> Nat] /\ t \in [1..NumPlaces -> Nat] /\ NumPlaces \in Nat
  BY <1>1, ByPlaceTypes, PrizeTypes
<1>3. k \in 1..NumPlaces /\ s[k] = c.got[i][c.places[k]] /\ t[k] = d.got[i][c.places[k]]
  BY Places DEF ByPlace
<1>4. ASSUME NEW j \in 1..NumPlaces, j # k PROVE t[j] = s[j]
  <2>1. CASE j \in DOMAIN c.places
    <3>1. c.places[j] \in Holders /\ c.places[j] # c.places[k]
      BY <1>4, <2>1 DEF Placed, Holders
    <3>2. QED
      BY <3>1, <2>1 DEF ByPlace
  <2>2. CASE j \notin DOMAIN c.places
    BY <2>2 DEF ByPlace
  <2>3. QED
    BY <2>1, <2>2
<1> HIDE DEF s, t
<1>5. Sum(t) + s[k] = Sum(s) + t[k]
  BY <1>2, <1>3, <1>4, SumOneChanged
<1>6. QED
  BY <1>3, <1>5 DEF s, t

(* Who is given nothing by it changes no place's part.                     *)
LEMMA ByPlaceSame ==
  ASSUME NEW c, Placed(c), NEW d, d.places = c.places, NEW i,
         \A b \in Bidders : d.got[i][b] = c.got[i][b]
  PROVE  ByPlace(d, i) = ByPlace(c, i)
<1>1. \A k \in DOMAIN c.places : c.places[k] \in Bidders
  BY DEF Placed
<1>2. QED
  BY <1>1 DEF ByPlace

(* A saved ticket has the bit in the layout it is saved in.                *)
LEMMA SaveTypes ==
  ASSUME NEW t \in Tickets, NEW i \in Orders
  PROVE  /\ Save(t, i, TRUE) \in Tickets /\ Save(t, i, FALSE) \in Tickets
         /\ Save(t, i, TRUE).indexed /\ Save(t, i, TRUE).high = t.high \union {i}
         /\ ~Save(t, i, FALSE).indexed /\ Save(t, i, FALSE).low = t.low \union {i}
BY PrizeAssumption DEF Save, Tickets

(* Saving a ticket with a winner's index, or without one for another, is   *)
(* what leaves its bits where they were.                                   *)
LEMMA TicketSaved ==
  ASSUME NEW c, ChainInv(c), NEW b \in Bidders, NEW i \in Orders, NEW d,
         d.places = c.places, c.recorded => d.recorded /\ d.uncancelled = c.uncancelled,
         d.cancelled = c.cancelled, d.uncancelled = c.uncancelled,
         d.ticket = [c.ticket EXCEPT ![b] = Save(c.ticket[b], i, b \in Winners(c))]
  PROVE  Later(c, d) /\ Ended(d) /\ d.ticket \in [Bidders -> Tickets]
<1>1. c.ticket \in [Bidders -> Tickets] /\ Ended(c) /\ c.ticket[b] \in Tickets
  BY DEF ChainInv, Chains
<1>2. Placed(d) /\ Winners(d) = Winners(c) /\ Winners(c) \subseteq Bidders
  BY <1>1, Places DEF Ended, Placed, Winners
<1>3. CASE b \in Winners(c)
  <2> DEFINE t == Save(c.ticket[b], i, TRUE)
  <2>1. (b \in Winners(c)) = TRUE
    BY <1>3
  <2>2. d.ticket = [c.ticket EXCEPT ![b] = t]
    BY <2>1
  <2>3. t \in Tickets /\ t.indexed /\ t.high = c.ticket[b].high \union {i}
    BY <1>1, SaveTypes
  <2> HIDE DEF t
  <2>4. QED
    BY <1>1, <1>2, <1>3, <2>2, <2>3 DEF Later, Ended
<1>4. CASE b \notin Winners(c)
  <2> DEFINE t == Save(c.ticket[b], i, FALSE)
  <2>1. (b \in Winners(c)) = FALSE
    BY <1>4
  <2>2. d.ticket = [c.ticket EXCEPT ![b] = t]
    BY <2>1
  <2>3. t \in Tickets /\ ~t.indexed /\ t.low = c.ticket[b].low \union {i}
    BY <1>1, SaveTypes
  <2> HIDE DEF t
  <2>4. QED
    BY <1>1, <1>2, <1>4, <2>2, <2>3 DEF Later, Ended
<1>5. QED
  BY <1>3, <1>4

(* What is on the chain of a box.                                          *)
LEMMA ChainTypes ==
  ASSUME NEW c, ChainInv(c), NEW i \in Orders
  PROVE  /\ c \in Chains /\ Ended(c) /\ Placed(c) /\ BoxInv(c, i)
         /\ Seller \in Holders /\ Seller \notin Bidders
         /\ c.store[i] \in Nat /\ c.got[i] \in [Holders -> Nat]
         /\ \A h \in Holders : c.got[i][h] \in Nat
         /\ c.taken[i] \subseteq Nat /\ c.supply[i] \in Nat /\ c.tracking[i] \in Trackings
<1>1. c \in Chains /\ Ended(c) /\ Placed(c) /\ BoxInv(c, i)
  BY DEF ChainInv, Ended
<1>2. Seller \in Holders /\ Seller \notin Bidders
  BY PrizeTypes DEF Holders
<1>3. c.store[i] \in Nat /\ c.got[i] \in [Holders -> Nat]
  BY <1>1 DEF Chains
<1>4. \A h \in Holders : c.got[i][h] \in Nat
  BY <1>3
<1>5. c.taken[i] \subseteq Nat /\ c.supply[i] \in Nat /\ c.tracking[i] \in Trackings
  BY <1>1 DEF Chains
<1>6. QED
  BY <1>1, <1>2, <1>3, <1>4, <1>5

(* A prize is handed out once: what is in the store, with a winner and     *)
(* with the seller goes on being all there was.                            *)
LEMMA RedeemKeeps ==
  ASSUME NEW c, ChainInv(c), NEW b \in Bidders, NEW i \in Orders, MayRedeem(c, b, i)
  PROVE  ChainInv(Redeem(c, b, i))
<1> DEFINE won == b \in Winners(c)
           k == PlaceOf(c, b)
           n == IF won THEN Amount(i, k) ELSE 0
           s == c.store[i] - n
           g == c.got[i][b] + n
           t == Save(c.ticket[b], i, won)
           d == [c EXCEPT !.store[i] = s, !.got[i][b] = g, !.ticket[b] = t]
<1>1. Redeem(c, b, i) = d
  BY DEF Redeem
<1>2. /\ c \in Chains /\ Ended(c) /\ Placed(c) /\ b \in Holders /\ BoxInv(c, i)
      /\ c.store[i] \in Nat /\ c.got[i][b] \in Nat
  BY ChainTypes DEF Holders
<1>3. won => /\ k \in DOMAIN c.places /\ c.places[k] = b /\ k \in 1..NumPlaces
             /\ i \notin Masters /\ n = Amount(i, k) /\ s \in Nat
  <2>1. won => k \in DOMAIN c.places /\ c.places[k] = b /\ k \in 1..NumPlaces /\ i \notin Masters
    BY <1>2, Places DEF MayRedeem
  <2>2. won => c.store[i] >= Amount(i, k) /\ Amount(i, k) \in Nat
    BY <2>1, PrizeTypes DEF MayRedeem
  <2>3. QED
    BY <1>2, <2>1, <2>2
<1>4. n \in Nat /\ s \in Nat /\ g \in Nat
  <2>1. CASE won
    <3>1. n \in Nat /\ s \in Nat
      BY <2>1, <1>3, PrizeTypes
    <3>2. QED
      BY <1>2, <3>1
  <2>2. CASE ~won
    BY <1>2, <2>2
  <2>3. QED
    BY <2>1, <2>2
<1>5. ~won => s = c.store[i] /\ g = c.got[i][b]
  BY <1>2
<1> HIDE DEF n, s, g
<1> DEFINE e == [c EXCEPT !.store[i] = s, !.got[i][b] = g,
                          !.ticket = [c.ticket EXCEPT ![b] = t]]
<1>6. d = e
  BY <1>2 DEF Chains
<1>7. /\ e.places = c.places /\ e.cancelled = c.cancelled
      /\ e.uncancelled = c.uncancelled /\ e.recorded = c.recorded
      /\ e.tracking = c.tracking /\ e.taken = c.taken /\ e.supply = c.supply
  BY <1>2 DEF Chains
<1>8. /\ e.store = [c.store EXCEPT ![i] = s]
      /\ e.got = [c.got EXCEPT ![i] = [c.got[i] EXCEPT ![b] = g]]
      /\ e.ticket = [c.ticket EXCEPT ![b] = t]
  BY <1>2 DEF Chains
<1> DEFINE u == [c.ticket EXCEPT ![b] = t]
<1>9. Later(c, e) /\ Ended(e) /\ u \in [Bidders -> Tickets]
  <2> HIDE DEF e
  <2>1. e.ticket = [c.ticket EXCEPT ![b] = Save(c.ticket[b], i, b \in Winners(c))]
    BY <1>8, Zenon
  <2>2. Later(c, e) /\ Ended(e) /\ e.ticket \in [Bidders -> Tickets]
    <3>1. c.recorded => e.recorded /\ e.uncancelled = c.uncancelled
      BY <1>7
    <3>2. QED
      BY <1>7, <2>1, <3>1, TicketSaved, Zenon
  <2>3. QED
    BY <1>8, <2>2, Zenon
<1>10. e \in Chains
  <2> HIDE DEF u, t
  <2>1. [c EXCEPT !.store[i] = s, !.got[i][b] = g, !.ticket = u] \in Chains
    BY <1>2, <1>4, <1>9 DEF Chains
  <2>2. QED
    BY <2>1 DEF u
<1>11. \A j \in Orders : j # i => Same(c, e, j)
  <2> HIDE DEF e
  <2>1. QED
    BY <1>2, <1>7, <1>8 DEF Same, Chains
<1>12. ~won => Same(c, e, i)
  <2> HIDE DEF e
  <2>1. QED
    BY <1>2, <1>5, <1>7, <1>8 DEF Same, Chains
<1>13. ASSUME won PROVE BoxInv(e, i)
  <2> HIDE DEF e
  <2>1. TransferInv(c, i) /\ i \notin Masters /\ ~IsPrint(i) /\ ~IsParticipation(i)
    BY <1>2, <1>3, <1>13 DEF BoxInv, Masters
  <2>2. c.got[i][b] = 0
    BY <1>3, <1>13, <2>1 DEF TransferInv, MayRedeem, Redeemed
  <2>3. /\ \A h \in Holders : e.got[i][h] = IF h = b THEN Amount(i, k) ELSE c.got[i][h]
        /\ Amount(i, k) \in Nat
    <3>1. g = Amount(i, k) /\ Amount(i, k) \in Nat
      BY <1>3, <1>13, <2>2, PrizeTypes DEF g
    <3>2. QED
      BY <3>1, <1>2, <1>8 DEF Chains
  <2>4. Winners(e) = Winners(c)
    BY <1>7 DEF Winners
  <2>5. \A a \in Bidders \ Winners(e) : e.got[i][a] = 0
    BY <1>13, <2>1, <2>3, <2>4 DEF TransferInv, Holders
  <2>6. ASSUME NEW l \in DOMAIN e.places
        PROVE  \/ e.got[i][e.places[l]] = 0
               \/ /\ e.got[i][e.places[l]] = Amount(i, l)
                  /\ e.ticket[e.places[l]].indexed /\ i \in e.ticket[e.places[l]].high
    <3>1. e.places[l] = c.places[l] /\ l \in DOMAIN c.places /\ c.places[l] \in Bidders
          /\ c.places[l] \in Holders
      BY <2>6, <1>2, <1>7 DEF Placed, Holders
    <3>2. CASE l = k
      <4>1. t.indexed /\ i \in t.high /\ b \in DOMAIN c.ticket
        <5>1. (b \in Winners(c)) = TRUE
          BY <1>13
        <5>2. c.ticket[b] \in Tickets /\ DOMAIN c.ticket = Bidders
          BY <1>2 DEF Chains
        <5>3. t = Save(c.ticket[b], i, TRUE)
          BY <5>1, Zenon
        <5> HIDE DEF t
        <5>4. t.indexed /\ t.high = c.ticket[b].high \union {i}
          BY <5>2, <5>3, SaveTypes
        <5>5. QED
          BY <5>2, <5>4
      <4>2. e.ticket[b] = t
        BY <4>1, <1>8
      <4>3. QED
        BY <3>1, <3>2, <4>1, <4>2, <2>3, <1>3, <1>13
    <3>3. CASE l # k
      <4>1. c.places[l] # b
        BY <3>1, <3>3, <1>2, <1>3, <1>13 DEF Placed
      <4>2. e.got[i][c.places[l]] = c.got[i][c.places[l]] /\ e.ticket[c.places[l]] = c.ticket[c.places[l]]
        BY <3>1, <4>1, <2>3, <1>2, <1>8 DEF Chains
      <4>3. QED
        BY <3>1, <4>2, <2>1 DEF TransferInv
    <3>4. QED
      BY <3>2, <3>3
  <2>7. Seller \in Holders /\ Seller # b
    BY PrizeTypes DEF Holders
  <2>8. DOMAIN e.places = 1..NumPlaces => e.got[i][Seller] = 0
    BY <1>7, <2>1, <2>3, <2>7 DEF TransferInv
  <2>9. e.store[i] + Sum(ByPlace(e, i)) + e.got[i][Seller] = InStore(i)
    <3> DEFINE p == Sum(ByPlace(e, i))
               q == Sum(ByPlace(c, i))
               a == Amount(i, k)
               r == c.got[i][Seller]
               v == c.store[i]
               w == InStore(i)
    <3>1. Placed(e)
      BY <1>9 DEF Ended
    <3>2. p \in Nat /\ q \in Nat /\ a \in Nat /\ r \in Nat /\ v \in Nat
      <4>1. p \in Nat /\ q \in Nat
        BY <1>2, <1>10, <3>1, ByPlaceTypes
      <4>2. r \in Nat
        BY <1>2, <2>7 DEF Chains
      <4>3. QED
        BY <1>2, <2>3, <4>1, <4>2
    <3>3. p + c.got[i][b] = q + e.got[i][b]
      BY <1>2, <1>3, <1>7, <1>10, <1>13, <2>3, ByPlaceChanged
    <3>4. p + 0 = q + a
      BY <3>3, <2>2, <2>3, <1>2
    <3>5. v + q + r = w
      BY <2>1 DEF TransferInv
    <3>6. e.got[i][Seller] = r /\ e.store[i] = v - a
      <4>1. e.got[i][Seller] = r
        BY <2>3, <2>7
      <4>2. e.store[i] = s /\ s = v - a
        BY <1>2, <1>3, <1>8, <1>13 DEF s, Chains
      <4>3. QED
        BY <4>1, <4>2
    <3> HIDE DEF p, q, a, r, v, w
    <3>7. (v - a) + p + r = w
      BY <3>2, <3>4, <3>5
    <3>8. QED
      BY <3>6, <3>7 DEF p, w
  <2>10. TransferInv(e, i)
    BY <2>5, <2>6, <2>8, <2>9 DEF TransferInv
  <2>11. QED
    BY <2>1, <2>10 DEF BoxInv
<1>14. ChainInv(e)
  <2> HIDE DEF e
  <2>1. \A j \in Orders : Same(c, e, j) \/ BoxInv(e, j)
    BY <1>11, <1>12, <1>13
  <2>2. QED
    BY <1>9, <1>10, <2>1, ChainStep
<1>15. QED
  BY <1>1, <1>6, <1>14, Zenon

(* What nobody won goes to the seller; where every place is won, nothing.  *)
LEMMA UnusedKeeps ==
  ASSUME NEW c, ChainInv(c), NEW k \in 1..NumPlaces, NEW i \in Orders, MayRedeemUnused(c, k, i)
  PROVE  ChainInv(RedeemUnused(c, k, i))
<1> DEFINE a == Amount(i, k)
           s == c.store[i] - a
           g == c.got[i][Seller] + a
           d == [c EXCEPT !.store[i] = s, !.got[i][Seller] = g]
<1>1. RedeemUnused(c, k, i) = d
  BY DEF RedeemUnused
<1>2. /\ c \in Chains /\ Ended(c) /\ Placed(c) /\ Seller \in Holders /\ Seller \notin Bidders
      /\ BoxInv(c, i) /\ c.store[i] \in Nat /\ c.got[i][Seller] \in Nat
  BY ChainTypes
<1>3. a \in Nat /\ s \in Nat /\ g \in Nat /\ s + g = c.store[i] + c.got[i][Seller]
  <2>1. a \in Nat /\ c.store[i] >= a
    BY PrizeTypes DEF MayRedeemUnused
  <2> HIDE DEF a
  <2>2. QED
    BY <1>2, <2>1
<1> HIDE DEF a, s, g
<1>4. d \in Chains
  BY <1>2, <1>3 DEF Chains
<1>5. /\ d.places = c.places /\ d.cancelled = c.cancelled /\ d.ticket = c.ticket
      /\ d.uncancelled = c.uncancelled /\ d.recorded = c.recorded
      /\ d.tracking = c.tracking /\ d.taken = c.taken /\ d.supply = c.supply
  BY <1>2 DEF Chains
<1>6. /\ d.store = [c.store EXCEPT ![i] = s]
      /\ d.got = [c.got EXCEPT ![i] = [c.got[i] EXCEPT ![Seller] = g]]
  BY <1>2 DEF Chains
<1> HIDE DEF d
<1>7. Later(c, d) /\ Ended(d)
  BY <1>2, <1>5 DEF Later, Ended, Placed, Winners
<1>8. \A j \in Orders : j # i => Same(c, d, j)
  BY <1>2, <1>5, <1>6 DEF Same, Chains
<1>9. BoxInv(d, i)
  <2>1. TransferInv(c, i) /\ i \notin Masters /\ ~IsPrint(i) /\ ~IsParticipation(i)
    BY <1>2 DEF BoxInv, Masters, MayRedeemUnused
  <2>2. /\ \A b \in Bidders : d.got[i][b] = c.got[i][b]
        /\ d.got[i][Seller] = g /\ d.store[i] = s
    BY <1>2, <1>6 DEF Chains, Holders
  <2>3. ByPlace(d, i) = ByPlace(c, i) /\ Winners(d) = Winners(c)
    BY <1>2, <1>5, <2>2, ByPlaceSame DEF Winners
  <2>4. DOMAIN d.places # 1..NumPlaces
    BY <1>5 DEF MayRedeemUnused
  <2>5. d.store[i] + Sum(ByPlace(d, i)) + d.got[i][Seller] = InStore(i)
    <3> DEFINE q == Sum(ByPlace(c, i))
               v == c.store[i]
               r == c.got[i][Seller]
               w == InStore(i)
    <3>1. q \in Nat /\ v \in Nat /\ r \in Nat /\ v + q + r = w
      BY <1>2, <2>1, ByPlaceTypes DEF TransferInv
    <3>2. s + g = v + r
      BY <1>3
    <3> HIDE DEF q, v, r, w
    <3>3. s + q + g = w
      BY <1>3, <3>1, <3>2
    <3>4. QED
      BY <2>2, <2>3, <3>3 DEF q, w
  <2>6. \A l \in DOMAIN d.places :
          \/ d.got[i][d.places[l]] = 0
          \/ /\ d.got[i][d.places[l]] = Amount(i, l)
             /\ d.ticket[d.places[l]].indexed /\ i \in d.ticket[d.places[l]].high
    <3>1. \A l \in DOMAIN c.places : c.places[l] \in Bidders
      BY <1>2 DEF Placed
    <3>2. QED
      BY <1>5, <2>1, <2>2, <3>1 DEF TransferInv
  <2>7. \A b \in Bidders \ Winners(d) : d.got[i][b] = 0
    BY <2>1, <2>2, <2>3 DEF TransferInv
  <2>8. TransferInv(d, i)
    BY <2>4, <2>5, <2>6, <2>7 DEF TransferInv
  <2>9. QED
    BY <2>1, <2>8 DEF BoxInv
<1>10. ChainInv(d)
  BY <1>4, <1>7, <1>8, <1>9, ChainStep
<1>11. QED
  BY <1>1, <1>10

(* The places before the first that gets a print get none.                 *)
LEMMA AllowedBids ==
  ASSUME NEW i \in Orders
  PROVE  /\ BidsAllowed(i) \in Nat
         /\ \A k \in 1..NumPlaces : k <= BidsAllowed(i) => Amount(i, k) = 0
         /\ IsParticipation(i) => BidsAllowed(i) = 0
<1> DEFINE some == {k \in 1..NumPlaces : Amount(i, k) > 0}
           m == CHOOSE k \in some : \A l \in some : k <= l
<1>1. CASE some = {}
  <2>1. BidsAllowed(i) = 0
    BY <1>1 DEF BidsAllowed
  <2>2. QED
    BY <2>1
<1>2. CASE some # {}
  <2>1. some \in SUBSET Nat
    OBVIOUS
  <2> HIDE DEF some
  <2>2. \E k \in some : \A l \in some : k <= l
    BY <1>2, <2>1, LeastNatural
  <2>3. m \in some /\ \A l \in some : m <= l
    BY <2>2, Zenon
  <2>4. BidsAllowed(i) = m - 1
    BY <1>2, Zenon DEF BidsAllowed, some
  <2> HIDE DEF m
  <2>5. m \in 1..NumPlaces /\ Amount(i, m) > 0
    BY <2>3 DEF some
  <2>6. \A k \in 1..NumPlaces : k <= m - 1 => Amount(i, k) = 0
    <3> SUFFICES ASSUME NEW k \in 1..NumPlaces, k <= m - 1, Amount(i, k) # 0 PROVE FALSE
      OBVIOUS
    <3>1. Amount(i, k) \in Nat
      BY PrizeTypes
    <3>2. k \in some
      BY <3>1 DEF some
    <3>3. QED
      BY <2>3, <2>5, <3>2
  <2>7. ~IsParticipation(i)
    BY <2>5, PrizeAssumption
  <2>8. QED
    BY <2>4, <2>5, <2>6, <2>7
<1>3. QED
  BY <1>1, <1>2

(* There is a bid for each place that is won.                              *)
LEMMA BidsCounted ==
  ASSUME NEW c, c \in Chains, Ended(c)
  PROVE  Len(c.places) <= c.uncancelled
<1> DEFINE n == Len(c.places)
           S == Bidders \ c.cancelled
<1>1. n \in Nat /\ DOMAIN c.places = 1..n /\ c.places \in [1..n -> Bidders]
  BY DEF Ended, Placed
<1>2. IsFiniteSet(S) /\ Cardinality(S) \in Nat /\ c.uncancelled \in Int /\ c.uncancelled >= Cardinality(S)
  <2>1. IsFiniteSet(S)
    BY PrizeTypes, FS_Difference
  <2>2. QED
    BY <2>1, FS_CardinalityType DEF Ended, Chains
<1>3. c.places \in Injection(1..n, S)
  <2>1. c.places \in [1..n -> S] /\ IsInjective(c.places)
    BY <1>1 DEF Ended, Placed, IsInjective
  <2>2. QED
    BY <2>1 DEF Injection
<1> HIDE DEF S, n
<1>4. Cardinality(1..n) <= Cardinality(S)
  BY <1>2, <1>3, FS_Injection
<1>5. Cardinality(1..n) = n
  BY <1>1, FS_Interval
<1>6. QED
  BY <1>1, <1>2, <1>4, <1>5 DEF n

(* A master leaves when its prints are made, or when none was due.         *)
LEMMA WithdrawKeeps ==
  ASSUME NEW c, ChainInv(c), NEW i \in Orders, MayWithdraw(c, i)
  PROVE  ChainInv(Withdraw(c, i))
<1> DEFINE s == c.store[i] - 1
           g == c.got[i][Seller] + 1
           d == [c EXCEPT !.store[i] = s, !.got[i][Seller] = g]
<1>1. Withdraw(c, i) = d
  BY DEF Withdraw
<1>2. /\ c \in Chains /\ Ended(c) /\ Placed(c) /\ Seller \in Holders /\ Seller \notin Bidders
      /\ BoxInv(c, i) /\ c.store[i] \in Nat /\ c.got[i][Seller] \in Nat /\ i \in Masters
      /\ c.store[i] > 0 /\ c.recorded
  BY ChainTypes DEF MayWithdraw
<1>3. s \in Nat /\ g \in Nat
  BY <1>2
<1> HIDE DEF s, g
<1>4. d \in Chains
  BY <1>2, <1>3 DEF Chains
<1>5. /\ d.places = c.places /\ d.cancelled = c.cancelled /\ d.ticket = c.ticket
      /\ d.uncancelled = c.uncancelled /\ d.recorded = c.recorded
      /\ d.tracking = c.tracking /\ d.taken = c.taken /\ d.supply = c.supply
  BY <1>2 DEF Chains
<1>6. /\ d.store = [c.store EXCEPT ![i] = s]
      /\ d.got = [c.got EXCEPT ![i] = [c.got[i] EXCEPT ![Seller] = g]]
  BY <1>2 DEF Chains
<1> HIDE DEF d
<1>7. Later(c, d) /\ Ended(d)
  BY <1>2, <1>5 DEF Later, Ended, Placed, Winners
<1>8. \A j \in Orders : j # i => Same(c, d, j)
  BY <1>2, <1>5, <1>6 DEF Same, Chains
<1>9. /\ \A b \in Bidders : d.got[i][b] = c.got[i][b]
      /\ ByPlace(d, i) = ByPlace(c, i) /\ Winners(d) = Winners(c) /\ Served(d, i) = Served(c, i)
  <2>1. \A b \in Bidders : d.got[i][b] = c.got[i][b]
    BY <1>2, <1>6 DEF Chains, Holders
  <2>2. QED
    BY <1>2, <1>5, <2>1, ByPlaceSame DEF Winners, Served
<1>10. IsPrint(i) => PrintInv(d, i)
  <2> SUFFICES ASSUME IsPrint(i) PROVE PrintInv(d, i)
    OBVIOUS
  <2>1. PrintInv(c, i)
    BY <1>2 DEF BoxInv
  <2>2. \/ c.tracking[i].open /\ c.tracking[i].redeemed >= c.tracking[i].expected
        \/ \A k \in DOMAIN c.places : Amount(i, k) = 0
    <3>1. CASE c.tracking[i].open
      BY <3>1 DEF MayWithdraw
    <3>2. CASE ~c.tracking[i].open
      <4>1. c.uncancelled <= BidsAllowed(i) /\ Len(c.places) <= c.uncancelled
            /\ c.uncancelled \in Int /\ BidsAllowed(i) \in Nat
        BY <3>2, <1>2, BidsCounted, AllowedBids DEF MayWithdraw, Chains
      <4>2. \A k \in DOMAIN c.places : k \in 1..NumPlaces /\ k <= BidsAllowed(i)
        BY <1>2, <4>1, Places
      <4>3. QED
        BY <4>2, AllowedBids
    <3>3. QED
      BY <3>1, <3>2
  <2>3. /\ \A k \in DOMAIN d.places : d.got[i][d.places[k]] = Cardinality(d.taken[i] \cap Editions(i, k))
    <3>1. \A k \in DOMAIN c.places : c.places[k] \in Bidders
      BY <1>2 DEF Placed
    <3>2. QED
      BY <1>5, <1>9, <2>1, <3>1 DEF PrintInv
  <2>4. QED
    BY <1>5, <1>9, <2>1, <2>2, <2>3 DEF PrintInv
<1>11. IsParticipation(i) => ParticipationInv(d, i)
  <2> SUFFICES ASSUME IsParticipation(i) PROVE ParticipationInv(d, i)
    OBVIOUS
  <2>1. ParticipationInv(c, i)
    BY <1>2 DEF BoxInv
  <2>2. \/ c.uncancelled <= 0
        \/ c.tracking[i].open /\ c.tracking[i].redeemed >= c.tracking[i].expected
    BY <1>2, AllowedBids DEF MayWithdraw
  <2>3. QED
    BY <1>2, <1>5, <1>9, <2>1, <2>2 DEF ParticipationInv
<1>12. BoxInv(d, i)
  BY <1>2, <1>10, <1>11 DEF BoxInv
<1>13. ChainInv(d)
  BY <1>4, <1>7, <1>8, <1>12, ChainStep
<1>14. QED
  BY <1>1, <1>13

(* The copies of two places are not the same.                              *)
LEMMA EditionsApart ==
  ASSUME NEW i \in Orders, NEW k \in 1..NumPlaces, NEW l \in 1..NumPlaces, k # l
  PROVE  Editions(i, k) \cap Editions(i, l) = {}
<1> DEFINE s == Prizes[i].amounts
<1>1. NumPlaces \in Nat /\ s \in [1..NumPlaces -> Nat]
  BY PrizeTypes
<1> HIDE DEF s
<1>2. ASSUME NEW p \in 1..(NumPlaces + 1), NEW q \in 1..(NumPlaces + 1), p <= q
      PROVE  Before[i][p] <= Before[i][q]
  <2> DEFINE u == UpTo(s, NumPlaces, p - 1)
             v == UpTo(s, NumPlaces, q - 1)
  <2>1. /\ u \in [1..NumPlaces -> Nat] /\ v \in [1..NumPlaces -> Nat]
        /\ \A j \in 1..NumPlaces : u[j] <= v[j]
    BY <1>1, <1>2 DEF UpTo
  <2>2. Before[i][p] = Sum(u) /\ Before[i][q] = Sum(v)
    BY BeforeEach DEF s
  <2> HIDE DEF u, v
  <2>3. QED
    BY <1>1, <2>1, <2>2, SumNoLarger
<1>3. ASSUME NEW p \in 1..NumPlaces, NEW q \in 1..NumPlaces, p < q
      PROVE  Editions(i, p) \cap Editions(i, q) = {}
  <2> DEFINE a == Before[i][p]
             b == Before[i][q]
             m == Amount(i, p)
             n == Amount(i, q)
  <2>1. p \in 1..(NumPlaces + 1) /\ q \in 1..(NumPlaces + 1) /\ p + 1 \in 1..(NumPlaces + 1) /\ p + 1 <= q
    BY <1>1, <1>3
  <2>2. a \in Nat /\ b \in Nat /\ m \in Nat /\ n \in Nat /\ Before[i][p + 1] = a + m
    BY <2>1, BeforeEach, PrizeTypes
  <2>3. a + m <= b
    BY <1>2, <2>1, <2>2
  <2>4. Editions(i, p) = (a + 1)..(a + m) /\ Editions(i, q) = (b + 1)..(b + n)
    BY BeforeEach DEF Editions
  <2> HIDE DEF a, b, m, n
  <2>5. QED
    BY <2>2, <2>3, <2>4
<1>4. k < l \/ l < k
  OBVIOUS
<1>5. QED
  BY <1>3, <1>4

(* A print of a master, with the ticket saved and the mint used up.        *)
Printed(c, i, e, expected, b, tickets, mints) ==
  [c EXCEPT !.taken[i] = @ \union {e}, !.supply[i] = Larger(@, e),
            !.tracking[i] = Track(@, expected, c.supply[i]),
            !.got[i][b] = @ + 1, !.ticket = tickets, !.mints = mints]

(* What a print changes: one edition, one token, one more of what is       *)
(* expected.                                                               *)
LEMMA PrintedFields ==
  ASSUME NEW c, ChainInv(c), NEW i \in Orders, NEW e \in Nat, NEW expected \in Int, NEW b \in Bidders,
         NEW tickets \in [Bidders -> Tickets],
         NEW mints \in Mints
  PROVE  LET d == Printed(c, i, e, expected, b, tickets, mints)
         IN /\ d \in Chains
            /\ d.places = c.places /\ d.cancelled = c.cancelled /\ d.uncancelled = c.uncancelled
            /\ d.recorded = c.recorded /\ d.store = c.store /\ d.ticket = tickets
            /\ d.taken[i] = c.taken[i] \union {e}
            /\ d.tracking[i] = Track(c.tracking[i], expected, c.supply[i])
            /\ \A h \in Holders : d.got[i][h] = IF h = b THEN c.got[i][b] + 1 ELSE c.got[i][h]
            /\ \A j \in Orders : j # i => Same(c, d, j)
<1> DEFINE t == c.taken[i] \union {e}
           s == Larger(c.supply[i], e)
           r == Track(c.tracking[i], expected, c.supply[i])
           g == c.got[i][b] + 1
           d == [c EXCEPT !.taken[i] = t, !.supply[i] = s, !.tracking[i] = r,
                          !.got[i][b] = g, !.ticket = tickets, !.mints = mints]
<1>1. /\ c \in Chains /\ b \in Holders /\ c.taken[i] \subseteq Nat /\ c.supply[i] \in Nat
      /\ c.tracking[i] \in Trackings /\ c.got[i][b] \in Nat
  BY ChainTypes DEF Holders
<1>2. t \in SUBSET Nat /\ s \in Nat /\ g \in Nat
  BY <1>1 DEF Larger
<1>3. r \in Trackings
  BY <1>1 DEF Track, Trackings
<1>4. Printed(c, i, e, expected, b, tickets, mints) = d
  BY DEF Printed
<1> HIDE DEF t, s, r, g
<1>5. d \in Chains
  BY <1>1, <1>2, <1>3 DEF Chains
<1>6. /\ d.places = c.places /\ d.cancelled = c.cancelled /\ d.uncancelled = c.uncancelled
      /\ d.recorded = c.recorded /\ d.store = c.store /\ d.ticket = tickets
  BY <1>1 DEF Chains
<1>7. /\ d.taken = [c.taken EXCEPT ![i] = t] /\ d.supply = [c.supply EXCEPT ![i] = s]
      /\ d.tracking = [c.tracking EXCEPT ![i] = r]
      /\ d.got = [c.got EXCEPT ![i] = [c.got[i] EXCEPT ![b] = g]]
  BY <1>1 DEF Chains
<1> HIDE DEF d
<1>8. d.taken[i] = t /\ d.tracking[i] = r
  BY <1>1, <1>7 DEF Chains
<1>9. \A h \in Holders : d.got[i][h] = IF h = b THEN g ELSE c.got[i][h]
  BY <1>1, <1>7 DEF Chains
<1>10. \A j \in Orders : j # i => Same(c, d, j)
  BY <1>1, <1>6, <1>7 DEF Same, Chains
<1>11. QED
  BY <1>4, <1>5, <1>6, <1>8, <1>9, <1>10 DEF t, r, g

(* An edition is printed at most once, and each for the place it is of.    *)
LEMMA PrintKeeps ==
  ASSUME NEW c, ChainInv(c), NEW b \in Bidders, NEW i \in Orders, NEW k \in 1..NumPlaces,
         NEW n \in Nat, MayPrint(c, redeemPrintingV2Bid(b, i, k, n))
  PROVE  ChainInv(PrintEdition(c, redeemPrintingV2Bid(b, i, k, n)))
<1> DEFINE x == redeemPrintingV2Bid(b, i, k, n)
           expected == Before[i][Len(c.places) + 1]
           u == [c.ticket EXCEPT ![b] = Save(c.ticket[b], i, TRUE)]
           d == Printed(c, i, n, expected, b, u, c.mints)
<1>1. x.who = b /\ x.item = i /\ x.place = k /\ x.offset = n
  BY DEF redeemPrintingV2Bid
<1>2. /\ c \in Chains /\ Ended(c) /\ Placed(c) /\ BoxInv(c, i) /\ c.store[i] \in Nat
      /\ c.ticket \in [Bidders -> Tickets] /\ c.tracking[i] \in Trackings /\ c.supply[i] \in Nat
      /\ c.mints \in Mints
  <2>1. c \in Chains /\ Ended(c) /\ Placed(c) /\ BoxInv(c, i) /\ c.store[i] \in Nat
        /\ c.tracking[i] \in Trackings /\ c.supply[i] \in Nat
    BY ChainTypes
  <2>2. QED
    BY <2>1 DEF Chains
<1>3. /\ k \in DOMAIN c.places /\ c.places[k] = b /\ n \in Editions(i, k) /\ IsPrint(i)
      /\ c.store[i] > 0 /\ Snapshot(c, i) + n \notin c.taken[i]
  <2> HIDE DEF x
  <2>1. QED
    BY <1>1 DEF MayPrint, IsPlace, MayMint, Editions, x
<1>4. PrintInv(c, i)
  BY <1>2, <1>3 DEF BoxInv
<1>5. Snapshot(c, i) = 0 /\ n \notin c.taken[i]
  <2>1. Snapshot(c, i) = 0
    BY <1>4 DEF Snapshot, PrintInv
  <2>2. Snapshot(c, i) + n = n
    BY <2>1
  <2>3. QED
    BY <1>3, <2>1, <2>2
<1>6. expected \in Int
  <2>1. Len(c.places) + 1 \in 1..(NumPlaces + 1)
    BY <1>2, Places, PrizeTypes
  <2>2. QED
    BY <2>1, BeforeEach
<1>7. PrintEdition(c, x) = d
  <2>1. Snapshot(c, i) + n = n
    BY <1>5
  <2> DEFINE m == Mint(c, i, n, expected, b)
  <2>2. m.ticket = c.ticket /\ m.mints = c.mints
    BY <1>2 DEF Mint, Chains
  <2>3. PrintEdition(c, x) = [m EXCEPT !.ticket[b] = Save(@, i, TRUE)]
    BY <1>1, <2>1, Zenon DEF PrintEdition
  <2>4. [m EXCEPT !.ticket[b] = Save(@, i, TRUE)] = [m EXCEPT !.ticket = u]
    <3> HIDE DEF m
    <3>1. [m EXCEPT !.ticket[b] = Save(@, i, TRUE)]
            = [m EXCEPT !.ticket = [m.ticket EXCEPT ![b] = Save(m.ticket[b], i, TRUE)]]
      OBVIOUS
    <3>2. QED
      BY <2>2, <3>1
  <2>5. [m EXCEPT !.ticket = u] = d
    <3> DEFINE v == c.mints
    <3>1. v \in Mints /\ m.mints = v
      BY <1>2, <2>2
    <3>2. [m EXCEPT !.ticket = u, !.mints = v] = d
      <4> HIDE DEF u, v, expected, x
      <4>1. QED
        BY <1>2, <3>1 DEF Mint, Printed, Chains
    <3> HIDE DEF m, u, v
    <3>3. [m EXCEPT !.ticket = u, !.mints = v] = [m EXCEPT !.ticket = u]
      BY <3>1
    <3>4. QED
      BY <3>2, <3>3, Zenon
  <2>6. QED
    BY <2>3, <2>4, <2>5, Zenon
<1>8. b \in Winners(c)
  BY <1>2, <1>3, Places
<1>9. u \in [Bidders -> Tickets] /\ u = [c.ticket EXCEPT ![b] = Save(c.ticket[b], i, b \in Winners(c))]
  <2>1. (b \in Winners(c)) = TRUE
    BY <1>8
  <2>2. Save(c.ticket[b], i, TRUE) \in Tickets
    BY <1>2, SaveTypes
  <2>3. u \in [Bidders -> Tickets]
    BY <1>2, <2>2
  <2>4. QED
    BY <2>1, <2>3
<1> HIDE DEF u, expected
<1>10. /\ d \in Chains
       /\ d.places = c.places /\ d.cancelled = c.cancelled /\ d.uncancelled = c.uncancelled
       /\ d.recorded = c.recorded /\ d.store = c.store /\ d.ticket = u
       /\ d.taken[i] = c.taken[i] \union {n}
       /\ d.tracking[i] = Track(c.tracking[i], expected, c.supply[i])
       /\ \A h \in Holders : d.got[i][h] = IF h = b THEN c.got[i][b] + 1 ELSE c.got[i][h]
       /\ \A j \in Orders : j # i => Same(c, d, j)
  <2>1. u \in [Bidders -> Tickets]
    BY <1>9
  <2>2. QED
    BY <1>2, <1>6, <2>1, PrintedFields
<1> HIDE DEF d
<1>11. Later(c, d) /\ Ended(d)
  <2>1. d.ticket = [c.ticket EXCEPT ![b] = Save(c.ticket[b], i, b \in Winners(c))]
    BY <1>9, <1>10, Zenon
  <2>2. c.recorded => d.recorded /\ d.uncancelled = c.uncancelled
    BY <1>10
  <2>3. QED
    BY <1>10, <2>1, <2>2, TicketSaved, Zenon
<1>12. PrintInv(d, i)
  <2>1. Winners(d) = Winners(c) /\ b \in Holders /\ \A a \in Bidders : a \in Holders
    BY <1>10 DEF Winners, Holders
  <2>2. \A a \in Bidders \ Winners(d) : d.got[i][a] = 0
    BY <1>4, <1>8, <1>10, <2>1 DEF PrintInv
  <2>3. ASSUME NEW l \in DOMAIN d.places
        PROVE  d.got[i][d.places[l]] = Cardinality(d.taken[i] \cap Editions(i, l))
    <3> DEFINE T == c.taken[i] \cap Editions(i, l)
    <3>1. /\ l \in DOMAIN c.places /\ d.places[l] = c.places[l] /\ c.places[l] \in Holders
          /\ l \in 1..NumPlaces /\ c.got[i][c.places[l]] = Cardinality(T)
      <4>1. l \in DOMAIN c.places /\ d.places[l] = c.places[l]
        BY <1>10, <2>3
      <4>2. c.places[l] \in Holders
        BY <1>2, <4>1 DEF Placed, Holders
      <4>3. l \in 1..NumPlaces
        BY <1>2, <4>1, Places
      <4>4. QED
        BY <1>4, <4>1, <4>2, <4>3 DEF PrintInv
    <3>2. IsFiniteSet(T) /\ n \notin T
      <4>1. l \in 1..(NumPlaces + 1) /\ Amount(i, l) \in Nat
        BY <3>1, PrizeTypes
      <4>2. Before[i][l] \in Nat /\ Editions(i, l) = (Before[i][l] + 1)..(Before[i][l] + Amount(i, l))
        BY <3>1, <4>1, BeforeEach DEF Editions
      <4>3. IsFiniteSet(Editions(i, l))
        <5>1. Before[i][l] + 1 \in Int /\ Before[i][l] + Amount(i, l) \in Int
          BY <4>1, <4>2
        <5>2. QED
          BY <4>2, <5>1, FS_Interval
      <4>4. QED
        BY <1>5, <4>3, FS_Intersection
    <3>3. CASE l = k
      <4>1. d.taken[i] \cap Editions(i, l) = T \union {n}
        BY <1>3, <1>10, <3>3
      <4>2. d.got[i][d.places[l]] = Cardinality(T) + 1
        BY <1>3, <1>10, <2>1, <3>1, <3>3
      <4> HIDE DEF T
      <4>3. QED
        BY <3>2, <4>1, <4>2, FS_AddElement
    <3>4. CASE l # k
      <4>1. n \notin Editions(i, l)
        BY <1>3, <3>1, <3>4, EditionsApart
      <4>2. d.taken[i] \cap Editions(i, l) = T
        BY <1>10, <4>1
      <4>3. c.places[l] # b
        BY <1>2, <1>3, <3>1, <3>4 DEF Placed
      <4>4. QED
        BY <1>10, <3>1, <4>2, <4>3
    <3>5. QED
      BY <3>3, <3>4
  <2>4. Placed(d)
    BY <1>11 DEF Ended
  <2>5. Sum(ByPlace(d, i)) = Sum(ByPlace(c, i)) + 1 /\ Sum(ByPlace(c, i)) \in Nat
    <3> DEFINE p == Sum(ByPlace(d, i))
               q == Sum(ByPlace(c, i))
               g == c.got[i][b]
    <3>1. p \in Nat /\ q \in Nat
      BY <1>2, <1>10, <2>4, ByPlaceTypes
    <3>2. g \in Nat
      BY <2>1, ChainTypes
    <3>3. \A h \in Holders : h # c.places[k] => d.got[i][h] = c.got[i][h]
      BY <1>3, <1>10
    <3>4. p + c.got[i][c.places[k]] = q + d.got[i][c.places[k]]
      <4> HIDE DEF p, q
      <4>1. QED
        BY <1>2, <1>3, <1>10, <3>3, ByPlaceChanged DEF p, q
    <3>5. p + g = q + (g + 1)
      BY <1>3, <1>10, <2>1, <3>4
    <3> HIDE DEF p, q, g
    <3>6. p = q + 1
      BY <3>1, <3>2, <3>5
    <3>7. QED
      BY <3>1, <3>6 DEF p, q
  <2>6. /\ d.tracking[i].open /\ d.tracking[i].snapshot = 0
        /\ d.tracking[i].expected = Before[i][Len(d.places) + 1]
        /\ d.tracking[i].redeemed = Sum(ByPlace(d, i))
    <3>1. CASE c.tracking[i].open
      <4>1. d.tracking[i] = [c.tracking[i] EXCEPT !.redeemed = @ + 1]
        BY <1>10, <3>1 DEF Track
      <4>2. /\ d.tracking[i].open = c.tracking[i].open
            /\ d.tracking[i].snapshot = c.tracking[i].snapshot
            /\ d.tracking[i].expected = c.tracking[i].expected
            /\ d.tracking[i].redeemed = c.tracking[i].redeemed + 1
        BY <1>2, <4>1 DEF Trackings
      <4>3. QED
        BY <1>4, <1>10, <2>5, <3>1, <4>2 DEF PrintInv
    <3>2. CASE ~c.tracking[i].open
      <4>1. d.tracking[i] = [open |-> TRUE, expected |-> expected, redeemed |-> 1,
                             snapshot |-> c.supply[i]]
        BY <1>10, <3>2 DEF Track
      <4>2. c.supply[i] = 0 /\ Sum(ByPlace(c, i)) = 0
        BY <1>4, <3>2 DEF PrintInv
      <4>3. QED
        BY <1>10, <2>5, <4>1, <4>2 DEF expected
    <3>3. QED
      BY <3>1, <3>2
  <2>7. d.store[i] # 0
    BY <1>2, <1>3, <1>10
  <2>8. QED
    BY <2>2, <2>3, <2>6, <2>7 DEF PrintInv
<1>13. BoxInv(d, i)
  <2>1. i \in Masters /\ ~IsParticipation(i)
    BY <1>3 DEF Masters, IsPrint, IsParticipation
  <2>2. QED
    BY <1>12, <2>1 DEF BoxInv
<1>14. ChainInv(d)
  BY <1>10, <1>11, <1>13, ChainStep
<1>15. QED
  BY <1>7, <1>14, Zenon

(* A loser has its participation once: its ticket, never in the layout of  *)
(* a winner, says so.                                                      *)
LEMMA ParticipateKeeps ==
  ASSUME TicketsLast, NEW c, ChainInv(c), NEW h \in Holders, NEW b \in Bidders, NEW i \in Orders,
         MayParticipate(c, redeemParticipationBidV3(h, b, i))
  PROVE  ChainInv(Participate(c, redeemParticipationBidV3(h, b, i)))
<1> DEFINE x == redeemParticipationBidV3(h, b, i)
           e == c.supply[i] + 1
           expected == c.uncancelled - Len(c.places)
           u == [c.ticket EXCEPT ![b] = Save(c.ticket[b], i, FALSE)]
           m == [c.mints EXCEPT ![<<h, b>>] = "printed"]
           d == Printed(c, i, e, expected, b, u, m)
<1>1. x.by = h /\ x.who = b /\ x.item = i
  BY DEF redeemParticipationBidV3
<1>2. /\ c \in Chains /\ Ended(c) /\ Placed(c) /\ BoxInv(c, i) /\ c.store[i] \in Nat
      /\ c.ticket \in [Bidders -> Tickets] /\ c.tracking[i] \in Trackings /\ c.supply[i] \in Nat
      /\ m \in Mints
      /\ c.uncancelled \in Int /\ Len(c.places) \in Nat
  <2>1. c \in Chains /\ Ended(c) /\ Placed(c) /\ BoxInv(c, i) /\ c.store[i] \in Nat
        /\ c.tracking[i] \in Trackings /\ c.supply[i] \in Nat
    BY ChainTypes
  <2>2. c.ticket \in [Bidders -> Tickets] /\ c.uncancelled \in Int /\ Len(c.places) \in Nat
    BY <2>1 DEF Chains
  <2>3. c.mints \in Mints
    BY <2>1 DEF Chains
  <2>4. m \in Mints
    BY <2>3 DEF Mints
  <2>5. QED
    BY <2>1, <2>2, <2>4
<1>3. /\ c.recorded /\ IsParticipation(i) /\ c.store[i] > 0
      /\ Indexed(c, h) => h = b
      /\ ~Redeemed(c.ticket[b], i) /\ GetsParticipation(c, b)
  <2> HIDE DEF x
  <2>1. QED
    BY <1>1 DEF MayParticipate, MayMint, x
<1>4. ~Given.winners /\ ParticipationInv(c, i)
  BY <1>2, <1>3 DEF TicketsLast, BoxInv
<1>5. b \notin Winners(c)
  <2> SUFFICES ASSUME b \in Winners(c) PROVE FALSE
    OBVIOUS
  <2>1. PlaceOf(c, b) \in DOMAIN c.places /\ c.places[PlaceOf(c, b)] = b
    BY <1>2, Places
  <2>2. b \notin c.cancelled
    BY <1>2, <2>1 DEF Ended
  <2>3. QED
    BY <1>3, <1>4, <2>2 DEF GetsParticipation
<1>6. Indexed(c, h) = FALSE
  BY <1>3, <1>5 DEF Indexed
<1>7. Participations(c) = expected
  BY <1>4 DEF Participations
<1>8. e \in Nat /\ expected \in Int
  BY <1>2
<1>9. Participate(c, x) = d
  <2> DEFINE t == Mint(c, i, e, expected, b)
  <2>1. t.ticket = c.ticket /\ t.mints = c.mints
    BY <1>2 DEF Mint, Chains
  <2>2. Participate(c, x) = [t EXCEPT !.ticket[b] = Save(@, i, FALSE), !.mints[<<h, b>>] = "printed"]
    BY <1>1, <1>6, <1>7, Zenon DEF Participate
  <2>3. [t EXCEPT !.ticket[b] = Save(@, i, FALSE), !.mints[<<h, b>>] = "printed"]
          = [t EXCEPT !.ticket = u, !.mints = m]
    <3> HIDE DEF t
    <3>1. [t EXCEPT !.ticket[b] = Save(@, i, FALSE), !.mints[<<h, b>>] = "printed"]
            = [t EXCEPT !.ticket = [t.ticket EXCEPT ![b] = Save(t.ticket[b], i, FALSE)],
                        !.mints = [t.mints EXCEPT ![<<h, b>>] = "printed"]]
      OBVIOUS
    <3>2. QED
      BY <2>1, <3>1
  <2>4. [t EXCEPT !.ticket = u, !.mints = m] = d
    <3> HIDE DEF u, m, e, expected
    <3>1. QED
      BY <1>2 DEF Mint, Printed, Chains
  <2>5. QED
    BY <2>2, <2>3, <2>4, Zenon
<1>10. Save(c.ticket[b], i, FALSE) \in Tickets /\ Save(c.ticket[b], i, FALSE).low = c.ticket[b].low \union {i}
  BY <1>2, SaveTypes
<1>11. u \in [Bidders -> Tickets] /\ u[b].low = c.ticket[b].low \union {i}
       /\ \A a \in Bidders : a # b => u[a] = c.ticket[a]
  BY <1>2, <1>10
<1>12. u = [c.ticket EXCEPT ![b] = Save(c.ticket[b], i, b \in Winners(c))]
  <2>1. (b \in Winners(c)) = FALSE
    BY <1>5
  <2>2. QED
    BY <2>1
<1> HIDE DEF u, expected, e, m
<1>13. /\ d \in Chains
       /\ d.places = c.places /\ d.cancelled = c.cancelled /\ d.uncancelled = c.uncancelled
       /\ d.recorded = c.recorded /\ d.store = c.store /\ d.ticket = u
       /\ d.taken[i] = c.taken[i] \union {e}
       /\ d.tracking[i] = Track(c.tracking[i], expected, c.supply[i])
       /\ \A a \in Holders : d.got[i][a] = IF a = b THEN c.got[i][b] + 1 ELSE c.got[i][a]
       /\ \A j \in Orders : j # i => Same(c, d, j)
  <2>1. u \in [Bidders -> Tickets] /\ m \in Mints
    BY <1>2, <1>11
  <2>2. QED
    BY <1>8, <2>1, PrintedFields
<1> HIDE DEF d
<1>14. Later(c, d) /\ Ended(d)
  <2>1. d.ticket = [c.ticket EXCEPT ![b] = Save(c.ticket[b], i, b \in Winners(c))]
    BY <1>12, <1>13, Zenon
  <2>2. c.recorded => d.recorded /\ d.uncancelled = c.uncancelled
    BY <1>13
  <2>3. QED
    BY <1>13, <2>1, <2>2, TicketSaved, Zenon
<1>15. ParticipationInv(d, i)
  <2>1. Winners(d) = Winners(c) /\ b \in Holders /\ \A a \in Bidders : a \in Holders
    BY <1>13 DEF Winners, Holders
  <2>2. i \notin c.ticket[b].low
    BY <1>2, <1>3, <1>5 DEF Redeemed, Ended
  <2>3. c.got[i][b] = 0
    BY <1>4, <2>2 DEF ParticipationInv
  <2>4. \A a \in Bidders : d.got[i][a] = IF a = b THEN 1 ELSE c.got[i][a]
    BY <1>13, <2>1, <2>3
  <2>5. \A a \in Bidders : \/ d.got[i][a] = 0
                           \/ d.got[i][a] = 1 /\ a \notin Winners(d) /\ i \in d.ticket[a].low
    BY <1>4, <1>5, <1>11, <1>13, <2>1, <2>4 DEF ParticipationInv
  <2>6. Cardinality(Served(d, i)) = Cardinality(Served(c, i)) + 1 /\ Cardinality(Served(c, i)) \in Nat
    <3> DEFINE S == Served(c, i)
    <3>1. Served(d, i) = S \union {b} /\ b \notin S
      BY <2>3, <2>4 DEF Served
    <3>2. IsFiniteSet(S)
      <4>1. S \in SUBSET Bidders
        BY DEF Served
      <4>2. QED
        BY <4>1, PrizeTypes, FS_Subset
    <3> HIDE DEF S
    <3>3. QED
      BY <3>1, <3>2, FS_AddElement, FS_CardinalityType DEF S
  <2>7. /\ d.tracking[i].open /\ d.recorded
        /\ d.tracking[i].expected = d.uncancelled - Len(d.places)
        /\ d.tracking[i].redeemed = Cardinality(Served(d, i))
    <3>1. CASE c.tracking[i].open
      <4>1. d.tracking[i] = [c.tracking[i] EXCEPT !.redeemed = @ + 1]
        BY <1>13, <3>1 DEF Track
      <4>2. /\ d.tracking[i].open = c.tracking[i].open
            /\ d.tracking[i].expected = c.tracking[i].expected
            /\ d.tracking[i].redeemed = c.tracking[i].redeemed + 1
        BY <1>2, <4>1 DEF Trackings
      <4>3. QED
        BY <1>3, <1>4, <1>13, <2>6, <3>1, <4>2 DEF ParticipationInv
    <3>2. CASE ~c.tracking[i].open
      <4>1. d.tracking[i] = [open |-> TRUE, expected |-> expected, redeemed |-> 1,
                             snapshot |-> c.supply[i]]
        BY <1>13, <3>2 DEF Track
      <4>2. Cardinality(Served(c, i)) = 0
        BY <1>4, <3>2 DEF ParticipationInv
      <4>3. QED
        BY <1>3, <1>13, <2>6, <4>1, <4>2 DEF expected
    <3>3. QED
      BY <3>1, <3>2
  <2>8. d.store[i] # 0
    BY <1>2, <1>3, <1>13
  <2>9. QED
    BY <2>5, <2>7, <2>8 DEF ParticipationInv
<1>16. BoxInv(d, i)
  <2>1. i \in Masters /\ ~IsPrint(i)
    BY <1>3 DEF Masters, IsPrint, IsParticipation
  <2>2. QED
    BY <1>15, <2>1 DEF BoxInv
<1>17. ChainInv(d)
  BY <1>13, <1>14, <1>16, ChainStep
<1>18. QED
  BY <1>9, <1>17, Zenon

(* Any instruction of a page that is allowed.                              *)
LEMMA InstructionKeeps ==
  ASSUME TicketsLast, NEW c, ChainInv(c), NEW x \in Instructions, Allowed(c, x)
  PROVE  ChainInv(Do(c, x))
<1>0. c.mints \in Mints /\ c \in Chains
  BY DEF ChainInv, Chains
<1>1. CASE x = setupPlaceBid
  <2>1. ~c.recorded /\ Do(c, x) = [c EXCEPT !.recorded = TRUE]
    BY <1>1 DEF setupPlaceBid, Allowed, Do
  <2>2. QED
    BY <2>1, EndBidKeeps
<1>2. ASSUME NEW b \in Bidders, x = claimBid(b) PROVE ChainInv(Do(c, x))
  <2>1. Do(c, x) = Claim(c, b)
    BY <1>2 DEF claimBid, Do
  <2>2. QED
    BY <2>1, ClaimKeeps
<1>3. ASSUME NEW b \in Bidders, x = cancelBid(b) PROVE ChainInv(Do(c, x))
  <2>1. b \notin Winners(c) /\ Do(c, x) = Cancel(c, b)
    BY <1>3 DEF cancelBid, MayCancel, Allowed, Do
  <2>2. QED
    BY <2>1, CancelKeeps
<1>4. ASSUME NEW b \in Bidders, NEW i \in Orders, x = redeemBid(b, i) PROVE ChainInv(Do(c, x))
  <2>1. MayRedeem(c, b, i) /\ Do(c, x) = Redeem(c, b, i)
    BY <1>4 DEF redeemBid, Allowed, Do
  <2>2. QED
    BY <2>1, RedeemKeeps
<1>5. ASSUME NEW k \in 1..NumPlaces, NEW i \in Orders, x = redeemUnused(k, i)
      PROVE  ChainInv(Do(c, x))
  <2>1. MayRedeemUnused(c, k, i) /\ Do(c, x) = RedeemUnused(c, k, i)
    BY <1>5 DEF redeemUnused, Allowed, Do
  <2>2. QED
    BY <2>1, UnusedKeeps
<1>6. ASSUME NEW b \in Bidders, NEW i \in Orders, NEW k \in 1..NumPlaces, NEW n \in Nat,
             x = redeemPrintingV2Bid(b, i, k, n)
      PROVE  ChainInv(Do(c, x))
  <2>1. x.ix = "print"
    BY <1>6 DEF redeemPrintingV2Bid
  <2>2. MayPrint(c, x) /\ Do(c, x) = PrintEdition(c, x)
    BY <2>1 DEF Allowed, Do
  <2>3. QED
    BY <1>6, <2>2, PrintKeeps
<1>7. ASSUME NEW h \in Holders, NEW b \in Bidders, x = createMintAndAccountWithOne(h, b)
      PROVE  ChainInv(Do(c, x))
  <2> DEFINE m == [c.mints EXCEPT ![<<h, b>>] = "blank"]
  <2>1. Do(c, x) = [c EXCEPT !.mints[<<h, b>>] = "blank"]
    BY <1>7 DEF createMintAndAccountWithOne, Do
  <2>2. [c EXCEPT !.mints[<<h, b>>] = "blank"] = [c EXCEPT !.mints = m]
    BY <1>0 DEF Chains
  <2>3. m \in Mints
    BY <1>0 DEF Mints
  <2>4. Do(c, x) = [c EXCEPT !.mints = m]
    BY <2>1, <2>2, Zenon
  <2> HIDE DEF m
  <2>5. QED
    BY <2>3, <2>4, MintsKeep, Zenon
<1>8. ASSUME NEW h \in Holders, NEW b \in Bidders, NEW i \in Orders,
             x = redeemParticipationBidV3(h, b, i)
      PROVE  ChainInv(Do(c, x))
  <2>1. x.ix = "participate"
    BY <1>8 DEF redeemParticipationBidV3
  <2>2. MayParticipate(c, x) /\ Do(c, x) = Participate(c, x)
    BY <2>1 DEF Allowed, Do
  <2>3. QED
    BY <1>8, <2>2, ParticipateKeeps
<1>9. ASSUME NEW h \in Holders, NEW b \in Bidders, x = updatePrimarySaleHappenedViaToken(h, b)
      PROVE  ChainInv(Do(c, x))
  BY <1>9 DEF updatePrimarySaleHappenedViaToken, Do
<1>10. ASSUME NEW i \in Orders, x = withdrawMasterEdition(i) PROVE ChainInv(Do(c, x))
  <2>1. MayWithdraw(c, i) /\ Do(c, x) = Withdraw(c, i)
    BY <1>10 DEF withdrawMasterEdition, Allowed, Do
  <2>2. QED
    BY <2>1, WithdrawKeeps
<1>11. \/ x = setupPlaceBid
       \/ \E b \in Bidders : x = claimBid(b)
       \/ \E b \in Bidders : x = cancelBid(b)
       \/ \E b \in Bidders, i \in Orders : x = redeemBid(b, i)
       \/ \E k \in 1..NumPlaces, i \in Orders : x = redeemUnused(k, i)
       \/ \E b \in Bidders, i \in Orders, k \in 1..NumPlaces, n \in Nat :
            x = redeemPrintingV2Bid(b, i, k, n)
       \/ \E h \in Holders, b \in Bidders : x = createMintAndAccountWithOne(h, b)
       \/ \E h \in Holders, b \in Bidders, i \in Orders : x = redeemParticipationBidV3(h, b, i)
       \/ \E h \in Holders, b \in Bidders : x = updatePrimarySaleHappenedViaToken(h, b)
       \/ \E i \in Orders : x = withdrawMasterEdition(i)
  BY DEF Instructions
<1>12. QED
  BY <1>1, <1>2, <1>3, <1>4, <1>5, <1>6, <1>7, <1>8, <1>9, <1>10, <1>11, Zenon

-----------------------------------------------------------------------------
(* The invariant                                                           *)

SettlementInv ==
  /\ ChainInv(chain)
  /\ DOMAIN tab = Holders /\ \A w \in Holders : TabInv(tab[w])

(* How the chain is when the auction has ended and nobody has asked for    *)
(* anything.                                                               *)
LEMMA GenesisInv ==
  ASSUME NEW r \in Results
  PROVE  ChainInv(Genesis(r))
<1> DEFINE c == Genesis(r)
<1>1. /\ r.gone \subseteq Bidders /\ r.places \in Seq(Bidders \ r.gone)
      /\ Len(r.places) <= NumPlaces
      /\ \A k, l \in DOMAIN r.places : r.places[k] = r.places[l] => k = l
  BY ResultAssumption
<1>2. IsFiniteSet(Bidders \ r.gone) /\ Cardinality(Bidders \ r.gone) \in Nat
  BY PrizeTypes, FS_Difference, FS_CardinalityType
<1>3. \A i \in Orders : InStore(i) \in Nat
  BY PrizeTypes, BeforeEach DEF InStore
<1>4. r.places \in Seq(Bidders) /\ \A k \in DOMAIN r.places : r.places[k] \in Bidders \ r.gone
  BY <1>1
<1>5. /\ c.places = r.places /\ c.uncancelled = Cardinality(Bidders \ r.gone)
      /\ c.cancelled = r.gone /\ c.pots = Bidders \ r.gone /\ c.claimed = 0
      /\ c.recorded = FALSE
      /\ c.store = [i \in Orders |-> InStore(i)]
      /\ c.got = [i \in Orders |-> [h \in Holders |-> 0]]
      /\ c.ticket = [b \in Bidders |-> NoTicket]
      /\ c.tracking = [i \in Orders |-> NoTracking]
      /\ c.taken = [i \in Orders |-> {}]
      /\ c.supply = [i \in Orders |-> 0]
      /\ c.mints = [m \in Holders \X Bidders |-> "none"]
  BY DEF Genesis
<1>6. c \in Chains
  <2>1. NoTicket \in Tickets /\ NoTracking \in Trackings
    BY DEF NoTicket, Tickets, NoTracking, Trackings
  <2>2. [m \in Holders \X Bidders |-> "none"] \in Mints
    BY DEF Mints
  <2>3. /\ [i \in Orders |-> InStore(i)] \in [Orders -> Nat]
        /\ [i \in Orders |-> [h \in Holders |-> 0]] \in [Orders -> [Holders -> Nat]]
        /\ [b \in Bidders |-> NoTicket] \in [Bidders -> Tickets]
        /\ [i \in Orders |-> NoTracking] \in [Orders -> Trackings]
        /\ [i \in Orders |-> {}] \in [Orders -> SUBSET Nat]
        /\ [i \in Orders |-> 0] \in [Orders -> Nat]
    BY <1>3, <2>1
  <2>4. /\ r.places \in Seq(Bidders) /\ Cardinality(Bidders \ r.gone) \in Int
        /\ r.gone \in SUBSET Bidders /\ Bidders \ r.gone \in SUBSET Bidders
    BY <1>1, <1>2, <1>4
  <2>5. QED
    BY <2>2, <2>3, <2>4 DEF Genesis, Chains
<1> HIDE DEF c
<1>7. Placed(c)
  BY <1>1, <1>4, <1>5 DEF Placed
<1>8. Ended(c)
  BY <1>2, <1>4, <1>5, <1>7 DEF Ended, NoTicket
<1>9. ASSUME NEW i \in Orders PROVE BoxInv(c, i)
  <2>1. /\ \A h \in Holders : c.got[i][h] = 0
        /\ c.store[i] = InStore(i) /\ InStore(i) \in Nat /\ c.taken[i] = {} /\ c.supply[i] = 0
        /\ c.tracking[i].open = FALSE /\ c.tracking[i].redeemed = 0
    BY <1>3, <1>5 DEF NoTracking
  <2>2. \A b \in Bidders : b \in Holders
    BY DEF Holders
  <2>3. ByPlace(c, i) \in [1..NumPlaces -> Nat] /\ \A k \in 1..NumPlaces : ByPlace(c, i)[k] = 0
    <3>1. ByPlace(c, i) \in [1..NumPlaces -> Nat]
      BY <1>6, <1>7, ByPlaceTypes
    <3>2. QED
      BY <1>4, <1>5, <2>1, <2>2, <3>1 DEF ByPlace
  <2>4. Sum(ByPlace(c, i)) = 0
    BY <2>3, PrizeTypes, SumOfNaturals
  <2>5. i \notin Masters => TransferInv(c, i)
    <3>1. c.got[i][Seller] = 0
      BY <2>1 DEF Holders
    <3>2. \A b \in Bidders : c.got[i][b] = 0
      BY <2>1, <2>2
    <3>3. \A k \in DOMAIN c.places : c.got[i][c.places[k]] = 0
      BY <3>2, <1>4, <1>5
    <3>4. QED
      BY <2>1, <2>4, <3>1, <3>2, <3>3 DEF TransferInv
  <2>6. IsPrint(i) => PrintInv(c, i)
    <3>1. \A k : Cardinality(c.taken[i] \cap Editions(i, k)) = 0
      BY <2>1, FS_EmptySet
    <3>2. \A k \in DOMAIN c.places : c.got[i][c.places[k]] = 0
      BY <2>1, <2>2, <1>4, <1>5
    <3>3. IsPrint(i) => c.store[i] = 1
      BY <2>1 DEF InStore, Masters
    <3>4. QED
      BY <2>1, <2>2, <2>4, <3>1, <3>2, <3>3 DEF PrintInv
  <2>7. IsParticipation(i) => ParticipationInv(c, i)
    <3>1. Served(c, i) = {}
      BY <2>1, <2>2 DEF Served
    <3>2. IsParticipation(i) => c.store[i] = 1
      BY <2>1 DEF InStore, Masters
    <3>3. QED
      BY <2>1, <2>2, <3>1, <3>2, FS_EmptySet DEF ParticipationInv
  <2>8. QED
    BY <2>5, <2>6, <2>7 DEF BoxInv
<1>10. QED
  BY <1>6, <1>8, <1>9 DEF ChainInv, c

(* The invariant holds at first.                                           *)
LEMMA InitInv == Init => SettlementInv
<1> SUFFICES ASSUME Init PROVE SettlementInv
  OBVIOUS
<1>1. ChainInv(chain)
  BY GenesisInv DEF Init
<1>2. QED
  BY <1>1, OnwardTab DEF Init, SettlementInv

(* Pressing the button writes fresh mints.                                 *)
LEMMA FreshMints ==
  ASSUME NEW m \in Mints, NEW w
  PROVE  [p \in DOMAIN m |-> IF p[1] = w THEN "none" ELSE m[p]] \in Mints
BY DEF Mints

(* What a page's tab becomes, the chain apart.                             *)
LEMMA TabSet ==
  ASSUME SettlementInv, NEW w \in Holders, NEW b, TabInv(b), tab' = [tab EXCEPT ![w] = b]
  PROVE  DOMAIN tab' = Holders /\ \A v \in Holders : TabInv(tab'[v])
BY DEF SettlementInv

(* Every step of every page keeps it: what lands is allowed, and what is   *)
(* lost or refused changes only the tab.                                   *)
LEMMA NextInv == TicketsLast /\ SettlementInv /\ [Next]_vars => SettlementInv'
<1> SUFFICES ASSUME TicketsLast, SettlementInv, [Next]_vars PROVE SettlementInv'
  OBVIOUS
<1>1. ASSUME NEW w \in Holders, Press(w) PROVE SettlementInv'
  <2> DEFINE l == list(chain, w)
             m == [p \in DOMAIN chain.mints |-> IF p[1] = w THEN "none" ELSE chain.mints[p]]
             then == IF eligibleForAnything(chain, w) THEN "retry" ELSE "once"
             b == [NextRound(Start(l, "once")) EXCEPT !.pc = "sending", !.then = then]
  <2>1. ChainInv(chain) /\ chain \in Chains /\ Placed(chain)
    BY DEF SettlementInv, ChainInv, Ended
  <2>2. chain' = [chain EXCEPT !.mints = m] /\ m \in Mints
    <3>1. chain.mints \in Mints
      BY <2>1 DEF Chains
    <3>2. m \in Mints
      BY <3>1, FreshMints
    <3>3. chain' = [chain EXCEPT !.mints = m]
      BY <1>1 DEF Press
    <3>4. QED
      BY <3>2, <3>3
  <2>3. l \in Seq(Instructions) /\ l # <<>> /\ then \in {"once", "retry"}
    BY <1>1, <2>1, ListsAreTyped DEF Press
  <2>4. tab' = [tab EXCEPT ![w] = b]
    BY <1>1 DEF Press, Set
  <2> HIDE DEF m, l, then
  <2>5. ChainInv(chain')
    BY <2>1, <2>2, MintsKeep
  <2>6. TabInv(b)
    BY <2>3, OnwardTab
  <2> HIDE DEF b
  <2>7. QED
    BY <2>4, <2>5, <2>6, TabSet DEF SettlementInv
<1>2. ASSUME NEW w \in Holders, Failed(w), tab[w].pc = "sending", UNCHANGED chain
      PROVE  SettlementInv'
  <2> DEFINE b == IF Len(tab[w].todo) = 1 THEN AfterException(tab[w]) ELSE AfterFailure(tab[w])
  <2>1. TabInv(tab[w]) /\ ChainInv(chain)
    BY DEF SettlementInv
  <2>2. TabInv(b)
    BY <1>2, <2>1, AfterTab
  <2>3. tab' = [tab EXCEPT ![w] = Onward(b)]
    BY <1>2 DEF Failed, Set
  <2> HIDE DEF b
  <2>4. TabInv(Onward(b))
    BY <2>2, OnwardTab
  <2>5. QED
    BY <1>2, <2>1, <2>3, <2>4, TabSet DEF SettlementInv
<1>3. ASSUME NEW w \in Holders, Lands(w) PROVE SettlementInv'
  <2>1. TabInv(tab[w]) /\ ChainInv(chain) /\ tab[w].pc = "sending"
    BY <1>3 DEF SettlementInv, Lands
  <2>2. Current(tab[w]) \in Instructions
    <3>1. tab[w].todo \in Seq(Instructions) /\ tab[w].at \in 1..Len(tab[w].todo)
      BY <2>1 DEF TabInv, InList, Tab
    <3>2. QED
      BY <3>1 DEF Current
  <2>3. ChainInv(chain')
    <3>1. Allowed(chain, Current(tab[w])) /\ chain' = Do(chain, Current(tab[w]))
      BY <1>3 DEF Lands
    <3>2. ChainInv(Do(chain, Current(tab[w])))
      BY <2>1, <2>2, <3>1, InstructionKeeps
    <3>3. QED
      BY <3>1, <3>2, Zenon
  <2>4. TabInv(Onward(After(tab[w]))) /\ tab' = [tab EXCEPT ![w] = Onward(After(tab[w]))]
    BY <1>3, <2>1, AfterTab, OnwardTab DEF Lands, Set
  <2>5. QED
    BY <2>3, <2>4, TabSet DEF SettlementInv
<1>4. ASSUME NEW w \in Holders, Refused(w) \/ Lost(w) PROVE SettlementInv'
  BY <1>2, <1>4 DEF Refused, Lost
<1>5. ASSUME UNCHANGED vars PROVE SettlementInv'
  BY <1>5 DEF vars, SettlementInv
<1>6. QED
  BY <1>1, <1>3, <1>4, <1>5 DEF Next, Sender

-----------------------------------------------------------------------------
(* Who gets what                                                           *)

(* The share of a bidder is what its place is given, and nothing without   *)
(* a place.                                                                *)
LEMMA Shares ==
  ASSUME ChainInv(chain), NEW i \in Orders
  PROVE  /\ \A k \in DOMAIN chain.places : ShareOf(i, chain.places[k]) = Amount(i, k)
         /\ \A b \in Bidders \ Winners(chain) : ShareOf(i, b) = 0
<1> DEFINE Share(h) == [k \in 1..NumPlaces |-> IF IsPlace(chain, h, k) THEN Amount(i, k) ELSE 0]
           none == [k \in 1..NumPlaces |-> 0]
<1>1. /\ Placed(chain) /\ NumPlaces \in Nat /\ \A k \in 1..NumPlaces : Amount(i, k) \in Nat
      /\ DOMAIN chain.places \subseteq 1..NumPlaces
      /\ \A k \in DOMAIN chain.places : chain.places[k] \in Winners(chain)
  BY PrizeTypes, Places DEF ChainInv, Ended
<1>2. \A b \in Bidders : ShareOf(i, b) = Sum(Share(b)) /\ Share(b) \in [1..NumPlaces -> Nat]
  BY <1>1, PrizeTypes DEF ShareOf
<1>3. ASSUME NEW k \in DOMAIN chain.places PROVE ShareOf(i, chain.places[k]) = Amount(i, k)
  <2> DEFINE b == chain.places[k]
             s == Share(b)
  <2>1. b \in Bidders /\ k \in 1..NumPlaces
    BY <1>1, Places DEF Placed
  <2>2. s[k] = Amount(i, k) /\ \A j \in 1..NumPlaces : j # k => s[j] = none[j]
    BY <1>1, <2>1 DEF IsPlace, Placed
  <2>3. s \in [1..NumPlaces -> Nat] /\ ShareOf(i, b) = Sum(s)
    BY <1>2, <2>1
  <2>4. none \in [1..NumPlaces -> Nat] /\ none[k] = 0 /\ Sum(none) = 0
    <3>1. none \in [1..NumPlaces -> Nat] /\ \A j \in 1..NumPlaces : none[j] = 0
      OBVIOUS
    <3> HIDE DEF none
    <3>2. QED
      BY <1>1, <2>1, <3>1, SumOfNaturals
  <2> HIDE DEF s, none, Share
  <2>5. Sum(s) + none[k] = Sum(none) + s[k]
    BY <1>1, <2>1, <2>2, <2>3, <2>4, SumOneChanged
  <2>6. Sum(s) \in Nat /\ s[k] \in Nat
    BY <1>1, <2>1, <2>3, SumOfNaturals
  <2>7. QED
    BY <2>2, <2>3, <2>4, <2>5, <2>6
<1>4. ASSUME NEW b \in Bidders \ Winners(chain) PROVE ShareOf(i, b) = 0
  <2>1. \A k \in 1..NumPlaces : Share(b)[k] = 0
    BY <1>1 DEF IsPlace
  <2>2. Share(b) \in [1..NumPlaces -> Nat] /\ ShareOf(i, b) = Sum(Share(b))
    BY <1>2
  <2> HIDE DEF Share
  <2>3. QED
    BY <1>1, <2>1, <2>2, SumOfNaturals
<1>5. QED
  BY <1>3, <1>4

(* Every bidder is at a place or at none.                                  *)
LEMMA AtPlaceOrNot ==
  ASSUME NEW c, Placed(c), NEW b \in Bidders
  PROVE  b \notin Winners(c) \/ \E k \in DOMAIN c.places : b = c.places[k]
BY Places

(* It has PrizesByPlace in it, the shares worked out.                      *)
LEMMA PrizesFromInv == SettlementInv => PrizesByPlace
<1> SUFFICES ASSUME SettlementInv, NEW i \in Transfers
             PROVE  /\ \A b \in Bidders : chain.got[i][b] <= ShareOf(i, b)
                    /\ DOMAIN chain.places = 1..NumPlaces => chain.got[i][Seller] = 0
                    /\ chain.store[i] + Sum([k \in 1..NumPlaces |-> GivenFor(i, k)])
                         + chain.got[i][Seller] = InStore(i)
  BY DEF PrizesByPlace
<1>1. ChainInv(chain) /\ i \in Orders /\ i \notin Masters
  BY DEF SettlementInv, Transfers
<1>2. Placed(chain) /\ TransferInv(chain, i) /\ \A h \in Holders : chain.got[i][h] \in Nat
  BY <1>1, ChainTypes DEF BoxInv
<1>3. ASSUME NEW b \in Bidders PROVE chain.got[i][b] <= ShareOf(i, b)
  <2>1. CASE b \notin Winners(chain)
    BY <1>1, <1>2, <2>1, Shares DEF TransferInv
  <2>2. ASSUME NEW k \in DOMAIN chain.places, b = chain.places[k]
        PROVE  chain.got[i][b] <= ShareOf(i, b)
    <3>1. ShareOf(i, b) = Amount(i, k) /\ Amount(i, k) \in Nat
      BY <1>1, <1>2, <2>2, Shares, PrizeTypes, Places
    <3>2. chain.got[i][b] = 0 \/ chain.got[i][b] = Amount(i, k)
      BY <1>2, <2>2 DEF TransferInv
    <3>3. QED
      BY <3>1, <3>2
  <2>3. QED
    BY <1>2, <2>1, <2>2, AtPlaceOrNot
<1>4. [k \in 1..NumPlaces |-> GivenFor(i, k)] = ByPlace(chain, i)
  BY DEF GivenFor, ByPlace
<1>5. QED
  BY <1>2, <1>3, <1>4 DEF TransferInv

(* PrizesByPlace: however the senders of the winners, the losers and the   *)
(* seller interleave, fail and go on, a bidder is given what its place is  *)
(* and no more, the seller nothing of an auction all of whose places were  *)
(* won, and no token is made or lost.                                      *)
THEOREM PrizesGoByPlace ==
  ASSUME TicketsLast
  PROVE  Spec => []PrizesByPlace
<1>1. SettlementInv /\ [Next]_vars => SettlementInv'
  BY NextInv
<1>2. QED
  BY InitInv, <1>1, PrizesFromInv, PTL DEF Spec

(* It bounds what a winner and a loser are given.                          *)
LEMMA OnceFromInv == SettlementInv => OncePerMint
<1> SUFFICES ASSUME SettlementInv, NEW b \in Bidders, NEW i \in Orders, ~IsPrint(i)
             PROVE  chain.got[i][b] <= IF IsParticipation(i) THEN 1 ELSE ShareOf(i, b)
  BY DEF OncePerMint
<1>1. ChainInv(chain) /\ BoxInv(chain, i)
  BY ChainTypes DEF SettlementInv
<1>2. CASE IsParticipation(i)
  BY <1>1, <1>2 DEF BoxInv, ParticipationInv
<1>3. CASE ~IsParticipation(i)
  BY <1>3, PrizesFromInv DEF PrizesByPlace, Transfers, Masters
<1>4. QED
  BY <1>2, <1>3

(* OncePerMint: what metaplex's state.rs promises of its tickets is kept   *)
(* by every auction that gives its participations to the losers alone.     *)
THEOREM TicketsAreKept ==
  ASSUME TicketsLast
  PROVE  Spec => []OncePerMint
<1>1. SettlementInv /\ [Next]_vars => SettlementInv'
  BY NextInv
<1>2. QED
  BY InitInv, <1>1, OnceFromInv, PTL DEF Spec

(* As many prints as were expected are all the prints of every place.      *)
LEMMA AllPrinted ==
  ASSUME ChainInv(chain), NEW i \in Orders, IsPrint(i), chain.store[i] = 0,
         NEW k \in DOMAIN chain.places
  PROVE  chain.got[i][chain.places[k]] = Amount(i, k)
<1> DEFINE n == Len(chain.places)
           s == ByPlace(chain, i)
           t == UpTo(Prizes[i].amounts, NumPlaces, n)
<1>1. /\ chain \in Chains /\ Placed(chain) /\ PrintInv(chain, i)
      /\ \A h \in Holders : chain.got[i][h] \in Nat
      /\ chain.tracking[i] \in Trackings
  BY ChainTypes DEF BoxInv
<1>2. /\ NumPlaces \in Nat /\ n \in 0..NumPlaces /\ DOMAIN chain.places = 1..n
      /\ \A j \in 1..NumPlaces : Amount(i, j) \in Nat /\ Prizes[i].amounts[j] = Amount(i, j)
      /\ k \in 1..NumPlaces
  BY <1>1, PrizeTypes, Places DEF Amount
<1>3. s \in [1..NumPlaces -> Nat] /\ Sum(s) \in Nat
  BY <1>1, ByPlaceTypes
<1>4. t \in [1..NumPlaces -> Nat] /\ Sum(t) = Before[i][n + 1] /\ Sum(t) \in Nat
  <2>1. t \in [1..NumPlaces -> Nat]
    BY <1>2 DEF UpTo
  <2>2. n + 1 \in 1..(NumPlaces + 1) /\ (n + 1) - 1 = n
    BY <1>2
  <2>3. Before[i][n + 1] = Sum(UpTo(Prizes[i].amounts, NumPlaces, (n + 1) - 1))
    BY <2>2, BeforeEach
  <2>4. Sum(t) = Before[i][n + 1]
    BY <2>2, <2>3
  <2> HIDE DEF t
  <2>5. QED
    BY <1>2, <2>1, <2>4, SumOfNaturals
<1>5. ASSUME NEW j \in 1..NumPlaces PROVE s[j] <= t[j]
  <2>1. CASE j \in DOMAIN chain.places
    <3>1. s[j] = Cardinality(chain.taken[i] \cap Editions(i, j))
      BY <1>1, <2>1 DEF ByPlace, PrintInv
    <3>5. t[j] = Amount(i, j)
      BY <1>2, <2>1 DEF UpTo
    <3>2. IsFiniteSet(Editions(i, j)) /\ Cardinality(Editions(i, j)) = Amount(i, j)
      <4> DEFINE a == Before[i][j]
                 m == Amount(i, j)
      <4>1. Editions(i, j) = (a + 1)..(a + m) /\ a \in Nat /\ m \in Nat
        BY <1>2, BeforeEach DEF Editions
      <4> HIDE DEF a, m
      <4>2. a + 1 \in Int /\ a + m \in Int
        BY <4>1
      <4>3. /\ IsFiniteSet((a + 1)..(a + m))
            /\ Cardinality((a + 1)..(a + m))
                 = IF a + 1 > a + m THEN 0 ELSE (a + m) - (a + 1) + 1
        BY <4>2, FS_Interval
      <4>4. (IF a + 1 > a + m THEN 0 ELSE (a + m) - (a + 1) + 1) = m
        BY <4>1
      <4>5. QED
        BY <4>1, <4>3, <4>4 DEF m
    <3>3. Cardinality(chain.taken[i] \cap Editions(i, j)) <= Cardinality(Editions(i, j))
      BY <3>2, FS_Subset
    <3>4. QED
      BY <3>1, <3>2, <3>3, <3>5
  <2>2. CASE j \notin DOMAIN chain.places
    BY <1>2, <1>4, <2>2 DEF ByPlace, UpTo
  <2>3. QED
    BY <2>1, <2>2
<1>6. s[k] = chain.got[i][chain.places[k]] /\ t[k] = Amount(i, k)
  BY <1>2 DEF ByPlace, UpTo
<1>7. CASE Sum(t) <= Sum(s)
  <2> HIDE DEF s, t
  <2>1. s[k] = t[k]
    BY <1>2, <1>3, <1>4, <1>5, <1>7, SumNoLarger
  <2>2. QED
    BY <1>6, <2>1
<1>8. CASE \A j \in DOMAIN chain.places : Amount(i, j) = 0
  <2>1. s[k] <= 0 /\ s[k] \in Nat
    BY <1>2, <1>3, <1>5, <1>6, <1>8
  <2> HIDE DEF s, t
  <2>2. QED
    BY <1>6, <1>8, <2>1
<1>9. \/ \A j \in DOMAIN chain.places : Amount(i, j) = 0
      \/ Sum(t) <= Sum(s)
  <2>1. \/ \A j \in DOMAIN chain.places : Amount(i, j) = 0
        \/ Sum(s) >= Before[i][n + 1]
    BY <1>1 DEF PrintInv
  <2> HIDE DEF s, t
  <2>2. QED
    BY <1>3, <1>4, <2>1
<1>10. QED
  BY <1>7, <1>8, <1>9

(* When no bid was cancelled while the auction ran, as many participations *)
(* as were expected are those of all the losers.                           *)
LEMMA AllServed ==
  ASSUME ChainInv(chain), NEW i \in Orders, IsParticipation(i), chain.store[i] = 0,
         chain.uncancelled = Cardinality(Bidders), NEW b \in Bidders \ Winners(chain)
  PROVE  chain.got[i][b] = 1
<1> DEFINE losers == Bidders \ Winners(chain)
           n == Len(chain.places)
           served == Served(chain, i)
<1>1. /\ chain \in Chains /\ Placed(chain) /\ ParticipationInv(chain, i)
      /\ chain.tracking[i] \in Trackings
  BY ChainTypes DEF BoxInv
<1>2. n \in Nat /\ Winners(chain) \subseteq Bidders /\ Cardinality(Winners(chain)) = n
  <2> DEFINE W == Winners(chain)
  <2>1. n \in Nat /\ DOMAIN chain.places = 1..n /\ W = {chain.places[k] : k \in 1..n}
        /\ W \subseteq Bidders
    BY <1>1, Places
  <2>2. chain.places \in Injection(1..n, W) /\ chain.places \in Surjection(1..n, W)
    <3>1. chain.places \in [1..n -> W] /\ IsInjective(chain.places)
      BY <1>1, <2>1 DEF Placed, IsInjective
    <3>2. \A w \in W : \E k \in 1..n : chain.places[k] = w
      BY <2>1
    <3>3. QED
      BY <3>1, <3>2 DEF Injection, Surjection
  <2> HIDE DEF W, n
  <2>3. IsFiniteSet(1..n) /\ Cardinality(1..n) = n
    BY <2>1, FS_Interval
  <2>4. Cardinality(W) = Cardinality(1..n)
    BY <2>2, <2>3, FS_Surjection
  <2>5. QED
    BY <2>1, <2>3, <2>4 DEF W
<1>3. /\ IsFiniteSet(losers) /\ Cardinality(losers) = Cardinality(Bidders) - n
      /\ IsFiniteSet(Bidders) /\ Cardinality(Bidders) \in Nat
  <2>1. Bidders \cap Winners(chain) = Winners(chain)
    BY <1>2
  <2>2. IsFiniteSet(Bidders)
    BY PrizeTypes
  <2>3. /\ IsFiniteSet(losers)
        /\ Cardinality(losers) = Cardinality(Bidders) - Cardinality(Bidders \cap Winners(chain))
    BY <2>2, FS_Difference
  <2>4. Cardinality(Bidders) \in Nat
    BY <2>2, FS_CardinalityType
  <2> HIDE DEF losers, n
  <2>5. QED
    BY <1>2, <2>1, <2>2, <2>3, <2>4
<1>4. served \subseteq losers
  BY <1>1 DEF Served, ParticipationInv
<1>5. Cardinality(served) \in Nat /\ Cardinality(served) <= Cardinality(losers)
  BY <1>3, <1>4, FS_Subset, FS_CardinalityType
<1>6. Cardinality(Bidders) > 0
  <2>1. Bidders # {}
    OBVIOUS
  <2>2. QED
    BY <1>3, <2>1, FS_EmptySet
<1>7. Cardinality(served) >= Cardinality(losers)
  <2>1. Cardinality(served) >= Cardinality(Bidders) - n
    BY <1>1, <1>3, <1>6 DEF ParticipationInv
  <2>2. QED
    BY <1>3, <2>1
<1>8. served = losers
  <2>1. Cardinality(losers) \in Nat
    BY <1>3, FS_CardinalityType
  <2>2. Cardinality(losers) = Cardinality(served)
    BY <1>5, <1>7, <2>1
  <2> HIDE DEF losers, served
  <2>3. QED
    BY <1>3, <1>4, <2>2, FS_Subset
<1>9. QED
  BY <1>8 DEF Served

(* It says when a master has left its store.                               *)
LEMMA MastersFromInv == TicketsLast /\ SettlementInv => MasterAfterPrints
<1> SUFFICES ASSUME TicketsLast, SettlementInv, NEW i \in Masters, chain.store[i] = 0,
                    IsPrint(i) \/ chain.uncancelled = Cardinality(Bidders),
                    NEW b \in Bidders
             PROVE  chain.got[i][b] >= Promised(i, b)
  BY DEF MasterAfterPrints
<1>1. i \in Orders /\ ChainInv(chain) /\ BoxInv(chain, i) /\ Placed(chain)
  BY ChainTypes DEF SettlementInv, Masters
<1>2. b \in Holders /\ chain.got[i][b] \in Nat
  BY <1>1, ChainTypes DEF Holders
<1>3. CASE IsPrint(i)
  <2>1. CASE b \notin Winners(chain)
    BY <1>1, <1>2, <1>3, <2>1, Shares DEF Promised
  <2>2. ASSUME NEW k \in DOMAIN chain.places, b = chain.places[k]
        PROVE  chain.got[i][b] >= Promised(i, b)
    <3>1. chain.got[i][b] = Amount(i, k) /\ ShareOf(i, b) = Amount(i, k)
      BY <1>1, <1>3, <2>2, AllPrinted, Shares
    <3>2. QED
      BY <1>2, <1>3, <3>1 DEF Promised
  <2>3. QED
    BY <1>1, <2>1, <2>2, AtPlaceOrNot
<1>4. CASE ~IsPrint(i)
  <2>1. IsParticipation(i) /\ ~Given.winners /\ chain.uncancelled = Cardinality(Bidders)
    BY <1>1, <1>4 DEF Masters, TicketsLast
  <2>2. CASE b \in Winners(chain)
    <3>1. Promised(i, b) = 0
      BY <1>4, <2>1, <2>2 DEF Promised, GetsParticipation
    <3>2. QED
      BY <1>2, <3>1
  <2>3. CASE b \notin Winners(chain)
    <3>1. chain.got[i][b] = 1
      BY <1>1, <2>1, <2>3, AllServed
    <3>2. Promised(i, b) \in {0, 1}
      BY <1>4 DEF Promised
    <3>3. QED
      BY <3>1, <3>2
  <2>4. QED
    BY <2>2, <2>3
<1>5. QED
  BY <1>3, <1>4

(* MasterAfterPrints: the seller has a master edition back only when every *)
(* copy that was won is printed and, of a participation, when every loser  *)
(* has one, provided that no bid was cancelled while the auction ran.      *)
THEOREM MastersLeaveLast ==
  ASSUME TicketsLast
  PROVE  Spec => []MasterAfterPrints
<1>1. SettlementInv /\ [Next]_vars => SettlementInv'
  BY NextInv
<1>2. SettlementInv => MasterAfterPrints
  BY MastersFromInv
<1>3. QED
  BY InitInv, <1>1, <1>2, PTL DEF Spec

=============================================================================
