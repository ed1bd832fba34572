------------------------------ MODULE CandyProofs ------------------------------
(***************************************************************************)
(* Proofs about the candy machine and the command line that fills it, for  *)
(* any number of lines, size of chunk and slice, and late transactions.    *)
(*                                                                         *)
(* They go from what the program does with any chunk that fits, through    *)
(* what the keys of the cache and the chunks cut from them are, to the     *)
(* upload: an inductive invariant in four parts, each resting on those     *)
(* before it (UploadInv, LinesInv, VerifiedInv, MachineInv).               *)
(***************************************************************************)
EXTENDS CandyUpload, Recursion, FiniteSetTheorems, SequenceTheorems

(* The mask holds the lines that hold an item. *)
MaskIsLines ==
  /\ line \in [Positions -> Items \cup {Blank}]
  /\ mask = {p \in Positions : line[p] # Blank}

(* The count of lines stays the number of lines that hold an item, however *)
(* a chunk overlaps the lines that are there: add_config_lines counts a    *)
(* line by the bit it sets, and a bit that is set already does not count.  *)
LEMMA AddedLinesAreCounted ==
  ASSUME MaskIsLines, CountIsLinesWritten,
         NEW index \in Nat, NEW lines \in Seq(Items), index + Len(lines) <= Lines,
         AddConfigLines(index, lines)
  PROVE  MaskIsLines' /\ CountIsLinesWritten'
<1> DEFINE span == Span(index, lines)
<1>1. Lines \in Nat /\ Blank \notin Items
  BY CandyAssumption DEF Items, Blank
<1>2. span \subseteq Positions /\ \A p \in span : lines[p - index + 1] \in Items
  BY <1>1 DEF Span, Positions
<1>3. /\ line' = [p \in Positions |-> IF p \in span THEN lines[p - index + 1] ELSE line[p]]
      /\ mask' = mask \cup span /\ count' = count + Cardinality(span \ mask)
  BY DEF AddConfigLines, CountAfter
<1> HIDE DEF span
<1>4. line' \in [Positions -> Items \cup {Blank}]
  BY <1>2, <1>3 DEF MaskIsLines
<1>5. \A p \in Positions : line'[p] # Blank <=> p \in span \/ line[p] # Blank
  BY <1>1, <1>2, <1>3
<1>6. mask' = {p \in Positions : line'[p] # Blank}
  BY <1>2, <1>3, <1>5 DEF MaskIsLines
<1>7. IsFiniteSet(mask) /\ IsFiniteSet(span \ mask)
  <2>1. IsFiniteSet(0..(Lines - 1))
    BY <1>1, FS_Interval
  <2>2. mask \subseteq 0..(Lines - 1) /\ span \ mask \subseteq 0..(Lines - 1)
    BY <1>2 DEF MaskIsLines, Positions
  <2>3. QED
    BY <2>1, <2>2, FS_Subset
<1>8. Cardinality(mask \cup (span \ mask)) = Cardinality(mask) + Cardinality(span \ mask)
  <2>1. mask \cap (span \ mask) = {}
    OBVIOUS
  <2>2. Cardinality(mask \cup (span \ mask)) =
          Cardinality(mask) + Cardinality(span \ mask) - Cardinality(mask \cap (span \ mask))
    BY <1>7, FS_Union
  <2>3. Cardinality(mask \cap (span \ mask)) = 0
    BY <2>1, FS_EmptySet
  <2>4. Cardinality(mask) \in Nat /\ Cardinality(span \ mask) \in Nat
    BY <1>7, FS_CardinalityType
  <2>5. QED
    BY <2>2, <2>3, <2>4
<1>9. mask \cup (span \ mask) = mask \cup span
  OBVIOUS
<1>10. count = Cardinality(mask)
  BY DEF MaskIsLines, CountIsLinesWritten
<1>11. count' = Cardinality(mask')
  BY <1>3, <1>8, <1>9, <1>10
<1>12. QED
  BY <1>4, <1>6, <1>11 DEF MaskIsLines, CountIsLinesWritten

(* Whatever the program is sent, in any order: chunks that overlap, come   *)
(* twice or come late, a config initialised again with as many lines,      *)
(* mints at any moment.                                                    *)
Program ==
  \/ InitializeConfig
  \/ \E index \in Nat, lines \in Seq(Items) :
       index + Len(lines) <= Lines /\ AddConfigLines(index, lines)
  \/ \E available \in Nat : InitializeCandyMachine(available)
  \/ \E date \in {"unset", "future", "past"} : UpdateCandyMachine(date)
  \/ DateArrives
  \/ \E payer \in Payers : MintNft(payer)

(* A new account has no line, and none is counted.                         *)
LEMMA NoLineCounted ==
  ASSUME line = [p \in Positions |-> Blank], mask = {}, count = 0
  PROVE  MaskIsLines /\ CountIsLinesWritten
<1>1. {p \in Positions : line[p] # Blank} = {}
  OBVIOUS
<1>2. MaskIsLines
  BY <1>1 DEF MaskIsLines
<1>3. QED
  BY <1>1, <1>2, FS_EmptySet DEF CountIsLinesWritten

(* A machine may trust the count it is initialised with: under any         *)
(* transactions whose chunks fit in the account, the count is the number   *)
(* of lines that hold an item (add_config_lines, initialize_candy_machine).*)
THEOREM LinesStayCounted ==
  CandyInit /\ [][Program]_candyVars => []CountIsLinesWritten
<1>1. CandyInit => MaskIsLines /\ CountIsLinesWritten
  BY NoLineCounted DEF CandyInit
<1>2. MaskIsLines /\ CountIsLinesWritten /\ [Program]_candyVars
        => MaskIsLines' /\ CountIsLinesWritten'
  <2> SUFFICES ASSUME MaskIsLines, CountIsLinesWritten, [Program]_candyVars
               PROVE  MaskIsLines' /\ CountIsLinesWritten'
    OBVIOUS
  <2>1. ASSUME NEW index \in Nat, NEW lines \in Seq(Items),
               index + Len(lines) <= Lines, AddConfigLines(index, lines)
        PROVE  MaskIsLines' /\ CountIsLinesWritten'
    BY <2>1, AddedLinesAreCounted
  <2>2. CASE UNCHANGED <<line, mask, count>>
    BY <2>2 DEF MaskIsLines, CountIsLinesWritten
  <2>3. QED
    BY <2>1, <2>2
    DEF Program, InitializeConfig, InitializeCandyMachine, UpdateCandyMachine, DateArrives,
        MintNft, candyVars
<1>3. QED
  BY <1>1, <1>2, PTL

--------------------------------------------------------------------------------
(* The keys of the cache *)

(* Ascending(s, i) : s takes some of the items below i, in order.          *)
Ascending(s, i) ==
  /\ s \in Seq(Items)
  /\ \A p \in 1..Len(s) : s[p] + (Len(s) - p) < i
  /\ \A p, q \in 1..Len(s) : p <= q => s[p] + (q - p) <= s[q]


(* g runs through the keys of the items below each i.                      *)
Running(c, g) ==
  /\ KeysOf(c) = g[Lines]
  /\ g[0] = <<>>
  /\ \A i \in 1..Lines : /\ c[i - 1] = "absent" => g[i] = g[i - 1]
                         /\ c[i - 1] # "absent" => g[i] = Append(g[i - 1], i - 1)

(* The keys of a cache can be computed item by item.                       *)
LEMMA KeysRun ==
  ASSUME NEW c
  PROVE  \E g : Running(c, g)
<1> DEFINE T == Seq(Items)
           step == [i \in 1..Lines |->
                      [k \in T |-> IF c[i - 1] = "absent" THEN k ELSE Append(k, i - 1)]]
           Entry(f, i) == IF i = 0 THEN <<>> ELSE IF c[i - 1] = "absent" THEN f[i - 1]
                                                  ELSE Append(f[i - 1], i - 1)
           IsFound(f) == f = [i \in 0..Lines |-> Entry(f, i)]
           found == CHOOSE f : IsFound(f)
<1>1. /\ Lines \in Nat /\ <<>> \in T /\ Len(<<>>) = 0
      /\ \A i \in 1..Lines : i - 1 \in Items /\ i \in 0..Lines /\ i # 0
  BY CandyAssumption, EmptySeq DEF Items
<1>2. step \in [1..Lines -> [T -> T]]
  BY <1>1, AppendProperties
<1>3. PICK f : Stepping(f, Lines, T, <<>>, step)
  <2> HIDE DEF step, T
  <2>1. QED
    BY <1>1, <1>2, StepFunction
<1>4. IsFound(f)
  <2>1. f \in [0..Lines -> T] /\ f = [i \in 0..Lines |-> IF i = 0 THEN <<>> ELSE step[i][f[i - 1]]]
    <3> HIDE DEF step, T
    <3>1. QED
      BY <1>3, Zenon DEF Stepping
  <2>2. \A i \in 1..Lines : f[i - 1] \in T
    <3> HIDE DEF step, T
    <3>1. QED
      BY <1>1, <2>1
  <2>3. \A i \in 1..Lines : step[i][f[i - 1]] = IF c[i - 1] = "absent" THEN f[i - 1]
                                                ELSE Append(f[i - 1], i - 1)
    BY <2>2, Zenon
  <2> HIDE DEF step
  <2>4. \A i \in 0..Lines : (IF i = 0 THEN <<>> ELSE step[i][f[i - 1]]) = Entry(f, i)
    BY <2>3, <1>1
  <2> HIDE DEF Entry
  <2>5. QED
    BY <2>1, <2>4, Zenon
<1>5. IsFound(found)
  <2> HIDE DEF IsFound
  <2>1. QED
    BY <1>4, Zenon DEF found
<1>6. KeysOf(c) = found[Lines]
  BY Zenon DEF KeysOf
<1> HIDE DEF found
<1>7. found[0] = <<>> /\ \A i \in 1..Lines : found[i] = Entry(found, i)
  <2>1. \A i \in 0..Lines : found[i] = Entry(found, i)
    <3> HIDE DEF Entry
    <3>1. QED
      BY <1>5
  <2>2. 0 \in 0..Lines /\ Entry(found, 0) = <<>>
    BY <1>1
  <2> HIDE DEF Entry
  <2>3. QED
    BY <2>1, <2>2, <1>1
<1>8. \A i \in 1..Lines : found[i] = IF c[i - 1] = "absent" THEN found[i - 1]
                                     ELSE Append(found[i - 1], i - 1)
  BY <1>1, <1>7
<1> HIDE DEF IsFound, Entry
<1>9. Running(c, found)
  BY <1>6, <1>7, <1>8, Zenon DEF Running
<1> HIDE DEF found
<1>10. QED
  BY <1>9

(* What the keys of a cache are: the cached items, in order.               *)
LEMMA KeysAscend ==
  ASSUME NEW c
  PROVE  /\ Ascending(KeysOf(c), Lines)
         /\ \A i \in Items : c[i] # "absent" => \E p \in 1..Len(KeysOf(c)) : KeysOf(c)[p] = i
         /\ \A p \in 1..Len(KeysOf(c)) : c[KeysOf(c)[p]] # "absent"
<1>1. /\ Lines \in Nat /\ <<>> \in Seq(Items) /\ Len(<<>>) = 0
      /\ \A i \in 1..Lines : i - 1 \in Items /\ i \in 0..Lines /\ i # 0
  BY CandyAssumption, EmptySeq DEF Items
<1>2. PICK found : Running(c, found)
  BY KeysRun
<1> DEFINE Good(s, i) == /\ Ascending(s, i)
                         /\ \A j \in 0..(i - 1) : c[j] # "absent" => \E p \in 1..Len(s) : s[p] = j
                         /\ \A p \in 1..Len(s) : c[s[p]] # "absent"
           G == {i \in 0..Lines : Good(found[i], i)}
<1>3. 0 \in G
  <2>1. Good(<<>>, 0)
    BY <1>1 DEF Ascending
  <2> HIDE DEF Good
  <2>2. QED
    BY <2>1, <1>1, <1>2 DEF Running
<1>4. ASSUME NEW i \in 1..Lines, i - 1 \in G PROVE i \in G
  <2> DEFINE s == found[i - 1]
  <2>1. Good(s, i - 1) /\ i \in Nat /\ i > 0
    BY <1>1, <1>4
  <2> HIDE DEF s
  <2>2. s \in Seq(Items) /\ Len(s) \in Nat /\ \A p \in 1..Len(s) : s[p] \in Items /\ s[p] \in Nat
    <3>1. s \in Seq(Items)
      BY <2>1 DEF Ascending
    <3>2. Len(s) \in Nat /\ \A p \in 1..Len(s) : s[p] \in Items
      BY <3>1, ElementOfSeq
    <3>3. QED
      BY <3>1, <3>2, <1>1 DEF Items
  <2>3. CASE c[i - 1] = "absent"
    <3>1. found[i] = s
      BY <2>3, <1>2 DEF s, Running
    <3>2. Ascending(s, i)
      BY <2>1, <2>2 DEF Ascending
    <3>3. \A j \in 0..(i - 1) : c[j] # "absent" => \E p \in 1..Len(s) : s[p] = j
      BY <2>1, <2>3
    <3>4. Good(s, i)
      BY <3>2, <3>3, <2>1
    <3> HIDE DEF Good
    <3>5. QED
      BY <3>1, <3>4, <1>1
  <2>4. CASE c[i - 1] # "absent"
    <3> DEFINE t == Append(s, i - 1)
    <3>1. found[i] = t
      BY <2>4, <1>2 DEF s, Running
    <3>2. /\ t \in Seq(Items) /\ Len(t) = Len(s) + 1 /\ t[Len(s) + 1] = i - 1
          /\ \A p \in 1..Len(s) : t[p] = s[p]
      BY <1>1, <2>2, AppendProperties
    <3> HIDE DEF t
    <3>3. \A p \in 1..Len(s) : s[p] + (Len(s) - p) < i - 1
      BY <2>1 DEF Ascending
    <3>4. \A p \in 1..Len(t) : t[p] + (Len(t) - p) < i
      BY <3>2, <3>3, <2>1, <2>2
    <3>5. ASSUME NEW p \in 1..Len(t), NEW q \in 1..Len(t), p <= q
          PROVE  t[p] + (q - p) <= t[q]
      <4>1. CASE q \in 1..Len(s)
        BY <4>1, <3>2, <3>5, <2>1, <2>2 DEF Ascending
      <4>2. CASE q = Len(s) + 1
        <5>1. t[q] = i - 1 /\ (p = q \/ p \in 1..Len(s))
          BY <4>2, <3>2, <2>1, <2>2
        <5>2. CASE p = q
          BY <5>1, <5>2
        <5>3. CASE p \in 1..Len(s)
          <6>1. t[p] = s[p] /\ s[p] \in Int /\ s[p] + (Len(s) - p) < i - 1
            BY <5>3, <3>2, <3>3, <2>1, <2>2 DEF Ascending, Items
          <6>2. QED
            BY <4>2, <5>1, <6>1, <2>1, <2>2
        <5>4. QED
          BY <5>1, <5>2, <5>3
      <4>3. QED
        BY <4>1, <4>2, <3>2, <2>2
    <3>6. Ascending(t, i)
      BY <3>2, <3>4, <3>5 DEF Ascending
    <3>7. ASSUME NEW j \in 0..(i - 1), c[j] # "absent" PROVE \E p \in 1..Len(t) : t[p] = j
      <4>1. CASE j = i - 1
        BY <4>1, <3>2, <2>2
      <4>2. CASE j # i - 1
        <5>1. PICK p \in 1..Len(s) : s[p] = j
          BY <4>2, <3>7, <2>1
        <5>2. QED
          BY <5>1, <3>2, <2>2
      <4>3. QED
        BY <4>1, <4>2
    <3>8. \A p \in 1..Len(t) : c[t[p]] # "absent"
      <4>1. \A p \in 1..Len(t) : p \in 1..Len(s) \/ p = Len(s) + 1
        BY <3>2, <2>2
      <4>2. QED
        BY <4>1, <2>1, <2>4, <3>2
    <3>9. Good(t, i)
      BY <3>6, <3>7, <3>8
    <3> HIDE DEF Good
    <3>10. QED
      BY <3>1, <3>9, <1>1
  <2>5. QED
    BY <2>3, <2>4
<1>5. Good(found[Lines], Lines)
  <2>1. Lines \in G
    <3> HIDE DEF G
    <3>1. QED
      BY <1>1, <1>3, <1>4, StepByStep
  <2>2. QED
    BY <2>1 DEF G
<1>6. QED
  BY <1>2, <1>5 DEF Items, Running


(* The keys depend on which items are cached, and on nothing else.         *)
LEMMA SameItemsSameKeys ==
  ASSUME NEW c, NEW d, \A i \in Items : c[i] = "absent" <=> d[i] = "absent"
  PROVE  KeysOf(c) = KeysOf(d)
<1>1. PICK f : Running(c, f)
  BY KeysRun
<1>2. PICK g : Running(d, g)
  BY KeysRun
<1> DEFINE G == {i \in 0..Lines : f[i] = g[i]}
<1>3. Lines \in Nat /\ \A i \in 1..Lines : i - 1 \in Items
  BY CandyAssumption DEF Items
<1>4. 0 \in G
  BY <1>1, <1>2, <1>3 DEF Running
<1>5. ASSUME NEW i \in 1..Lines, i - 1 \in G PROVE i \in G
  <2>1. f[i - 1] = g[i - 1] /\ i \in 0..Lines /\ i - 1 \in Items
    BY <1>3, <1>5
  <2>2. f[i] = g[i]
    BY <1>1, <1>2, <2>1 DEF Running
  <2>3. QED
    BY <2>1, <2>2
<1>6. Lines \in G
  <2> HIDE DEF G
  <2>1. QED
    BY <1>3, <1>4, <1>5, StepByStep
<1>7. QED
  BY <1>1, <1>2, <1>6 DEF Running

(* When every item is cached, each is in its own place.                    *)
LEMMA AllKeys ==
  ASSUME NEW c, \A i \in Items : c[i] # "absent"
  PROVE  Len(KeysOf(c)) = Lines /\ \A p \in 1..Lines : KeysOf(c)[p] = p - 1
<1>1. PICK g : Running(c, g)
  BY KeysRun
<1> DEFINE All(s, i) == s \in Seq(Items) /\ Len(s) = i /\ \A p \in 1..i : s[p] = p - 1
           G == {i \in 0..Lines : All(g[i], i)}
<1>2. Lines \in Nat /\ \A i \in 1..Lines : i - 1 \in Items
  BY CandyAssumption DEF Items
<1>3. 0 \in G
  <2>1. All(<<>>, 0)
    BY EmptySeq
  <2>2. g[0] = <<>> /\ 0 \in 0..Lines
    BY <1>1, <1>2 DEF Running
  <2> HIDE DEF All
  <2>3. QED
    BY <2>1, <2>2
<1>4. ASSUME NEW i \in 1..Lines, i - 1 \in G PROVE i \in G
  <2> DEFINE s == g[i - 1]
             t == Append(s, i - 1)
  <2>1. s \in Seq(Items) /\ Len(s) = i - 1 /\ \A p \in 1..(i - 1) : s[p] = p - 1
    BY <1>4
  <2>2. g[i] = t /\ i \in 0..Lines /\ i - 1 \in Items
    BY <1>1, <1>2 DEF Running
  <2> HIDE DEF s
  <2>3. t \in Seq(Items) /\ Len(t) = Len(s) + 1 /\ t[Len(s) + 1] = i - 1
        /\ \A p \in 1..Len(s) : t[p] = s[p]
    BY <2>1, <2>2, AppendProperties
  <2> HIDE DEF t
  <2>4. All(t, i)
    BY <2>1, <2>3
  <2> HIDE DEF All
  <2>5. QED
    BY <2>2, <2>4
<1>5. Lines \in G
  <2> HIDE DEF G
  <2>1. QED
    BY <1>2, <1>3, <1>4, StepByStep
<1>6. QED
  BY <1>1, <1>5 DEF Running

(* As many keys as there are lines: every item is cached.                  *)
LEMMA AsManyKeys ==
  ASSUME NEW c, Len(KeysOf(c)) = Lines
  PROVE  \A i \in Items : c[i] # "absent"
<1> DEFINE s == KeysOf(c)
<1>1. Ascending(s, Lines) /\ \A p \in 1..Len(s) : c[s[p]] # "absent"
  BY KeysAscend
<1> HIDE DEF s
<1>2. Lines \in Nat /\ Lines > 0 /\ Len(s) = Lines /\ s \in Seq(Items)
  BY <1>1, CandyAssumption DEF Ascending, s
<1>3. \A p \in 1..Lines : s[p] \in Items
  BY <1>2, ElementOfSeq
<1>4. ASSUME NEW i \in Items PROVE c[i] # "absent"
  <2>1. i + 1 \in 1..Lines /\ 1 \in 1..Lines /\ 1 <= i + 1 /\ i \in Nat
    BY <1>2 DEF Items
  <2>2. s[1] + (i + 1 - 1) <= s[i + 1] /\ s[i + 1] + (Lines - (i + 1)) < Lines
    BY <1>1, <1>2, <2>1 DEF Ascending
  <2>3. s[1] \in Nat /\ s[i + 1] \in Nat
    BY <1>3, <2>1 DEF Items
  <2>4. s[i + 1] = i
    BY <1>2, <2>1, <2>2, <2>3
  <2>5. QED
    BY <1>1, <1>2, <2>1, <2>4
<1>5. QED
  BY <1>4

(* Where a slice has come to, and where it ends. *)
Before(s) == (s - 1) * SliceSize + offset[s]
End(s) == s * SliceSize

(* The numbers of a slice are not negative.                                *)
LEMMA SliceBounds ==
  ASSUME NEW s \in Slices, offset[s] \in Nat
  PROVE  /\ Before(s) \in Nat /\ End(s) \in Nat /\ ChunkSize \in Nat /\ ChunkSize > 0
         /\ (s - 1) * SliceSize \in Nat
<1>1. s \in Nat /\ s - 1 \in Nat /\ SliceSize \in Nat
  BY UploadAssumption DEF Slices
<1>2. (s - 1) * SliceSize \in Nat /\ s * SliceSize \in Nat
  <2>1. \A a, b \in Nat : a * b \in Nat
    OBVIOUS
  <2>2. QED
    BY <1>1, <2>1
<1>3. QED
  BY <1>2, UploadAssumption DEF Before, End

(* The chunk of a slice is the part of the keys that begins where the      *)
(* slice has come to; it is empty only at the end of slice or keys.        *)
LEMMA ChunkIsPartOfKeys ==
  ASSUME NEW s \in Slices, offset[s] \in Nat
  PROVE  /\ Chunk(s) \in Seq(Items)
         /\ Chunk(s) # <<>> => Before(s) + Len(Chunk(s)) <= Len(Keys) /\ Len(Chunk(s)) > 0
         /\ \A p \in 1..Len(Chunk(s)) : Chunk(s)[p] = Keys[Before(s) + p]
         /\ \A q \in Nat : /\ Before(s) < q /\ q <= Before(s) + ChunkSize
                           /\ q <= End(s) /\ q <= Len(Keys)
                           => q - Before(s) \in 1..Len(Chunk(s))
<1> DEFINE b == Before(s)
           e == End(s)
           n == Len(Keys)
           M == {b + ChunkSize, e, n}
           m == Min(M)
<1>1. b \in Nat /\ e \in Nat /\ ChunkSize \in Nat
  BY SliceBounds
<1>2. Keys \in Seq(Items) /\ n \in Nat /\ \A p \in 1..n : Keys[p] \in Items
  <2>1. Keys \in Seq(Items)
    BY KeysAscend DEF Keys, Ascending
  <2>2. QED
    BY <2>1, ElementOfSeq
<1>3. Chunk(s) = SubSeq(Keys, b + 1, m)
  BY DEF Chunk, Before, End
<1> HIDE DEF b, e, n
<1>4. m \in M /\ m \in Nat /\ m <= b + ChunkSize /\ m <= e /\ m <= n
  <2>1. \E x \in M : \A y \in M : x <= y
    BY <1>1, <1>2
  <2>2. m \in M /\ \A y \in M : m <= y
    <3> HIDE DEF M
    <3>1. QED
      BY <2>1, Zenon DEF Min
  <2>3. QED
    BY <1>1, <1>2, <2>2
<1> HIDE DEF m, M
<1>5. \A i \in (b + 1)..m : Keys[i] \in Items
  BY <1>1, <1>2, <1>4
<1>6. /\ Chunk(s) \in Seq(Items)
      /\ Len(Chunk(s)) = IF b + 1 <= m THEN m - (b + 1) + 1 ELSE 0
      /\ \A i \in 1..(m - (b + 1) + 1) : Chunk(s)[i] = Keys[b + 1 + i - 1]
  <2>1. b + 1 \in Int /\ m \in Int
    BY <1>1, <1>4
  <2>2. QED
    BY <1>3, <1>5, <2>1, SubSeqProperties
<1>7. CASE m < b + 1
  <2>1. Chunk(s) = <<>> /\ Len(Chunk(s)) = 0
    BY <1>1, <1>3, <1>4, <1>7, <1>6, SubSeqEmpty
  <2>2. QED
    BY <1>1, <1>2, <1>4, <1>7, <2>1 DEF M, b, e, n
<1>8. CASE b + 1 <= m
  <2>1. Len(Chunk(s)) = m - b
    BY <1>1, <1>4, <1>6, <1>8
  <2>2. \A i \in 1..(m - b) : Chunk(s)[i] = Keys[b + i]
    BY <1>1, <1>4, <1>6
  <2>3. \A q \in Nat : b < q /\ q <= b + ChunkSize /\ q <= e /\ q <= n => q - b \in 1..(m - b)
    BY <1>1, <1>2, <1>4 DEF M
  <2>4. b + (m - b) <= n /\ m - b > 0
    BY <1>1, <1>2, <1>4, <1>8
  <2>5. QED
    BY <1>6, <2>1, <2>2, <2>3, <2>4 DEF b, e, n
<1>9. QED
  BY <1>1, <1>4, <1>7, <1>8

(* What the cache says of an item.                                         *)
States == {"absent", "linkless", "stored", "onChain"}

(* A transaction whose lines fit in the account; one that writes every     *)
(* item on its own line.                                                   *)
Fits(tx) ==
  /\ tx.index \in Nat /\ tx.lines \in Seq(Items)
  /\ tx.index + Len(tx.lines) <= Lines
InPlace(tx) == \A j \in 1..Len(tx.lines) : tx.lines[j] = tx.index + j - 1

(* A transaction bears the name of its first item, its lines are as many   *)
(* as fit behind it.                                                       *)
LEMMA TransactionFits ==
  ASSUME NEW s \in Slices, offset[s] \in Nat, Chunk(s) # <<>>
  PROVE  Fits(Transaction(s))
<1> DEFINE t == Chunk(s)
           b == Before(s)
           k == Keys
<1>1. /\ t \in Seq(Items) /\ b + Len(t) <= Len(k) /\ Len(t) > 0
      /\ \A p \in 1..Len(t) : t[p] = k[b + p]
  BY ChunkIsPartOfKeys
<1>2. Ascending(k, Lines)
  BY KeysAscend DEF Keys
<1>3. Transaction(s).index = t[1] /\ Transaction(s).lines = t
  BY DEF Transaction
<1>4. b \in Nat
  BY SliceBounds
<1> HIDE DEF t, b, k
<1>5. k \in Seq(Items) /\ Len(k) \in Nat /\ Len(t) \in Nat /\ Lines \in Nat
  BY <1>1, <1>2, CandyAssumption DEF Ascending
<1>6. b + 1 \in 1..Len(k) /\ t[1] = k[b + 1] /\ k[b + 1] \in Items
  <2>1. b + 1 \in 1..Len(k) /\ 1 \in 1..Len(t)
    BY <1>1, <1>4, <1>5
  <2>2. QED
    BY <1>1, <1>5, <2>1, ElementOfSeq
<1>7. k[b + 1] + (Len(k) - (b + 1)) < Lines
  BY <1>2, <1>6 DEF Ascending
<1>8. t[1] \in Nat /\ t[1] + Len(t) <= Lines
  BY SMTT(30), <1>1, <1>4, <1>5, <1>6, <1>7 DEF Items
<1>9. QED
  BY <1>1, <1>3, <1>8 DEF Fits

(* When every item is cached, a transaction writes its items on their own  *)
(* lines, and names every item up to the next chunk of its slice.          *)
LEMMA TransactionInPlace ==
  ASSUME NEW s \in Slices, offset[s] \in Nat, \A i \in Items : cache[i] # "absent"
  PROVE  /\ Chunk(s) # <<>> => InPlace(Transaction(s))
         /\ \A i \in Items : /\ Before(s) <= i /\ i < Before(s) + ChunkSize /\ i < End(s)
                             => \E p \in 1..Len(Chunk(s)) : Chunk(s)[p] = i
<1> DEFINE t == Chunk(s)
           b == Before(s)
           e == End(s)
           k == Keys
<1>1. /\ t \in Seq(Items) /\ (t # <<>> => b + Len(t) <= Len(k) /\ Len(t) > 0)
      /\ \A p \in 1..Len(t) : t[p] = k[b + p]
      /\ \A q \in Nat : b < q /\ q <= b + ChunkSize /\ q <= e /\ q <= Len(k)
                          => q - b \in 1..Len(t)
  BY ChunkIsPartOfKeys
<1>2. Len(k) = Lines /\ \A p \in 1..Lines : k[p] = p - 1
  BY AllKeys DEF Keys
<1>3. Transaction(s).index = t[1] /\ Transaction(s).lines = t
  BY DEF Transaction
<1>4. b \in Nat /\ e \in Nat /\ Lines \in Nat /\ ChunkSize \in Nat
  BY SliceBounds, CandyAssumption
<1> HIDE DEF t, b, k, e
<1>5. Len(t) \in Nat
  BY <1>1
<1>6. ASSUME t # <<>> PROVE InPlace(Transaction(s))
  <2>1. \A p \in 1..Len(t) : b + p \in 1..Lines
    BY <1>1, <1>2, <1>4, <1>5, <1>6
  <2>2. \A p \in 1..Len(t) : t[p] = b + p - 1
    BY <1>1, <1>2, <1>4, <1>5, <2>1
  <2>3. t[1] = b
    BY <1>1, <1>4, <1>5, <1>6, <2>2
  <2>4. QED
    BY <1>3, <1>4, <1>5, <2>2, <2>3 DEF InPlace
<1>7. ASSUME NEW i \in Items, b <= i, i < b + ChunkSize, i < e
      PROVE  \E p \in 1..Len(t) : t[p] = i
  <2>1. i \in Nat /\ i + 1 \in 1..Lines /\ i + 1 - b \in 1..Len(t)
    BY <1>1, <1>2, <1>4, <1>7 DEF Items
  <2>2. b + (i + 1 - b) = i + 1
    BY <1>4, <2>1
  <2>3. t[i + 1 - b] = i
    BY <1>1, <1>2, <2>1, <2>2
  <2>4. QED
    BY <2>1, <2>3
<1>8. QED
  BY <1>6, <1>7 DEF t, b, e

(* Every item belongs to a slice. *)
LEMMA SlicesCover ==
  ASSUME NEW i \in Items
  PROVE  \E s \in Slices : (s - 1) * SliceSize <= i /\ i < End(s)
<1> DEFINE d == i \div SliceSize
           l == (Lines - 1) \div SliceSize
<1>1. i \in Nat /\ Lines - 1 \in Nat /\ i <= Lines - 1 /\ SliceSize \in Nat /\ SliceSize > 0
  BY CandyAssumption, UploadAssumption DEF Items
<1>2. \A a \in Nat : /\ a \div SliceSize \in Int
                     /\ SliceSize * (a \div SliceSize) <= a
                     /\ a < SliceSize * ((a \div SliceSize) + 1)
  BY <1>1
<1>3. d \in Int /\ SliceSize * d <= i /\ i < SliceSize * (d + 1)
  BY <1>1, <1>2
<1>4. l \in Int /\ SliceSize * l <= Lines - 1 /\ Lines - 1 < SliceSize * (l + 1)
  BY <1>1, <1>2
<1>5. Slices = 1..(l + 1)
  BY DEF Slices
<1> HIDE DEF d, l
<1>6. d >= 0 /\ d <= l
  <2>1. \A x, y \in Int : SliceSize * x < SliceSize * (y + 1) => x <= y
    <3> SUFFICES ASSUME NEW x \in Int, NEW y \in Int, SliceSize * x < SliceSize * (y + 1), x > y
                 PROVE  FALSE
      OBVIOUS
    <3>1. SliceSize * (x - (y + 1)) >= 0
      BY <1>1
    <3>2. QED
      BY <1>1, <3>1
  <2>2. SliceSize * d < SliceSize * (l + 1)
    BY <1>1, <1>3, <1>4
  <2>3. SliceSize * 0 < SliceSize * (d + 1)
    BY <1>1, <1>3
  <2>4. QED
    BY <1>3, <1>4, <2>1, <2>2, <2>3
<1>7. PICK s \in Int : s = d + 1
  BY <1>3
<1>8. s \in Slices /\ s - 1 = d
  BY <1>3, <1>4, <1>5, <1>6, <1>7
<1>9. (s - 1) * SliceSize <= i /\ i < s * SliceSize
  BY <1>1, <1>3, <1>7, <1>8
<1>10. QED
  BY <1>8, <1>9 DEF End

--------------------------------------------------------------------------------
(* The upload *)

(* Between the passes nothing is written.                                  *)
Resting ==
  /\ offset = [s \in Slices |-> 0]
  /\ waiting = [s \in Slices |-> FALSE]

(* What holds of the uploader at any time: a slice that waits has a chunk, *)
(* and what is still to land fits.                                         *)
UploadInv ==
  /\ cache \in [Items -> States]
  /\ offset \in [Slices -> Nat] /\ waiting \in [Slices -> BOOLEAN]
  /\ phase # "writing" => Resting
  /\ \A s \in Slices : waiting[s] => Chunk(s) # <<>>
  /\ \A tx \in late : Fits(tx)

(* A chunk stays while its slice stays and the same items are cached.      *)
LEMMA ChunkStays ==
  ASSUME NEW s \in Slices, offset'[s] = offset[s],
         \A i \in Items : cache'[i] = "absent" <=> cache[i] = "absent"
  PROVE  Chunk(s)' = Chunk(s)
<1>1. Keys' = Keys
  BY SameItemsSameKeys DEF Keys
<1>2. QED
  BY <1>1 DEF Chunk

(* Between the passes no confirmation is awaited.                          *)
LEMMA RestingWaitsForNothing ==
  ASSUME Resting
  PROVE  \A s \in Slices : ~waiting[s]
BY DEF Resting

(* Nobody waits, so what becomes of the cache is of no matter. *)
LEMMA AtRest ==
  ASSUME Resting', cache' \in [Items -> States], \A tx \in late' : Fits(tx)
  PROVE  UploadInv'
<1>1. offset' = [s \in Slices |-> 0] /\ waiting' = [s \in Slices |-> FALSE]
  BY DEF Resting
<1>2. offset' \in [Slices -> Nat] /\ waiting' \in [Slices -> BOOLEAN]
      /\ \A s \in Slices : ~waiting'[s]
  BY <1>1
<1>3. QED
  BY <1>2 DEF UploadInv

(* At first nothing is cached and nothing is under way.                    *)
LEMMA UploadInvHolds == Init => UploadInv
<1> SUFFICES ASSUME Init PROVE UploadInv
  OBVIOUS
<1>1. cache \in [Items -> States] /\ late = {}
  BY DEF Init, States
<1>2. Resting
  BY DEF Init, Resting
<1>3. offset \in [Slices -> Nat] /\ waiting \in [Slices -> BOOLEAN] /\ \A s \in Slices : ~waiting[s]
  BY <1>2 DEF Resting
<1>4. QED
  BY <1>1, <1>2, <1>3 DEF UploadInv

(* Where the slice s goes on, and no other. *)
LEMMA SliceGoesOn ==
  ASSUME UploadInv, NEW s \in Slices, phase = "writing", phase' = "writing",
         cache' \in [Items -> States],
         \A i \in Items : cache'[i] = "absent" <=> cache[i] = "absent",
         NextChunk(s), waiting' \in {waiting, [waiting EXCEPT ![s] = FALSE]}, ~waiting'[s],
         \A tx \in late' : Fits(tx)
  PROVE  UploadInv'
<1>1. offset \in [Slices -> Nat] /\ waiting \in [Slices -> BOOLEAN] /\ ChunkSize \in Nat
  BY UploadAssumption DEF UploadInv
<1>2. offset' \in [Slices -> Nat] /\ \A t \in Slices : t # s => offset'[t] = offset[t]
  BY <1>1 DEF NextChunk
<1>3. waiting' \in [Slices -> BOOLEAN] /\ \A t \in Slices : t # s => waiting'[t] = waiting[t]
  BY <1>1
<1>4. ASSUME NEW t \in Slices, waiting'[t] PROVE Chunk(t)' # <<>>
  <2>1. t # s /\ waiting[t] /\ offset'[t] = offset[t]
    BY <1>2, <1>3, <1>4
  <2>2. Chunk(t)' = Chunk(t)
    BY <2>1, ChunkStays
  <2>3. QED
    BY <2>1, <2>2 DEF UploadInv
<1>5. QED
  BY <1>2, <1>3, <1>4 DEF UploadInv

(* A chunk names cached items. *)
LEMMA ChunkHasCached ==
  ASSUME NEW s \in Slices, offset[s] \in Nat
  PROVE  \A i \in Range(Chunk(s)) : i \in Items /\ cache[i] # "absent"
<1> DEFINE t == Chunk(s)
           b == Before(s)
           k == Keys
<1>1. /\ t \in Seq(Items) /\ (t # <<>> => b + Len(t) <= Len(k) /\ Len(t) > 0)
      /\ \A p \in 1..Len(t) : t[p] = k[b + p]
  BY ChunkIsPartOfKeys
<1>2. k \in Seq(Items) /\ \A p \in 1..Len(k) : cache[k[p]] # "absent"
  BY KeysAscend DEF Keys, Ascending
<1>3. b \in Nat
  BY SliceBounds
<1> HIDE DEF t, b, k
<1>4. DOMAIN t = 1..Len(t) /\ Len(t) \in Nat /\ Len(k) \in Nat
  BY <1>1, <1>2
<1>5. ASSUME NEW p \in 1..Len(t) PROVE t[p] \in Items /\ cache[t[p]] # "absent"
  <2>1. t # <<>>
    BY <1>4
  <2>2. b + p \in 1..Len(k)
    BY <1>1, <1>3, <1>4, <2>1
  <2>3. QED
    BY <1>1, <1>2, <2>2, ElementOfSeq
<1>6. \A i \in Range(t) : \E p \in 1..Len(t) : i = t[p]
  BY <1>4 DEF Range
<1>7. QED
  BY <1>5, <1>6 DEF t

(* Only what is still to land has changed. *)
LEMMA SameUpload ==
  ASSUME UploadInv, UNCHANGED uploadVars, late' \subseteq late
  PROVE  UploadInv'
<1>1. UNCHANGED <<cache, phase, offset, waiting>>
  BY DEF uploadVars
<1>2. \A s \in Slices : Chunk(s)' = Chunk(s)
  BY <1>1, ChunkStays
<1>3. QED
  BY <1>1, <1>2 DEF UploadInv, Resting

(* A slice that goes on leaves the chunks of the others as they are, and a *)
(* transaction that is given up is that of a slice that waited, so it fits. *)
LEMMA UploadInvStays == UploadInv /\ [Next]_vars => UploadInv'
<1> SUFFICES ASSUME UploadInv, [Next]_vars PROVE UploadInv'
  OBVIOUS
<1>1. /\ cache \in [Items -> States]
      /\ offset \in [Slices -> Nat] /\ waiting \in [Slices -> BOOLEAN]
      /\ phase # "writing" => Resting
      /\ \A s \in Slices : waiting[s] => Chunk(s) # <<>>
      /\ \A tx \in late : Fits(tx)
  BY DEF UploadInv
<1>2. \A s \in Slices : waiting[s] => phase = "writing" /\ Fits(Transaction(s))
  <2>1. \A s \in Slices : waiting[s] => phase = "writing"
    BY <1>1, RestingWaitsForNothing
  <2>2. \A s \in Slices : waiting[s] => Fits(Transaction(s))
    BY <1>1, TransactionFits
  <2>3. QED
    BY <2>1, <2>2
<1>3. ASSUME Resting, UNCHANGED <<offset, waiting>> PROVE Resting'
  BY <1>3 DEF Resting
<1>4. CASE StartUpload
  <2>1. Resting /\ UNCHANGED <<cache, offset, waiting, late>>
    BY <1>1, <1>4 DEF StartUpload, Idle
  <2>2. QED
    BY <1>1, <1>3, <2>1, AtRest
<1>5. CASE CreateConfig
  <2>1. Resting /\ UNCHANGED <<cache, offset, waiting, late>>
    BY <1>1, <1>5 DEF CreateConfig
  <2>2. QED
    BY <1>1, <1>3, <2>1, AtRest
<1>6. CASE StoreImage
  <2>1. Resting /\ UNCHANGED <<offset, waiting, late>>
    BY <1>1, <1>6 DEF StoreImage
  <2>2. cache' \in [Items -> States]
    BY <1>1, <1>6 DEF StoreImage, States
  <2>3. QED
    BY <1>1, <1>3, <2>1, <2>2, AtRest
<1>7. CASE StartWriting
  <2>1. Resting /\ UNCHANGED <<cache, offset, waiting, late>>
    BY <1>1, <1>7 DEF StartWriting
  <2>2. QED
    BY <1>1, <1>3, <2>1, AtRest
<1>8. ASSUME NEW s \in Slices, PassChunk(s) PROVE UploadInv'
  <2>1. /\ phase = "writing" /\ phase' = "writing" /\ NextChunk(s)
        /\ UNCHANGED <<cache, waiting, late>> /\ ~waiting[s]
    BY <1>8 DEF PassChunk, AtChunk
  <2>2. QED
    BY <1>1, <2>1, SliceGoesOn
<1>9. ASSUME NEW s \in Slices, SendChunk(s) PROVE UploadInv'
  <2>1. /\ phase = "writing" /\ phase' = "writing" /\ Chunk(s) # <<>>
        /\ waiting' = [waiting EXCEPT ![s] = TRUE]
        /\ UNCHANGED <<cache, offset, late>>
    BY <1>9 DEF SendChunk, AtChunk
  <2>2. waiting' \in [Slices -> BOOLEAN]
    BY <1>1, <2>1
  <2>3. ASSUME NEW t \in Slices, waiting'[t] PROVE Chunk(t)' # <<>>
    <3>1. Chunk(t) # <<>>
      BY <1>1, <2>1, <2>3
    <3>2. Chunk(t)' = Chunk(t)
      BY <2>1, ChunkStays
    <3>3. QED
      BY <3>1, <3>2
  <2>4. QED
    BY <1>1, <2>1, <2>2, <2>3 DEF UploadInv
<1>10. ASSUME NEW s \in Slices, ConfirmChunk(s) PROVE UploadInv'
  <2>1. /\ phase = "writing" /\ phase' = "writing" /\ NextChunk(s)
        /\ waiting' = [waiting EXCEPT ![s] = FALSE]
        /\ cache' = Flagged(Range(Chunk(s))) /\ UNCHANGED late
    BY <1>2, <1>10 DEF ConfirmChunk
  <2>2. cache' \in [Items -> States]
    BY <1>1, <2>1 DEF Flagged, States
  <2>3. \A i \in Range(Chunk(s)) : cache[i] # "absent"
    BY <1>1, ChunkHasCached
  <2>4. \A i \in Items : cache'[i] = "absent" <=> cache[i] = "absent"
    BY <2>1, <2>3 DEF Flagged
  <2>5. ~waiting'[s]
    BY <1>1, <2>1
  <2>6. QED
    BY <1>1, <2>1, <2>2, <2>4, <2>5, SliceGoesOn
<1>11. ASSUME NEW s \in Slices, LoseChunk(s) PROVE UploadInv'
  <2>1. /\ phase = "writing" /\ phase' = "writing" /\ NextChunk(s)
        /\ waiting' = [waiting EXCEPT ![s] = FALSE]
        /\ UNCHANGED cache /\ late' \in {late, late \cup {Transaction(s)}}
    BY <1>2, <1>11 DEF LoseChunk
  <2>2. \A tx \in late' : Fits(tx)
    BY <1>1, <1>2, <1>11, <2>1 DEF LoseChunk
  <2>3. ~waiting'[s]
    BY <1>1, <2>1
  <2>4. QED
    BY <1>1, <2>1, <2>2, <2>3, SliceGoesOn
<1>12. CASE FinishUpload
  <2>1. Resting' /\ UNCHANGED <<cache, late>>
    BY <1>12 DEF FinishUpload, EndPass, Resting
  <2>2. QED
    BY <1>1, <2>1, AtRest
<1>13. CASE Abort
  <2>1. Resting' /\ UNCHANGED cache
    BY <1>13 DEF Abort, EndPass, Resting
  <2>2. PICK S \in SUBSET {s \in Slices : waiting[s]} :
          late' = late \cup {Transaction(s) : s \in S}
    BY <1>13 DEF Abort
  <2>3. \A tx \in late' : Fits(tx)
    BY <1>1, <1>2, <2>2
  <2>4. QED
    BY <1>1, <2>1, <2>3, AtRest
<1>14. CASE Verify
  <2>1. Resting /\ UNCHANGED <<offset, waiting, late>> /\ cache' = Unflagged
    BY <1>1, <1>14 DEF Verify, Idle
  <2>2. cache' \in [Items -> States]
    BY <1>1, <2>1 DEF Unflagged, States
  <2>3. QED
    BY <1>1, <1>3, <2>1, <2>2, AtRest
<1>15. ASSUME NEW tx \in late, LandLate(tx) \/ Expire(tx) PROVE UploadInv'
  <2>1. UNCHANGED uploadVars /\ late' = late \ {tx}
    BY <1>15 DEF LandLate, Expire
  <2>2. QED
    BY <1>1, <2>1, SameUpload
<1>16. CASE UNCHANGED <<uploadVars, late>>
  BY <1>1, <1>16, SameUpload
<1>17. QED
  BY <1>4, <1>5, <1>6, <1>7, <1>8, <1>9, <1>10, <1>11, <1>12, <1>13, <1>14, <1>15, <1>16
  DEF Next, CreateMachine, SetStartDate, Mint, GoLive, vars


(* The bits and the count agree with the lines.                            *)
LinesInv == MaskIsLines /\ CountIsLinesWritten

(* The lines stay counted under every step of uploader, network and chain. *)
LEMMA LinesInvStays == UploadInv /\ LinesInv /\ [Next]_vars => LinesInv'
<1> SUFFICES ASSUME UploadInv, LinesInv, [Next]_vars PROVE LinesInv'
  OBVIOUS
<1> USE DEF LinesInv
<1>1. CASE CreateConfig
  BY <1>1 DEF CreateConfig, InitializeConfig, candyVars, MaskIsLines, CountIsLinesWritten
<1>2. ASSUME NEW tx, Fits(tx), AddConfigLines(tx.index, tx.lines) PROVE LinesInv'
  BY <1>2, AddedLinesAreCounted DEF Fits
<1>3. ASSUME NEW s \in Slices, ConfirmChunk(s) PROVE LinesInv'
  <2>1. Chunk(s) # <<>> /\ offset[s] \in Nat
    BY <1>3 DEF ConfirmChunk, UploadInv
  <2>2. Fits(Transaction(s))
    BY <2>1, TransactionFits
  <2>3. QED
    BY <1>2, <1>3, <2>2 DEF ConfirmChunk
<1>4. ASSUME NEW tx \in late, LandLate(tx) PROVE LinesInv'
  BY <1>2, <1>4 DEF LandLate, UploadInv
<1>5. CASE UNCHANGED <<line, mask, count>>
  BY <1>5 DEF MaskIsLines, CountIsLinesWritten
<1>6. CASE CreateMachine \/ (\E date \in {"future", "past"} : SetStartDate(date))
           \/ (\E payer \in Payers : Mint(payer)) \/ GoLive
  <2>1. UNCHANGED <<line, mask, count>>
    BY <1>6 DEF CreateMachine, InitializeCandyMachine, SetStartDate, UpdateCandyMachine,
                Mint, MintNft, GoLive, DateArrives
  <2>2. QED
    BY <1>5, <2>1
<1>7. ASSUME UNCHANGED candyVars PROVE LinesInv'
  BY <1>5, <1>7 DEF candyVars
<1>8. CASE StartUpload \/ StoreImage \/ StartWriting \/ FinishUpload \/ Abort \/ Verify
  BY <1>7, <1>8 DEF StartUpload, StoreImage, StartWriting, FinishUpload, Abort, Verify
<1>9. ASSUME NEW s \in Slices, PassChunk(s) \/ SendChunk(s) \/ LoseChunk(s) PROVE LinesInv'
  BY <1>7, <1>9 DEF PassChunk, SendChunk, LoseChunk
<1>10. ASSUME NEW tx \in late, Expire(tx) PROVE LinesInv'
  BY <1>7, <1>10 DEF Expire
<1>11. CASE UNCHANGED vars
  BY <1>7, <1>11 DEF vars
<1>12. QED
  BY <1>1, <1>3, <1>4, <1>6, <1>8, <1>9, <1>10, <1>11 DEF Next

(* The count that initialize_candy_machine trusts is the number of lines   *)
(* that hold an item: whatever is missing from the cache, a chunk of upload *)
(* fits in the account, and add_config_lines counts a line once.           *)
THEOREM LinesAreCounted == Spec => []CountIsLinesWritten
<1>1. Init => UploadInv /\ LinesInv
  BY UploadInvHolds, NoLineCounted DEF Init, CandyInit, LinesInv
<1>2. UploadInv /\ LinesInv /\ [Next]_vars => UploadInv' /\ LinesInv'
  BY UploadInvStays, LinesInvStays
<1>3. LinesInv => CountIsLinesWritten
  BY DEF LinesInv
<1>4. QED
  BY <1>1, <1>2, <1>3, PTL DEF Spec

(* Every item is on its own line.                                          *)
AllInPlace == \A p \in Positions : line[p] = p

(* The slice s has gone past the item i. *)
Passed(s, i) ==
  (s - 1) * SliceSize <= i /\ i < End(s) /\ i < Before(s)

(* What the upload has gone past is flagged.                               *)
PassedAreOnChain == \A s \in Slices, i \in Items : Passed(s, i) => cache[i] = "onChain"

(* Once verify has seen every item with nothing under way, the cache does  *)
(* not lie, and what is still to land writes every item on its own line.   *)
VerifiedInv ==
  verified =>
    /\ hasConfig
    /\ \A i \in Items : cache[i] # "absent"
    /\ \A i \in Items : cache[i] = "onChain" => line[i] = i
    /\ \A tx \in late : InPlace(tx)
    /\ phase = "writing" /\ ~failed => PassedAreOnChain
    /\ phase = "uploaded" \/ ready => AllInPlace

(* A transaction in place moves no item that is on its own line.           *)
LEMMA AddedInPlace ==
  ASSUME NEW tx, Fits(tx), InPlace(tx), AddConfigLines(tx.index, tx.lines)
  PROVE  /\ \A p \in Positions : line[p] = p => line'[p] = p
         /\ \A j \in 1..Len(tx.lines) : line'[tx.lines[j]] = tx.lines[j]
         /\ AllInPlace => AllInPlace'
<1> DEFINE x == tx.index
           l == tx.lines
<1>1. x \in Nat /\ l \in Seq(Items) /\ x + Len(l) <= Lines /\ Lines \in Nat
      /\ \A j \in 1..Len(l) : l[j] = x + j - 1
  BY CandyAssumption DEF Fits, InPlace
<1>2. line' = [p \in Positions |-> IF p \in x..(x + Len(l) - 1) THEN l[p - x + 1] ELSE line[p]]
  BY DEF AddConfigLines, Span
<1> HIDE DEF x, l
<1>3. Len(l) \in Nat
  BY <1>1
<1>4. \A p \in x..(x + Len(l) - 1) : l[p - x + 1] = p
  <2>1. \A p \in x..(x + Len(l) - 1) : p - x + 1 \in 1..Len(l) /\ x + (p - x + 1) - 1 = p
    BY <1>1, <1>3
  <2>2. QED
    BY <1>1, <2>1
<1>5. \A p \in Positions : line[p] = p => line'[p] = p
  BY <1>2, <1>4
<1>6. ASSUME NEW j \in 1..Len(l) PROVE line'[l[j]] = l[j]
  <2>1. x + j - 1 \in Positions /\ x + j - 1 \in x..(x + Len(l) - 1)
    BY <1>1, <1>3 DEF Positions
  <2>2. line'[x + j - 1] = x + j - 1
    BY <1>2, <1>4, <2>1
  <2>3. QED
    BY <1>1, <2>2
<1>7. QED
  BY <1>5, <1>6 DEF l, AllInPlace

(* A slice that goes on passes the items of its chunk. *)
LEMMA PassedByChunk ==
  ASSUME UploadInv, \A i \in Items : cache[i] # "absent",
         NEW s \in Slices, NextChunk(s),
         NEW t \in Slices, NEW i \in Items, Passed(t, i)'
  PROVE  Passed(t, i) \/ i \in Range(Chunk(s))
<1>1. offset \in [Slices -> Nat] /\ ChunkSize \in Nat
  BY UploadAssumption DEF UploadInv
<1>2. offset' = [offset EXCEPT ![s] = @ + ChunkSize]
  BY DEF NextChunk
<1>3. (t - 1) * SliceSize <= i /\ i < End(t) /\ i < (t - 1) * SliceSize + offset'[t]
  BY DEF Passed, Before, End
<1>4. CASE t # s
  BY <1>1, <1>2, <1>3, <1>4 DEF Passed, Before
<1>5. CASE t = s
  <2>1. offset[s] \in Nat /\ offset'[s] = offset[s] + ChunkSize
    BY <1>1, <1>2
  <2>2. Before(s) \in Nat /\ i \in Nat /\ (s - 1) * SliceSize \in Nat
    BY <2>1, SliceBounds DEF Items
  <2>3. i < Before(s) + ChunkSize
    <3> DEFINE m == (s - 1) * SliceSize
    <3>1. i < m + offset'[s] /\ m \in Nat /\ Before(s) = m + offset[s]
      BY <1>3, <1>5, <2>2 DEF Before
    <3> HIDE DEF m
    <3>2. QED
      BY <1>1, <2>1, <2>2, <3>1
  <2>4. CASE i < Before(s)
    BY <1>3, <1>5, <2>4 DEF Passed
  <2>5. CASE ~(i < Before(s))
    <3>1. Before(s) <= i
      BY <2>2, <2>5
    <3>2. PICK p \in 1..Len(Chunk(s)) : Chunk(s)[p] = i
      BY <1>3, <1>5, <2>1, <2>3, <3>1, TransactionInPlace
    <3>3. DOMAIN Chunk(s) = 1..Len(Chunk(s))
      BY <2>1, ChunkIsPartOfKeys
    <3>4. QED
      BY <3>2, <3>3 DEF Range
  <2>6. QED
    BY <2>4, <2>5
<1>6. QED
  BY <1>4, <1>5

(* When no slice has anything left to do, every item has been passed. *)
LEMMA AllPassed ==
  ASSUME UploadInv, \A i \in Items : cache[i] # "absent",
         \A s \in Slices : Chunk(s) = <<>>, PassedAreOnChain
  PROVE  \A i \in Items : cache[i] = "onChain"
<1> SUFFICES ASSUME NEW i \in Items PROVE cache[i] = "onChain"
  OBVIOUS
<1>1. PICK s \in Slices : (s - 1) * SliceSize <= i /\ i < End(s)
  BY SlicesCover
<1>2. offset[s] \in Nat
  BY DEF UploadInv
<1>3. /\ i \in Nat /\ Before(s) \in Nat /\ End(s) \in Nat
      /\ ChunkSize \in Nat /\ ChunkSize > 0 /\ i <= Lines - 1 /\ Lines \in Nat
  BY <1>2, SliceBounds, CandyAssumption DEF Items
<1>4. Len(Chunk(s)) = 0
  BY EmptySeq
<1>5. ~(Before(s) <= i)
  <2> SUFFICES ASSUME Before(s) <= i PROVE FALSE
    OBVIOUS
  <2>1. Before(s) \in Items /\ Before(s) < Before(s) + ChunkSize /\ Before(s) < End(s)
        /\ Before(s) <= Before(s)
    BY <1>1, <1>3 DEF Items
  <2>2. \E p \in 1..Len(Chunk(s)) : Chunk(s)[p] = Before(s)
    BY <1>2, <2>1, TransactionInPlace
  <2>3. QED
    BY <1>4, <2>2
<1>6. Passed(s, i)
  BY <1>1, <1>3, <1>5 DEF Passed
<1>7. QED
  BY <1>6 DEF PassedAreOnChain

(* What verify found stays true: every chunk sent after it is cut from all *)
(* the keys, so its index is the place of its first item.                  *)
LEMMA VerifiedInvStays ==
  UploadInv /\ VerifiedInv /\ [Next]_vars => VerifiedInv'
<1> SUFFICES ASSUME UploadInv, VerifiedInv, [Next]_vars, verified' PROVE VerifiedInv'
  BY DEF VerifiedInv
<1>0. cache \in [Items -> States] /\ offset \in [Slices -> Nat]
      /\ \A s \in Slices : offset[s] \in Nat
  BY DEF UploadInv
<1>1. ASSUME verified
      PROVE  /\ hasConfig
             /\ \A i \in Items : cache[i] # "absent"
             /\ \A i \in Items : cache[i] = "onChain" => line[i] = i
             /\ \A tx \in late : InPlace(tx)
             /\ phase = "writing" /\ ~failed => PassedAreOnChain
             /\ phase = "uploaded" \/ ready => AllInPlace
  BY <1>1 DEF VerifiedInv
<1>2. ASSUME NEW s \in Slices, waiting[s], verified
      PROVE  Fits(Transaction(s)) /\ InPlace(Transaction(s))
  <2>1. Chunk(s) # <<>>
    BY <1>2 DEF UploadInv
  <2>2. QED
    BY <1>0, <1>1, <1>2, <2>1, TransactionFits, TransactionInPlace
<1>3. CASE StartUpload
  <2>1. /\ UNCHANGED <<line, hasConfig, cache, late, verified>>
        /\ phase' = "storing" /\ ~ready'
    BY <1>3 DEF StartUpload, candyVars, history
  <2>2. QED
    BY <1>1, <2>1 DEF VerifiedInv
<1>4. CASE CreateConfig
  <2>1. UNCHANGED verified /\ ~hasConfig
    BY <1>4 DEF CreateConfig, history
  <2>2. QED
    BY <1>1, <2>1
<1>5. CASE StoreImage
  <2>1. UNCHANGED <<line, hasConfig, phase, late, ready, verified>> /\ phase = "storing"
    BY <1>5 DEF StoreImage, candyVars, history
  <2>2. \A i \in Items : /\ cache[i] # "absent" => cache'[i] # "absent"
                         /\ cache'[i] = "onChain" => cache[i] = "onChain"
    BY <1>0, <1>5 DEF StoreImage
  <2>3. AllInPlace' <=> AllInPlace
    BY <2>1 DEF AllInPlace
  <2>4. QED
    BY <1>1, <2>1, <2>2, <2>3 DEF VerifiedInv
<1>6. CASE StartWriting
  <2>1. /\ UNCHANGED <<line, hasConfig, cache, late, ready, verified, offset>>
        /\ phase' = "writing" /\ phase = "storing"
    BY <1>6 DEF StartWriting, candyVars, history
  <2>2. \A s \in Slices : offset'[s] = 0
    BY <2>1 DEF UploadInv, Resting
  <2>3. \A s \in Slices, i \in Items : ~Passed(s, i)'
    <3> SUFFICES ASSUME NEW s \in Slices, NEW i \in Items, Passed(s, i)' PROVE FALSE
      OBVIOUS
    <3> DEFINE m == (s - 1) * SliceSize
    <3>1. m \in Nat /\ i \in Nat
      BY <1>0, SliceBounds DEF Items
    <3>2. m <= i /\ i < m + 0
      BY <2>2 DEF Passed, Before
    <3> HIDE DEF m
    <3>3. QED
      BY <3>1, <3>2
  <2>4. PassedAreOnChain'
    BY <2>3 DEF PassedAreOnChain
  <2>5. AllInPlace' <=> AllInPlace
    BY <2>1 DEF AllInPlace
  <2>6. QED
    BY <1>1, <2>1, <2>4, <2>5 DEF VerifiedInv
<1>7. ASSUME NEW s \in Slices, PassChunk(s) PROVE VerifiedInv'
  <2>1. /\ UNCHANGED <<line, hasConfig, cache, phase, late, ready, verified>>
        /\ phase = "writing" /\ NextChunk(s)
        /\ ~failed' => ~failed /\ Written(s)
    <3>1. /\ UNCHANGED <<line, hasConfig, cache, phase, late, ready, verified>>
          /\ phase = "writing" /\ NextChunk(s)
      BY <1>7 DEF PassChunk, AtChunk, candyVars, history
    <3>2. (Written(s) /\ failed' = failed) \/ failed' = TRUE
      BY <1>7 DEF PassChunk
    <3>3. ~failed' => ~failed /\ Written(s)
      BY <3>2, Zenon
    <3>4. QED
      BY <3>1, <3>3
  <2>2. ASSUME ~failed' PROVE PassedAreOnChain'
    <3>1. \A i \in Range(Chunk(s)) : cache[i] = "onChain"
      BY <2>1, <2>2 DEF Written, InChunk, Range
    <3>2. \A t \in Slices, i \in Items : Passed(t, i)' => cache[i] = "onChain"
      BY <1>1, <2>1, <2>2, <3>1, PassedByChunk DEF PassedAreOnChain
    <3>3. QED
      BY <2>1, <3>2 DEF PassedAreOnChain
  <2>3. AllInPlace' <=> AllInPlace
    BY <2>1 DEF AllInPlace
  <2>4. QED
    BY <1>1, <2>1, <2>2, <2>3 DEF VerifiedInv
<1>8. ASSUME NEW s \in Slices, SendChunk(s) PROVE VerifiedInv'
  <2>1. UNCHANGED <<line, hasConfig, cache, phase, offset, failed, late, ready, verified>>
    BY <1>8 DEF SendChunk, candyVars, history
  <2>2. VerifiedInv' <=> VerifiedInv
    BY <2>1 DEF VerifiedInv, AllInPlace, PassedAreOnChain, Passed, Before
  <2>3. QED
    BY <2>2
<1>9. ASSUME NEW s \in Slices, ConfirmChunk(s) PROVE VerifiedInv'
  <2>1. /\ UNCHANGED <<hasConfig, phase, failed, late, ready, verified>>
        /\ waiting[s] /\ NextChunk(s) /\ cache' = Flagged(Range(Chunk(s)))
        /\ AddConfigLines(Transaction(s).index, Transaction(s).lines)
    BY <1>9 DEF ConfirmChunk, history
  <2>2. verified /\ phase = "writing"
    BY <2>1, RestingWaitsForNothing DEF UploadInv
  <2>3. /\ \A p \in Positions : line[p] = p => line'[p] = p
        /\ \A j \in 1..Len(Chunk(s)) : line'[Chunk(s)[j]] = Chunk(s)[j]
        /\ AllInPlace => AllInPlace'
    <3>1. Fits(Transaction(s)) /\ InPlace(Transaction(s))
      BY <1>2, <2>1, <2>2
    <3>2. Transaction(s).lines = Chunk(s)
      BY DEF Transaction
    <3> HIDE DEF Transaction
    <3>3. QED
      BY <2>1, <3>1, <3>2, AddedInPlace
  <2>4. \A i \in Range(Chunk(s)) : line'[i] = i
    <3>1. DOMAIN Chunk(s) = 1..Len(Chunk(s))
      BY <1>0, ChunkIsPartOfKeys
    <3>2. QED
      BY <2>3, <3>1 DEF Range
  <2>5. \A i \in Items : cache'[i] = IF i \in Range(Chunk(s)) THEN "onChain" ELSE cache[i]
    BY <2>1 DEF Flagged
  <2>6. ASSUME ~failed' PROVE PassedAreOnChain'
    <3>1. \A t \in Slices, i \in Items : Passed(t, i)' => cache'[i] = "onChain"
      BY <1>1, <2>1, <2>2, <2>5, <2>6, PassedByChunk DEF PassedAreOnChain
    <3>2. QED
      BY <3>1 DEF PassedAreOnChain
  <2>7. \A i \in Items : cache'[i] = "onChain" => line'[i] = i
    BY <1>1, <2>2, <2>3, <2>4, <2>5 DEF Items, Positions
  <2>8. \A i \in Items : cache'[i] # "absent"
    BY <1>1, <2>2, <2>5
  <2>9. QED
    BY <1>1, <2>1, <2>2, <2>3, <2>6, <2>7, <2>8 DEF VerifiedInv
<1>10. ASSUME NEW s \in Slices, LoseChunk(s) PROVE VerifiedInv'
  <2>1. /\ UNCHANGED <<line, hasConfig, cache, phase, ready, verified>>
        /\ failed' = TRUE /\ waiting[s] /\ late' \in {late, late \cup {Transaction(s)}}
    BY <1>10 DEF LoseChunk, candyVars, history
  <2>2. \A tx \in late' : InPlace(tx)
    BY <1>1, <1>2, <2>1
  <2>3. AllInPlace' <=> AllInPlace
    BY <2>1 DEF AllInPlace
  <2>4. QED
    BY <1>1, <2>1, <2>2, <2>3 DEF VerifiedInv
<1>11. CASE FinishUpload
  <2>1. /\ UNCHANGED <<line, hasConfig, cache, late, ready, verified>>
        /\ phase = "writing" /\ \A s \in Slices : Chunk(s) = <<>>
        /\ phase' = IF failed THEN "storing" ELSE "uploaded"
    BY <1>11 DEF FinishUpload, candyVars, history
  <2>2. ASSUME ~failed PROVE AllInPlace
    <3>1. \A i \in Items : cache[i] = "onChain"
      BY <1>1, <2>1, <2>2, AllPassed
    <3>2. QED
      BY <1>1, <2>1, <3>1 DEF AllInPlace, Items, Positions
  <2>3. AllInPlace' <=> AllInPlace
    BY <2>1 DEF AllInPlace
  <2>4. QED
    BY <1>1, <2>1, <2>2, <2>3 DEF VerifiedInv
<1>12. CASE Abort
  <2>1. UNCHANGED <<line, hasConfig, cache, ready, verified>> /\ phase' = "stopped"
    BY <1>12 DEF Abort, candyVars, history
  <2>2. PICK S \in SUBSET {s \in Slices : waiting[s]} :
          late' = late \cup {Transaction(s) : s \in S}
    BY <1>12 DEF Abort
  <2>3. \A tx \in late' : InPlace(tx)
    BY <1>1, <1>2, <2>1, <2>2
  <2>4. AllInPlace' <=> AllInPlace
    BY <2>1 DEF AllInPlace
  <2>5. QED
    BY <1>1, <2>1, <2>3, <2>4 DEF VerifiedInv
<1>13. CASE Verify
  <2>1. /\ hasConfig /\ UNCHANGED <<line, hasConfig, late>>
        /\ cache' = Unflagged /\ phase' = "stopped"
        /\ ready' => CheckedOut
        /\ verified \/ (late = {} /\ Len(Keys) = Lines)
    BY <1>13 DEF Verify, candyVars
  <2>2. \A i \in Items : cache[i] # "absent"
    BY <1>1, <2>1, AsManyKeys DEF Keys
  <2>3. Len(Keys) = Lines /\ \A p \in 1..Lines : Keys[p] = p - 1
    BY <2>2, AllKeys DEF Keys
  <2>4. DOMAIN Keys = 1..Lines /\ Lines \in Nat
    <3>1. Keys \in Seq(Items)
      BY KeysAscend DEF Keys, Ascending
    <3>2. QED
      BY <2>3, <3>1, CandyAssumption
  <2>5. \A i \in Items : i + 1 \in DOMAIN Keys /\ Keys[i + 1] = i /\ i + 1 - 1 = i
    BY <2>3, <2>4 DEF Items
  <2>6. \A i \in Items : cache'[i] # "absent" /\ (cache'[i] = "onChain" => line'[i] = i)
    <3> SUFFICES ASSUME NEW i \in Items
                 PROVE  cache'[i] # "absent" /\ (cache'[i] = "onChain" => line'[i] = i)
      OBVIOUS
    <3>1. CASE cache[i] = "onChain" /\ \E p \in DOMAIN Keys : Keys[p] = i /\ line[p - 1] # i
      <4>1. cache'[i] = "stored"
        BY <2>1, <3>1 DEF Unflagged
      <4>2. QED
        BY <4>1
    <3>2. CASE ~(cache[i] = "onChain" /\ \E p \in DOMAIN Keys : Keys[p] = i /\ line[p - 1] # i)
      <4>1. cache'[i] = cache[i]
        BY <2>1, <3>2 DEF Unflagged
      <4>2. cache[i] = "onChain" => line[i] = i
        <5> SUFFICES ASSUME cache[i] = "onChain", line[i] # i PROVE FALSE
          OBVIOUS
        <5>1. PICK q \in DOMAIN Keys : q = i + 1
          BY <2>5
        <5>2. Keys[q] = i /\ q - 1 = i
          BY <2>5, <5>1 DEF Items
        <5>3. line[q - 1] # i
          BY <5>2
        <5>4. QED
          BY <3>2, <5>2, <5>3, Zenon
      <4>3. QED
        BY <2>1, <2>2, <4>1, <4>2
    <3>3. QED
      BY <3>1, <3>2
  <2>7. \A tx \in late' : InPlace(tx)
    BY <1>1, <2>1
  <2>8. ready' => AllInPlace'
    BY <2>1, <2>5 DEF CheckedOut, AllInPlace, Items, Positions
  <2>9. QED
    BY <2>1, <2>6, <2>7, <2>8 DEF VerifiedInv
<1>14. ASSUME NEW tx \in late, LandLate(tx) PROVE VerifiedInv'
  <2>1. /\ UNCHANGED <<hasConfig, cache, phase, offset, failed, ready, verified>>
        /\ late' = late \ {tx} /\ AddConfigLines(tx.index, tx.lines)
    BY <1>14 DEF LandLate, uploadVars, history
  <2>2. Fits(tx) /\ InPlace(tx)
    BY <1>1, <2>1 DEF UploadInv
  <2>3. /\ \A p \in Positions : line[p] = p => line'[p] = p
        /\ AllInPlace => AllInPlace'
    BY <2>1, <2>2, AddedInPlace
  <2>4. PassedAreOnChain' <=> PassedAreOnChain
    BY <2>1 DEF PassedAreOnChain, Passed, Before
  <2>5. \A i \in Items : cache'[i] = "onChain" => line'[i] = i
    BY <1>1, <2>1, <2>3 DEF Items, Positions
  <2>6. QED
    BY <1>1, <2>1, <2>3, <2>4, <2>5 DEF VerifiedInv
<1>15. ASSUME UNCHANGED <<line, uploadVars, verified>>, late' \subseteq late PROVE VerifiedInv'
  <2>1. UNCHANGED <<line, hasConfig, cache, phase, offset, failed, ready, verified>>
    BY <1>15 DEF uploadVars
  <2>2. (PassedAreOnChain' <=> PassedAreOnChain) /\ (AllInPlace' <=> AllInPlace)
    BY <2>1 DEF PassedAreOnChain, Passed, Before, AllInPlace
  <2>3. QED
    BY <1>1, <1>15, <2>1, <2>2 DEF VerifiedInv
<1>16. CASE CreateMachine \/ (\E date \in {"future", "past"} : SetStartDate(date))
            \/ (\E payer \in Payers : Mint(payer)) \/ GoLive
  <2>1. UNCHANGED <<line, uploadVars, late, verified>>
    BY <1>16 DEF CreateMachine, InitializeCandyMachine, SetStartDate, UpdateCandyMachine,
                 Mint, MintNft, GoLive, DateArrives, history
  <2>2. QED
    BY <1>15, <2>1
<1>17. ASSUME NEW tx \in late, Expire(tx) PROVE VerifiedInv'
  <2>1. UNCHANGED <<line, uploadVars, verified>> /\ late' \subseteq late
    BY <1>17 DEF Expire, candyVars, history
  <2>2. QED
    BY <1>15, <2>1
<1>18. CASE UNCHANGED vars
  <2>1. UNCHANGED <<line, uploadVars, late, verified>>
    BY <1>18 DEF vars, candyVars, history
  <2>2. QED
    BY <1>15, <2>1
<1>19. QED
  BY <1>3, <1>4, <1>5, <1>6, <1>7, <1>8, <1>9, <1>10, <1>11, <1>12, <1>13, <1>14, <1>16, <1>17,
     <1>18 DEF Next

(* What a candy machine account can hold.                                  *)
Machines == [exists : BOOLEAN, available : 0..Lines, redeemed : Nat,
             goLive : {"unset", "future", "past"}]

(* The machine mints from the front, and one created when all was ready    *)
(* from lines that stay in place.                                          *)
MachineInv ==
  /\ machine \in Machines
  /\ minted \in Seq(Items \cup {Blank})
  /\ Len(minted) = machine.redeemed
  /\ ~machine.exists => machine.redeemed = 0
  /\ sound => /\ verified /\ machine.exists /\ AllInPlace
              /\ \A i \in 1..Len(minted) : minted[i] = i - 1

(* At first there is no machine.                                           *)
LEMMA MachineInvHolds == Init => MachineInv
<1> SUFFICES ASSUME Init PROVE MachineInv
  OBVIOUS
<1>1. /\ machine \in Machines /\ machine.redeemed = 0 /\ minted = <<>> /\ ~sound
  BY CandyAssumption DEF Init, CandyInit, NoMachine, Machines
<1>2. Len(minted) = 0 /\ minted \in Seq(Items \cup {Blank})
  BY <1>1, EmptySeq
<1>3. QED
  BY <1>1, <1>2 DEF MachineInv

(* A mint takes the next line, and the machine is created only once.       *)
LEMMA MachineInvStays ==
  UploadInv /\ LinesInv /\ VerifiedInv /\ MachineInv /\ [Next]_vars => MachineInv'
<1> SUFFICES ASSUME UploadInv, LinesInv, VerifiedInv, MachineInv, [Next]_vars PROVE MachineInv'
  OBVIOUS
<1>1. /\ machine \in Machines /\ machine.available \in 0..Lines /\ machine.redeemed \in Nat
      /\ minted \in Seq(Items \cup {Blank}) /\ Len(minted) = machine.redeemed
      /\ ~machine.exists => machine.redeemed = 0
      /\ sound => /\ verified /\ machine.exists /\ AllInPlace
                  /\ \A i \in 1..Len(minted) : minted[i] = i - 1
  BY DEF MachineInv, Machines
<1>2. ASSUME UNCHANGED <<machine, minted, sound>>, verified => verified', AllInPlace => AllInPlace'
      PROVE  MachineInv'
  BY <1>1, <1>2 DEF MachineInv
<1>3. ASSUME UNCHANGED <<line, machine, minted, sound>>, verified => verified' PROVE MachineInv'
  <2>1. AllInPlace' <=> AllInPlace
    BY <1>3 DEF AllInPlace
  <2>2. QED
    BY <1>2, <1>3, <2>1
<1>4. ASSUME UNCHANGED <<candyVars, history>> PROVE MachineInv'
  BY <1>3, <1>4 DEF candyVars, history
<1>5. ASSUME NEW tx, Fits(tx), verified => InPlace(tx), AddConfigLines(tx.index, tx.lines),
             UNCHANGED history
      PROVE  MachineInv'
  <2>1. UNCHANGED <<machine, minted, sound, verified>>
    BY <1>5 DEF AddConfigLines, history
  <2>2. verified /\ AllInPlace => AllInPlace'
    BY <1>5, AddedInPlace
  <2>3. CASE verified
    BY <1>2, <2>1, <2>2, <2>3
  <2>4. CASE ~verified
    BY <1>1, <2>1, <2>4 DEF MachineInv
  <2>5. QED
    BY <2>3, <2>4
<1>6. CASE CreateConfig
  <2>1. ~hasConfig /\ UNCHANGED <<machine, minted, verified, sound>>
    BY <1>6 DEF CreateConfig, InitializeConfig, candyVars, history
  <2>2. ~verified
    BY <2>1 DEF VerifiedInv
  <2>3. QED
    BY <1>1, <2>1, <2>2 DEF MachineInv
<1>7. ASSUME NEW s \in Slices, ConfirmChunk(s) PROVE MachineInv'
  <2>1. Chunk(s) # <<>> /\ offset[s] \in Nat
    BY <1>7 DEF ConfirmChunk, UploadInv
  <2>2. Fits(Transaction(s)) /\ (verified => InPlace(Transaction(s)))
    BY <2>1, TransactionFits, TransactionInPlace DEF VerifiedInv
  <2>3. QED
    BY <1>5, <1>7, <2>2 DEF ConfirmChunk
<1>8. ASSUME NEW tx \in late, LandLate(tx) PROVE MachineInv'
  BY <1>5, <1>8 DEF LandLate, UploadInv, VerifiedInv
<1>9. CASE Verify
  <2>1. UNCHANGED <<line, machine, minted, sound>>
    BY <1>9 DEF Verify, candyVars
  <2>2. verified' = (verified \/ (late = {} /\ Len(Keys) = Lines))
    BY <1>9 DEF Verify
  <2>3. verified => verified'
    BY <2>2, Zenon
  <2>4. QED
    BY <1>3, <2>1, <2>3
<1>10. CASE CreateMachine
  <2>1. /\ ~machine.exists /\ UNCHANGED <<line, minted, verified>>
        /\ machine' = [NoMachine EXCEPT !.exists = TRUE, !.available = Len(Keys)]
    BY <1>10 DEF CreateMachine, InitializeCandyMachine
  <2>2. machine'.exists /\ machine'.redeemed = 0
        /\ (Len(Keys) \in 0..Lines => machine' \in Machines)
    BY <2>1 DEF NoMachine, Machines
  <2>3. Len(Keys) \in 0..Lines
    <3>1. Ascending(Keys, Lines)
      BY KeysAscend DEF Keys
    <3>2. Keys \in Seq(Items) /\ Len(Keys) \in Nat /\ Lines \in Nat
      BY <3>1, CandyAssumption DEF Ascending
    <3>3. CASE Len(Keys) > 0
      <4>1. 1 \in 1..Len(Keys) /\ Keys[1] \in Items
        BY <3>2, <3>3, ElementOfSeq
      <4>2. Keys[1] + (Len(Keys) - 1) < Lines
        BY <3>1, <4>1 DEF Ascending
      <4>3. QED
        BY <3>2, <4>1, <4>2 DEF Items
    <3>4. QED
      BY <3>2, <3>3
  <2>4. sound' = (ready /\ verified)
    BY <1>10 DEF CreateMachine
  <2>5. sound' => ready /\ verified
    BY <2>4, Zenon
  <2>6. sound' => verified' /\ AllInPlace'
    BY <2>1, <2>5 DEF VerifiedInv, AllInPlace
  <2>7. Len(minted') = 0
    BY <1>1, <2>1
  <2>8. QED
    BY <1>1, <2>1, <2>2, <2>3, <2>6, <2>7 DEF MachineInv
<1>11. ASSUME NEW date \in {"future", "past"}, machine' = [machine EXCEPT !.goLive = date],
              UNCHANGED <<line, minted, verified, sound>>
       PROVE  MachineInv'
  <2>1. /\ machine' \in Machines /\ machine'.redeemed = machine.redeemed
        /\ machine'.exists = machine.exists
    BY <1>1, <1>11 DEF Machines
  <2>2. AllInPlace' <=> AllInPlace
    BY <1>11 DEF AllInPlace
  <2>3. QED
    BY <1>1, <1>11, <2>1, <2>2 DEF MachineInv
<1>12. CASE (\E date \in {"future", "past"} : SetStartDate(date)) \/ GoLive
  BY <1>11, <1>12 DEF SetStartDate, UpdateCandyMachine, GoLive, DateArrives, history
<1>13. ASSUME NEW payer \in Payers, Mint(payer) PROVE MachineInv'
  <2>1. /\ machine.exists /\ machine.redeemed < machine.available
        /\ minted' = Append(minted, line[machine.redeemed])
        /\ machine' = [machine EXCEPT !.redeemed = @ + 1]
        /\ UNCHANGED <<line, verified, sound>>
    BY <1>13 DEF Mint, MintNft, history
  <2> DEFINE r == machine.redeemed
  <2>2. r \in Positions /\ line[r] \in Items \cup {Blank}
    BY <1>1, <2>1, CandyAssumption DEF Positions, LinesInv, MaskIsLines
  <2>3. /\ machine' \in Machines /\ machine'.redeemed = r + 1
        /\ machine'.exists = machine.exists
    <3>1. machine \in [exists : BOOLEAN, available : 0..Lines, redeemed : Nat,
                       goLive : {"unset", "future", "past"}]
      BY <1>1 DEF Machines
    <3>2. r + 1 \in Nat /\ machine' = [machine EXCEPT !.redeemed = r + 1]
      BY <1>1, <2>1
    <3> HIDE DEF r
    <3>3. machine' \in [exists : BOOLEAN, available : 0..Lines, redeemed : Nat,
                        goLive : {"unset", "future", "past"}]
      BY <3>1, <3>2
    <3>4. QED
      BY <3>1, <3>2, <3>3 DEF Machines
  <2>4. /\ minted' \in Seq(Items \cup {Blank}) /\ Len(minted') = Len(minted) + 1
        /\ \A i \in 1..Len(minted) : minted'[i] = minted[i]
        /\ minted'[Len(minted) + 1] = line[r]
    BY <1>1, <2>1, <2>2, AppendProperties
  <2>5. AllInPlace' <=> AllInPlace
    BY <2>1 DEF AllInPlace
  <2>6. ASSUME sound PROVE \A i \in 1..Len(minted') : minted'[i] = i - 1
    <3>1. line[r] = r
      BY <1>1, <2>2, <2>6 DEF AllInPlace
    <3>2. \A i \in 1..Len(minted') : i \in 1..Len(minted) \/ i = Len(minted) + 1
      BY <1>1, <2>4
    <3>3. Len(minted) + 1 - 1 = r
      BY <1>1
    <3>4. QED
      BY <1>1, <2>4, <2>6, <3>1, <3>2, <3>3
  <2> HIDE DEF r
  <2>7. r \in Nat /\ Len(minted') = r + 1 /\ Len(minted) = r
    BY <1>1, <2>4 DEF r
  <2>8. QED
    BY <1>1, <2>1, <2>3, <2>4, <2>5, <2>6, <2>7 DEF MachineInv
<1>14. CASE StartUpload \/ StoreImage \/ StartWriting \/ FinishUpload \/ Abort
  BY <1>4, <1>14 DEF StartUpload, StoreImage, StartWriting, FinishUpload, Abort
<1>15. ASSUME NEW s \in Slices, PassChunk(s) \/ SendChunk(s) \/ LoseChunk(s) PROVE MachineInv'
  BY <1>4, <1>15 DEF PassChunk, SendChunk, LoseChunk
<1>16. ASSUME NEW tx \in late, Expire(tx) PROVE MachineInv'
  BY <1>4, <1>16 DEF Expire
<1>17. CASE UNCHANGED vars
  BY <1>4, <1>17 DEF vars
<1>18. QED
  BY <1>6, <1>7, <1>8, <1>9, <1>10, <1>12, <1>13, <1>14, <1>15, <1>16, <1>17 DEF Next

(* An upload that ends well after a verify that saw every item leaves every *)
(* item on its own line: what it passed is flagged, and flags do not lie.  *)
THEOREM VerifiedUploadMends == Spec => []UploadMends
<1>1. Init => UploadInv /\ VerifiedInv
  BY UploadInvHolds DEF Init, VerifiedInv
<1>2. UploadInv /\ VerifiedInv /\ [Next]_vars => UploadInv' /\ VerifiedInv'
  BY UploadInvStays, VerifiedInvStays
<1>3. VerifiedInv => UploadMends
  BY DEF VerifiedInv, UploadMends, AllInPlace
<1>4. QED
  BY <1>1, <1>2, <1>3, PTL DEF Spec

(* A machine created once verify said "ready to deploy" mints every item   *)
(* once and in order: its lines are in place and none is ever moved.       *)
THEOREM SoundMachineMintsInOrder == Spec => []MintsInOrder
<1>1. Init => UploadInv /\ LinesInv /\ VerifiedInv /\ MachineInv
  BY UploadInvHolds, NoLineCounted, MachineInvHolds DEF Init, CandyInit, LinesInv, VerifiedInv
<1>2. UploadInv /\ LinesInv /\ VerifiedInv /\ MachineInv /\ [Next]_vars
        => UploadInv' /\ LinesInv' /\ VerifiedInv' /\ MachineInv'
  BY UploadInvStays, LinesInvStays, VerifiedInvStays, MachineInvStays
<1>3. MachineInv => MintsInOrder
  <2> SUFFICES ASSUME MachineInv, sound PROVE minted = [i \in DOMAIN minted |-> i - 1]
    BY DEF MintsInOrder
  <2>1. minted \in Seq(Items \cup {Blank}) /\ \A i \in 1..Len(minted) : minted[i] = i - 1
    BY DEF MachineInv
  <2>2. DOMAIN minted = 1..Len(minted) /\ minted = [i \in DOMAIN minted |-> minted[i]]
    BY <2>1
  <2>3. QED
    BY <2>1, <2>2
<1>4. QED
  BY <1>1, <1>2, <1>3, PTL DEF Spec

================================================================================
