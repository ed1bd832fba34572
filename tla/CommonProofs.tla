----------------------------- MODULE CommonProofs -----------------------------
(***************************************************************************)
(* Proofs about the two contexts of the common package that every page     *)
(* shares.                                                                 *)
(*                                                                         *)
(* Module TxSender, for any number of items, any size of transactions and  *)
(* batches, and any needs among the transactions of a sale: a job hands    *)
(* every item over once, and a sale reported as created is on the chain    *)
(* unless the sender was blind.                                            *)
(*                                                                         *)
(* Module AccountCache, for any wallets, accounts and numbers of changes:  *)
(* the pages list no account of another wallet.                            *)
(***************************************************************************)
EXTENDS TxSender, AccountCache, SequenceTheorems, TLAPS

-----------------------------------------------------------------------------
(* Packing.                                                                *)

(* The jobs whose loop cannot step over the size of a transaction.         *)
Exact == {"claim", "settle", "mint"}

InBatch(i) == \E k \in DOMAIN batch : i \in batch[k]
InPacked(i) == \E b \in DOMAIN packed : \E k \in DOMAIN packed[b] : i \in packed[b][k]

PackTyped ==
  /\ given \in 0..MaxItems
  /\ open \in [items : SUBSET (1..given), count : Nat]
  /\ batch \in Seq(SUBSET (1..given))
  /\ packed \in Seq(Seq(SUBSET (1..given)))

(* Each item taken is in exactly one place: open, in the batch or handed   *)
(* over.                                                                   *)
Placed == \A i \in 1..given : i \in open.items \/ InBatch(i) \/ InPacked(i)

PackedApart ==
  \A b, c \in DOMAIN packed : \A k \in DOMAIN packed[b], l \in DOMAIN packed[c] :
    packed[b][k] \cap packed[c][l] # {} => b = c /\ k = l

Apart ==
  /\ \A i \in open.items : ~InBatch(i) /\ ~InPacked(i)
  /\ \A i \in 1..given : InBatch(i) => ~InPacked(i)
  /\ \A k, l \in DOMAIN batch : batch[k] \cap batch[l] # {} => k = l
  /\ PackedApart

(* What is open is short of a transaction, and the batch of a batch.       *)
Short ==
  /\ Len(batch) < BatchSize
  /\ open.count < TransactionSize[job]
  /\ open.items # {} => open.count > 0
  /\ job = "mint" => open.count = 0

PackInv ==
  job \in Exact =>
    IF packing THEN PackTyped /\ Placed /\ Apart /\ Short ELSE PacksAll

(* Nothing has been taken before the loop. *)
LEMMA PackInit0 == Init => PackInv
<1> SUFFICES ASSUME Init, job \in Exact PROVE PackTyped /\ Placed /\ Apart /\ Short
  BY DEF PackInv, Init, Exact, Jobs
<1>1. /\ given = 0 /\ open = [items |-> {}, count |-> 0]
      /\ batch = <<>> /\ packed = <<>>
  BY DEF Init, PackInit, Empty
<1>2. /\ MaxItems \in Nat /\ BatchSize > 0 /\ TransactionSize[job] > 0
      /\ BatchSize \in Nat /\ TransactionSize[job] \in Nat
  BY BatchesAssumption DEF Exact, Jobs
<1>3. PackTyped
  BY <1>1, <1>2 DEF PackTyped
<1>4. Placed /\ Apart
  BY <1>1 DEF Placed, Apart, PackedApart, InBatch, InPacked
<1>5. Short
  BY <1>1, <1>2 DEF Short
<1>6. QED
  BY <1>3, <1>4, <1>5

(* A loop that does not close a transaction has left room in it.           *)
LEMMA LeavesRoom ==
  ASSUME job \in Exact, Short, open.count \in Nat, NEW n \in Adds[job]
  PROVE  /\ n \in Nat /\ n > 0
         /\ ~Closes(job, open.count + n) =>
              /\ open.count + n < TransactionSize[job]
              /\ job # "mint"
<1>1. n \in Nat /\ n > 0 /\ TransactionSize[job] \in Nat
  BY BatchesAssumption DEF Exact, Jobs
<1>2. CASE job = "claim"
  BY <1>1, <1>2, AddsAssumption DEF Closes, ClosesClaims, Short
<1>3. CASE job = "settle"
  BY <1>1, <1>3 DEF Closes, ClosesSettlements, Short
<1>4. CASE job = "mint"
  BY <1>1, <1>4, AddsAssumption DEF Closes, ClosesEditions, Short
<1>5. QED
  BY <1>2, <1>3, <1>4 DEF Exact

(* What Append does, in the form the next proofs use.                      *)
LEMMA Appended ==
  ASSUME NEW S, NEW s \in Seq(S), NEW e \in S
  PROVE  /\ Append(s, e) \in Seq(S)
         /\ Len(s) \in Nat
         /\ DOMAIN s = 1..Len(s)
         /\ Len(Append(s, e)) = Len(s) + 1
         /\ DOMAIN Append(s, e) = 1..(Len(s) + 1)
         /\ Append(s, e)[Len(s) + 1] = e
         /\ \A k \in 1..Len(s) : Append(s, e)[k] = s[k]
<1>1. /\ Append(s, e) \in Seq(S) /\ Len(s) \in Nat /\ DOMAIN s = 1..Len(s)
      /\ Len(Append(s, e)) = Len(s) + 1
      /\ Append(s, e)[Len(s) + 1] = e
      /\ \A k \in 1..Len(s) : Append(s, e)[k] = s[k]
  OBVIOUS
<1>2. DOMAIN Append(s, e) = 1..Len(Append(s, e))
  BY <1>1
<1>3. QED
  BY <1>1, <1>2

(* A batch that shares nothing with those handed over joins them.          *)
LEMMA StaysApart ==
  ASSUME NEW S, packed \in Seq(Seq(SUBSET S)), NEW full \in Seq(SUBSET S),
         packed' = Append(packed, full), PackedApart,
         \A b \in DOMAIN packed : \A k \in DOMAIN packed[b] :
           \A l \in DOMAIN full : packed[b][k] \cap full[l] = {},
         \A k, l \in DOMAIN full : full[k] \cap full[l] # {} => k = l
  PROVE  PackedApart'
<1>1. /\ Len(packed) \in Nat
      /\ DOMAIN packed = 1..Len(packed)
      /\ DOMAIN packed' = 1..(Len(packed) + 1) /\ packed'[Len(packed) + 1] = full
      /\ \A b \in 1..Len(packed) : packed'[b] = packed[b]
  BY Appended
<1>2. SUFFICES ASSUME NEW b \in DOMAIN packed', NEW c \in DOMAIN packed',
                      NEW k \in DOMAIN packed'[b], NEW l \in DOMAIN packed'[c],
                      packed'[b][k] \cap packed'[c][l] # {}
               PROVE  b = c /\ k = l
  BY DEF PackedApart
<1>3. CASE b \in DOMAIN packed /\ c \in DOMAIN packed
  <2>1. packed'[b] = packed[b] /\ packed'[c] = packed[c]
    BY <1>3, <1>1
  <2>2. k \in DOMAIN packed[b] /\ l \in DOMAIN packed[c]
        /\ packed[b][k] \cap packed[c][l] # {}
    BY <2>1, <1>2
  <2>3. QED
    BY <1>3, <2>2 DEF PackedApart
<1>4. CASE b \in DOMAIN packed /\ c = Len(packed) + 1
  BY <1>1, <1>2, <1>4
<1>5. CASE b = Len(packed) + 1 /\ c \in DOMAIN packed
  <2>1. packed[c][l] \cap full[k] = {}
    BY <1>1, <1>2, <1>5
  <2>2. QED
    BY <2>1, <1>1, <1>2, <1>5
<1>6. CASE b = Len(packed) + 1 /\ c = Len(packed) + 1
  BY <1>1, <1>2, <1>6
<1>7. QED
  BY <1>1, <1>3, <1>4, <1>5, <1>6

(* One turn of the loop keeps every item in one place.                     *)
LEMMA ItemKeeps ==
  ASSUME job \in Exact, PackTyped, Placed, Apart, Short,
         NEW n \in Adds[job], PackItem(job, n), job' = job
  PROVE  PackTyped' /\ Placed' /\ Apart' /\ Short'
<1> DEFINE g == given + 1
           items == open.items \union {g}
           full == Append(batch, items)
<1>1. /\ MaxItems \in Nat /\ BatchSize \in Nat /\ BatchSize > 0
      /\ TransactionSize[job] \in Nat /\ TransactionSize[job] > 0
  BY BatchesAssumption DEF Exact, Jobs
<1>2. /\ given \in Nat /\ open.count \in Nat /\ open.items \in SUBSET (1..given)
      /\ given < MaxItems /\ given' = g
  BY <1>1 DEF PackTyped, PackItem
<1>3. /\ n \in Nat /\ n > 0
      /\ ~Closes(job, open.count + n) =>
           open.count + n < TransactionSize[job] /\ job # "mint"
  BY <1>2, LeavesRoom
<1>4. /\ 1..given \subseteq 1..g /\ 1..g = (1..given) \union {g} /\ g \notin 1..given
      /\ items \in SUBSET (1..g)
  BY <1>2
<1>5. /\ batch \in Seq(SUBSET (1..given)) /\ packed \in Seq(Seq(SUBSET (1..given)))
      /\ batch \in Seq(SUBSET (1..g)) /\ packed \in Seq(Seq(SUBSET (1..g)))
  <2>1. SUBSET (1..given) \subseteq SUBSET (1..g)
    BY <1>4
  <2>2. Seq(SUBSET (1..given)) \subseteq Seq(SUBSET (1..g))
    BY <2>1
  <2>3. Seq(Seq(SUBSET (1..given))) \subseteq Seq(Seq(SUBSET (1..g)))
    BY <2>2
  <2>4. QED
    BY <2>2, <2>3 DEF PackTyped
<1>6. g \notin open.items /\ ~InBatch(g) /\ ~InPacked(g)
  BY <1>2, <1>4, <1>5 DEF InBatch, InPacked
<1>7. given' \in 0..MaxItems
  BY <1>1, <1>2
<1>8. CASE ~Closes(job, open.count + n)
  <2>1. /\ open' = [items |-> items, count |-> open.count + n]
        /\ batch' = batch /\ packed' = packed
    BY <1>8, <1>1 DEF PackItem, Short
  <2>2. open'.items = items /\ open'.count = open.count + n
    BY <2>1
  <2>3. PackTyped'
    BY <2>1, <1>2, <1>3, <1>4, <1>5, <1>7 DEF PackTyped
  <2>4. Placed' /\ Apart'
    BY <2>1, <2>2, <1>2, <1>4, <1>6 DEF Placed, Apart, PackedApart, InBatch, InPacked
  <2>5. Short'
    BY <2>1, <2>2, <1>2, <1>3, <1>8 DEF Short
  <2>6. QED
    BY <2>3, <2>4, <2>5
<1>9. CASE Closes(job, open.count + n)
  <2>1. /\ open' = [items |-> {}, count |-> 0]
        /\ open'.items = {} /\ open'.count = 0
        /\ Len(full) = BatchSize => batch' = <<>> /\ packed' = Append(packed, full)
        /\ Len(full) # BatchSize => batch' = full /\ packed' = packed
    BY <1>9 DEF PackItem, Empty
  <2>2. /\ full \in Seq(SUBSET (1..g)) /\ Len(batch) \in Nat
        /\ DOMAIN batch = 1..Len(batch) /\ Len(full) = Len(batch) + 1
        /\ DOMAIN full = 1..(Len(batch) + 1) /\ full[Len(batch) + 1] = items
        /\ \A k \in 1..Len(batch) : full[k] = batch[k]
    BY <1>4, <1>5, Appended
  <2>3. \A i : (\E k \in DOMAIN full : i \in full[k]) <=> InBatch(i) \/ i \in items
    BY <2>2 DEF InBatch
  <2>4. \A k, l \in DOMAIN full : full[k] \cap full[l] # {} => k = l
    <3>1. \A k \in DOMAIN batch : batch[k] \cap items = {}
      BY <1>6 DEF Apart, InBatch
    <3>2. QED
      BY <3>1, <2>2 DEF Apart
  <2>5. CASE Len(full) # BatchSize
    <3>1. \A i : InBatch(i)' <=> InBatch(i) \/ i \in items
      BY <2>5, <2>1, <2>3 DEF InBatch
    <3>2. \A i : InPacked(i)' <=> InPacked(i)
      BY <2>5, <2>1 DEF InPacked
    <3>3. PackTyped'
      BY <2>5, <2>1, <2>2, <1>2, <1>5, <1>7 DEF PackTyped
    <3>4. Placed'
      BY <3>1, <3>2, <1>2, <1>4 DEF Placed
    <3>5. Apart'
      <4>1. \A i \in open'.items : ~InBatch(i)' /\ ~InPacked(i)'
        BY <2>1
      <4>2. \A i \in 1..given' : InBatch(i)' => ~InPacked(i)'
        BY <3>1, <3>2, <1>2, <1>4, <1>6 DEF Apart
      <4>3. PackedApart'
        BY <2>1, <2>5 DEF Apart, PackedApart
      <4>4. QED
        BY <4>1, <4>2, <4>3, <2>1, <2>4, <2>5 DEF Apart
    <3>6. Short'
      BY <2>5, <2>1, <2>2, <1>1 DEF Short
    <3>7. QED
      BY <3>3, <3>4, <3>5, <3>6
  <2>6. CASE Len(full) = BatchSize
    <3>1. \A i : ~InBatch(i)'
      BY <2>6, <2>1 DEF InBatch
    <3>2. /\ packed' \in Seq(Seq(SUBSET (1..g))) /\ Len(packed) \in Nat
          /\ DOMAIN packed = 1..Len(packed)
          /\ DOMAIN packed' = 1..(Len(packed) + 1) /\ packed'[Len(packed) + 1] = full
          /\ \A b \in 1..Len(packed) : packed'[b] = packed[b]
      <4>1. packed' = Append(packed, full)
        BY <2>6, <2>1
      <4>2. QED
        BY <4>1, <2>2, <1>5, Appended
    <3>3. \A i : InPacked(i)' <=> InPacked(i) \/ InBatch(i) \/ i \in items
      <4> SUFFICES ASSUME NEW i PROVE InPacked(i)' <=> InPacked(i) \/ InBatch(i) \/ i \in items
        OBVIOUS
      <4> DEFINE In(b) == \E k \in DOMAIN packed'[b] : i \in packed'[b][k]
      <4>1. InPacked(i)' <=> \E b \in 1..(Len(packed) + 1) : In(b)
        BY <3>2 DEF InPacked
      <4>2. InPacked(i) <=> \E b \in 1..Len(packed) : In(b)
        BY <3>2 DEF InPacked
      <4>3. In(Len(packed) + 1) <=> InBatch(i) \/ i \in items
        BY <3>2, <2>3
      <4> HIDE DEF In
      <4>4. 1..(Len(packed) + 1) = (1..Len(packed)) \union {Len(packed) + 1}
        BY <3>2
      <4>5. QED
        BY <4>1, <4>2, <4>3, <4>4
    <3>4. PackTyped'
      BY <2>6, <2>1, <3>2, <1>2, <1>7 DEF PackTyped
    <3>5. Placed'
      BY <3>3, <1>2, <1>4 DEF Placed
    <3>6. Apart'
      <4>1. \A b \in DOMAIN packed : \A k \in DOMAIN packed[b] :
              \A l \in DOMAIN full : packed[b][k] \cap full[l] = {}
        <5>1. \A i \in 1..given : InPacked(i) => ~InBatch(i) /\ i \notin items
          BY <1>6, <1>4 DEF Apart
        <5>2. SUFFICES ASSUME NEW b \in DOMAIN packed, NEW k \in DOMAIN packed[b],
                              NEW l \in DOMAIN full,
                              NEW i \in packed[b][k], i \in full[l]
                       PROVE  FALSE
          OBVIOUS
        <5>3. InPacked(i) /\ (InBatch(i) \/ i \in items)
          BY <5>2, <2>3 DEF InPacked
        <5>4. i \in 1..given
          BY <5>2, <1>5
        <5>5. QED
          BY <5>1, <5>3, <5>4
      <4>2. (\A i \in open'.items : ~InBatch(i)' /\ ~InPacked(i)')
            /\ (\A i \in 1..given' : InBatch(i)' => ~InPacked(i)')
            /\ (\A k, l \in DOMAIN batch' : batch'[k] \cap batch'[l] # {} => k = l)
        BY <3>1, <2>1, <2>6
      <4>3. PackedApart'
        <5>1. packed' = Append(packed, full) /\ PackedApart
          BY <2>6, <2>1 DEF Apart
        <5>2. QED
          BY <5>1, <4>1, <2>4, <2>2, <1>5, StaysApart
      <4>4. QED
        BY <4>2, <4>3 DEF Apart
    <3>7. Short'
      BY <2>6, <2>1, <1>1 DEF Short
    <3>8. QED
      BY <3>4, <3>5, <3>6, <3>7
  <2>7. QED
    BY <2>5, <2>6
<1>10. QED
  BY <1>8, <1>9

(* What is left after the loop is handed over with the rest.               *)
LEMMA RestKeeps ==
  ASSUME job \in Exact, PackTyped, Placed, Apart, Short, PackRest(job)
  PROVE  PacksAll'
<1> DEFINE left == open.count > 0 /\ open.count < TransactionSize[job]
           grown == IF left THEN Append(batch, open.items) ELSE batch
<1>1. /\ BatchSize \in Nat /\ BatchSize > 0 /\ open.count \in Nat
      /\ open.items \in SUBSET (1..given)
      /\ batch \in Seq(SUBSET (1..given)) /\ packed \in Seq(Seq(SUBSET (1..given)))
  BY BatchesAssumption DEF PackTyped
<1>2. given' = given /\ packed' = IF Len(grown) \in 1..BatchSize THEN Append(packed, grown)
                                                            ELSE packed
  BY DEF PackRest
<1>3. /\ grown \in Seq(SUBSET (1..given)) /\ Len(grown) \in 0..BatchSize
      /\ DOMAIN grown = 1..Len(grown)
      /\ \A i \in 1..given : (\E k \in DOMAIN grown : i \in grown[k])
                             <=> InBatch(i) \/ i \in open.items
      /\ \A k, l \in DOMAIN grown : grown[k] \cap grown[l] # {} => k = l
  <2>1. CASE left
    <3>1. /\ grown \in Seq(SUBSET (1..given)) /\ Len(batch) \in Nat
          /\ DOMAIN batch = 1..Len(batch) /\ Len(grown) = Len(batch) + 1
          /\ DOMAIN grown = 1..(Len(batch) + 1) /\ grown[Len(batch) + 1] = open.items
          /\ \A k \in 1..Len(batch) : grown[k] = batch[k]
      BY <2>1, <1>1, Appended
    <3>2. \A k \in DOMAIN batch : batch[k] \cap open.items = {}
      BY DEF Apart, InBatch
    <3>3. \A k, l \in DOMAIN grown : grown[k] \cap grown[l] # {} => k = l
      BY <3>1, <3>2 DEF Apart
    <3>4. Len(grown) \in 0..BatchSize
      BY <3>1, <1>1 DEF Short
    <3>5. \A i : (\E k \in DOMAIN grown : i \in grown[k]) <=> InBatch(i) \/ i \in open.items
      BY <3>1 DEF InBatch
    <3>6. QED
      BY <3>1, <3>3, <3>4, <3>5
  <2>2. CASE ~left
    <3>1. grown = batch /\ open.items = {}
      BY <2>2, <1>1 DEF Short
    <3>2. QED
      BY <3>1, <1>1 DEF Apart, InBatch, Short
  <2>3. QED
    BY <2>1, <2>2
<1>4. \A b \in DOMAIN packed : \A k \in DOMAIN packed[b] :
        \A l \in DOMAIN grown : packed[b][k] \cap grown[l] = {}
  <2>1. SUFFICES ASSUME NEW b \in DOMAIN packed, NEW k \in DOMAIN packed[b],
                        NEW l \in DOMAIN grown, NEW i \in packed[b][k], i \in grown[l]
                 PROVE  FALSE
    OBVIOUS
  <2>2. i \in 1..given
    BY <2>1, <1>1
  <2>3. InPacked(i) /\ (InBatch(i) \/ i \in open.items)
    BY <2>1, <2>2, <1>3 DEF InPacked
  <2>4. QED
    BY <2>2, <2>3 DEF Apart
<1> HIDE DEF grown
<1>5. PackedApart'
  <2>1. PackedApart
    BY DEF Apart
  <2>2. CASE packed' = Append(packed, grown)
    BY <2>1, <2>2, <1>1, <1>3, <1>4, StaysApart
  <2>3. CASE packed' = packed
    BY <2>1, <2>3 DEF PackedApart
  <2>4. QED
    BY <2>2, <2>3, <1>2
<1>6. \A i \in 1..given' : InPacked(i)'
  <2>1. SUFFICES ASSUME NEW i \in 1..given PROVE InPacked(i)'
    BY <1>2
  <2>2. CASE Len(grown) \in 1..BatchSize
    <3>1. /\ packed' = Append(packed, grown) /\ Len(packed) \in Nat
          /\ DOMAIN packed = 1..Len(packed)
          /\ DOMAIN packed' = 1..(Len(packed) + 1) /\ packed'[Len(packed) + 1] = grown
          /\ \A b \in 1..Len(packed) : packed'[b] = packed[b]
      BY <2>2, <1>1, <1>2, <1>3, Appended
    <3>2. CASE InPacked(i)
      BY <3>1, <3>2 DEF InPacked
    <3>3. CASE ~InPacked(i)
      <4>1. \E k \in DOMAIN grown : i \in grown[k]
        BY <3>3, <2>1, <1>3 DEF Placed
      <4>2. Len(packed) + 1 \in DOMAIN packed'
        BY <3>1
      <4>3. QED
        BY <4>1, <4>2, <3>1 DEF InPacked
    <3>4. QED
      BY <3>2, <3>3
  <2>3. CASE Len(grown) \notin 1..BatchSize
    <3>1. packed' = packed /\ Len(grown) = 0 /\ DOMAIN grown = {}
      BY <2>3, <1>1, <1>2, <1>3
    <3>2. InPacked(i)
      BY <3>1, <2>1, <1>3 DEF Placed
    <3>3. QED
      BY <3>1, <3>2 DEF InPacked
  <2>4. QED
    BY <2>2, <2>3
<1>7. QED
  BY <1>5, <1>6 DEF PacksAll, PackedApart, InPacked

(* No step but those of the packing loop touches it.                       *)
LEMMA PackStep == PackInv /\ [Next]_vars => PackInv'
<1> SUFFICES ASSUME PackInv, [Next]_vars PROVE PackInv'
  OBVIOUS
<1>1. job' = job
  BY DEF Next, SenderStep, WalletStep, KeypairSends, KeypairAwaits, KeypairSimulates, Land,
         LandLate, SocketError, Pack, NextBatch, SaleRound, LoopEnds, Refuse, Raise, Sign, Send,
         SendFails, Failed, HearSuccess, Passed, HearError, Timeout, SimulationFails,
         SimulationPasses, senderVars, vars
<1>2. Pack \/ UNCHANGED packVars
  BY DEF Next, SenderStep, WalletStep, KeypairSends, KeypairAwaits, KeypairSimulates, Land,
         LandLate, SocketError, NextBatch, SaleRound, LoopEnds, Refuse, Sign, Send,
         SendFails, HearSuccess, HearError, Timeout, SimulationFails,
         SimulationPasses, vars
<1>3. CASE UNCHANGED packVars
  BY ZenonT(40), <1>1, <1>3 DEF PackInv, packVars, PackTyped, Placed, Apart, PackedApart, Short, PacksAll,
                    InBatch, InPacked
<1>4. CASE Pack
  <2> SUFFICES ASSUME job \in Exact PROVE IF packing' THEN PackTyped' /\ Placed' /\ Apart' /\ Short'
                                                      ELSE PacksAll'
    BY <1>1 DEF PackInv
  <2>1. packing /\ PackTyped /\ Placed /\ Apart /\ Short
    BY <1>4 DEF Pack, PackInv
  <2>2. ASSUME NEW n \in Adds[job], PackItem(job, n)
        PROVE  packing' /\ PackTyped' /\ Placed' /\ Apart' /\ Short'
    <3>1. packing' = packing
      BY <2>2 DEF PackItem
    <3>2. QED
      BY <3>1, <2>1, <2>2, <1>1, ItemKeeps
  <2>3. ASSUME PackRest(job) PROVE ~packing' /\ PacksAll'
    <3>1. packing' = FALSE
      BY <2>3 DEF PackRest
    <3>2. QED
      BY <3>1, <2>1, <2>3, RestKeeps
  <2>4. QED
    BY <2>2, <2>3, <1>4 DEF Pack
<1>5. QED
  BY <1>2, <1>3, <1>4

(* Claims, settlements and minted editions: whatever the numbers, every    *)
(* item of the job is in one transaction handed to the sender, and in one  *)
(* only.                                                                   *)
THEOREM PacksAllItems == Spec => []JobsPackAll
<1>1. PackInv => JobsPackAll
  BY DEF PackInv, JobsPackAll, Exact
<1>2. QED
  BY <1>1, PackInit0, PackStep, PTL DEF Spec

-----------------------------------------------------------------------------
(* The creation of a sale.                                                 *)

Busy == {"sending", "awaiting", "simulating"}

(* The transactions cut off the list so far.                               *)
Base == MaxItems - Len(todo)
Done(n) == \A i \in 1..n : applied[i] > 0

(* What is left to send is the end of the list.                            *)
EndOfList ==
  /\ todo \in Seq(SUBSET Items)
  /\ Len(todo) <= MaxItems
  /\ \A k \in 1..Len(todo) : todo[k] = {Base + k}

SaleTyped ==
  /\ at \in Nat /\ stopPoint \in Nat
  /\ breakEarly \in [early : BOOLEAN, i : Nat]
  /\ applied \in [Items -> 0..2]
  /\ misjudged \in BOOLEAN /\ lone \in BOOLEAN /\ skipped \in BOOLEAN
  /\ pc \in Busy => at < Len(todo)
  /\ pc = "signing" => Len(todo) > 0

Sighted == ~misjudged /\ ~lone /\ ~skipped

(* As long as the sender sees its failures, everything before the list,    *)
(* before the stop and before the first failure is on the chain.           *)
Known ==
  /\ Done(Base)
  /\ pc = "round" => stopPoint <= Len(todo) /\ Done(Base + stopPoint)
  /\ pc \in Busy /\ breakEarly.early => breakEarly.i <= at /\ Done(Base + breakEarly.i)
  /\ pc \in Busy /\ ~breakEarly.early => Done(Base + at)
  /\ pc = "awaiting" /\ verdict = "ok" => applied[Base + at + 1] > 0
  /\ pc = "returned" => Done(MaxItems)

SaleBody == EndOfList /\ SaleTyped /\ (Sighted => Known)

SaleInv == job = "createAuctionManager" => SaleBody

(* Every transaction is on the list at first, and none is required to be   *)
(* on the chain.                                                           *)
LEMMA SaleInit == Init => SaleInv
<1> SUFFICES ASSUME Init, job = "createAuctionManager" PROVE SaleBody
  BY DEF SaleInv
<1>1. /\ todo = [i \in 1..MaxItems |-> {i}] /\ at = 0 /\ stopPoint = 0
      /\ breakEarly = [early |-> FALSE, i |-> 0] /\ pc = "round"
      /\ applied = [i \in Items |-> 0]
      /\ misjudged = FALSE /\ lone = FALSE /\ skipped = FALSE
  BY DEF Init, Loops, Unbroken, Items
<1>2. MaxItems \in Nat
  BY BatchesAssumption
<1>3. todo \in Seq(SUBSET Items) /\ Len(todo) = MaxItems
  <2>1. \A i \in 1..MaxItems : {i} \in SUBSET Items
    BY DEF Items
  <2>2. QED
    BY <2>1, <1>1, <1>2
<1>4. EndOfList
  BY <1>1, <1>2, <1>3 DEF EndOfList, Base
<1>5. SaleTyped
  <2>1. breakEarly \in [early : BOOLEAN, i : Nat] /\ applied \in [Items -> 0..2]
    BY <1>1
  <2>2. pc \notin Busy /\ pc # "signing"
    BY <1>1 DEF Busy
  <2>3. QED
    BY <1>1, <2>1, <2>2 DEF SaleTyped
<1>6. Known
  BY <1>1, <1>2, <1>3 DEF Known, Base, Done, Busy
<1>7. QED
  BY <1>4, <1>5, <1>6 DEF SaleBody

(* What is on the chain stays.                                             *)
LEMMA AppliedGrows ==
  ASSUME applied \in [Items -> 0..2], NEW t, Apply(t) \/ UNCHANGED applied
  PROVE  /\ applied' \in [Items -> 0..2]
         /\ \A i \in Items : applied[i] > 0 => applied'[i] > 0
         /\ Apply(t) => \A i \in Items \cap t : applied'[i] > 0
BY DEF Apply

(* A failure seen: alone in its pass it is remembered as such, the second  *)
(* ends the pass at the first, and an exception keeps an old stop.         *)
LEMMA FailedKeeps ==
  ASSUME SaleBody, pc \in Busy, job = "createAuctionManager",
         Failed, UNCHANGED <<job, todo, applied, misjudged>>
  PROVE  SaleBody'
<1>1. MaxItems \in Nat /\ Len(todo) \in Nat /\ Len(todo) <= MaxItems /\ at < Len(todo)
      /\ at \in Nat /\ Base \in Nat
  BY BatchesAssumption DEF SaleBody, EndOfList, SaleTyped, Base
<1>2. EndOfList' /\ Base' = Base /\ \A n : Done(n)' <=> Done(n)
  BY DEF SaleBody, EndOfList, Base, Done
<1>3. CASE Len(todo) = 1
  <2>1. /\ pc' = "round" /\ skipped' = (skipped \/ stopPoint > 0)
        /\ UNCHANGED <<at, breakEarly, stopPoint, lone>>
    BY <1>3 DEF Failed, Raise, Loops
  <2>2. SaleTyped'
    BY <2>1 DEF SaleBody, SaleTyped, Busy
  <2>3. Sighted' => Sighted /\ ~(stopPoint > 0)
    BY <2>1 DEF Sighted
  <2>4. Sighted' => stopPoint = 0
    BY <2>3 DEF SaleBody, SaleTyped
  <2>5. Sighted' => Known'
    BY <2>1, <2>3, <2>4, <1>1, <1>2 DEF SaleBody, Known, Busy
  <2>6. QED
    BY <2>2, <2>5, <1>2 DEF SaleBody
<1>4. CASE Len(todo) # 1 /\ breakEarly.early
  <2>1. pc' = "round" /\ stopPoint' = breakEarly.i
        /\ UNCHANGED <<at, breakEarly, lone, skipped>>
    BY <1>4 DEF Failed, StopsHere
  <2>2. SaleTyped'
    BY <2>1 DEF SaleBody, SaleTyped, Busy
  <2>3. Sighted' => Known'
    BY <2>1, <1>1, <1>2, <1>4 DEF SaleBody, SaleTyped, Sighted, Known, Busy
  <2>4. QED
    BY <2>2, <2>3, <1>2 DEF SaleBody
<1>5. CASE Len(todo) # 1 /\ ~breakEarly.early /\ at + 1 < Len(todo)
  <2>1. /\ breakEarly' = [early |-> TRUE, i |-> at] /\ pc' = "sending" /\ at' = at + 1
        /\ UNCHANGED <<stopPoint, lone, skipped>>
    BY <1>5 DEF Failed, StopsHere, Advance
  <2>2. breakEarly'.early /\ breakEarly'.i = at
    BY <2>1
  <2>3. SaleTyped'
    BY <2>1, <1>1, <1>5 DEF SaleBody, SaleTyped, Busy
  <2>4. Sighted' => Known'
    BY <2>1, <2>2, <1>1, <1>2, <1>5 DEF SaleBody, SaleTyped, Sighted, Known, Busy
  <2>5. QED
    BY <2>3, <2>4, <1>2 DEF SaleBody
<1>6. CASE Len(todo) # 1 /\ ~breakEarly.early /\ ~(at + 1 < Len(todo))
  <2>1. /\ breakEarly' = [early |-> TRUE, i |-> at] /\ pc' = "round" /\ stopPoint' = Len(todo)
        /\ lone' = (lone \/ breakEarly'.early) /\ UNCHANGED <<at, skipped>>
    BY <1>6 DEF Failed, StopsHere, Advance
  <2>2. lone' = TRUE
    BY <2>1
  <2>3. SaleTyped'
    BY <2>1, <2>2, <1>1, <1>6 DEF SaleBody, SaleTyped, Busy
  <2>4. ~Sighted'
    BY <2>2 DEF Sighted
  <2>5. QED
    BY <2>3, <2>4, <1>2 DEF SaleBody
<1>7. QED
  BY <1>3, <1>4, <1>5, <1>6

(* A transaction taken for good: it is, or the sender is misled.           *)
LEMMA PassedKeeps ==
  ASSUME SaleBody, pc \in Busy, Passed, UNCHANGED <<job, todo, applied>>,
         misjudged' \in BOOLEAN,
         ~misjudged' /\ Sighted => applied[Base + at + 1] > 0,
         ~misjudged' => ~misjudged
  PROVE  SaleBody'
<1>1. MaxItems \in Nat /\ Len(todo) \in Nat /\ Len(todo) <= MaxItems /\ at < Len(todo)
      /\ at \in Nat /\ Base \in Nat /\ Base + Len(todo) = MaxItems
  BY BatchesAssumption DEF SaleBody, EndOfList, SaleTyped, Base
<1>2. EndOfList' /\ Base' = Base /\ \A n : Done(n)' <=> Done(n)
  BY DEF SaleBody, EndOfList, Base, Done
<1>3. UNCHANGED <<breakEarly, skipped>>
  BY DEF Passed
<1>4. Sighted /\ ~misjudged' /\ ~breakEarly.early => Done(Base + (at + 1))
  BY <1>1 DEF SaleBody, Known, Done
<1>5. CASE at + 1 < Len(todo)
  <2>1. pc' = "sending" /\ at' = at + 1 /\ UNCHANGED <<stopPoint, lone>>
    BY <1>5 DEF Passed, Advance
  <2>2. SaleTyped'
    BY <2>1, <1>1, <1>3, <1>5 DEF SaleBody, SaleTyped, Busy
  <2>3. Sighted' => Sighted /\ ~misjudged'
    BY <2>1, <1>3 DEF Sighted
  <2>4. Sighted' => Known'
    BY <2>1, <2>3, <1>1, <1>2, <1>3, <1>4 DEF SaleBody, SaleTyped, Known, Busy
  <2>5. QED
    BY <2>2, <2>4, <1>2 DEF SaleBody
<1>6. CASE ~(at + 1 < Len(todo))
  <2>1. /\ pc' = "round" /\ stopPoint' = Len(todo) /\ at' = at /\ at + 1 = Len(todo)
        /\ lone' = (lone \/ breakEarly'.early)
    BY <1>1, <1>6 DEF Passed, Advance
  <2>2. SaleTyped'
    BY <2>1, <1>1, <1>3 DEF SaleBody, SaleTyped, Busy
  <2>3. Sighted' => Sighted /\ ~misjudged' /\ ~breakEarly.early
    BY <2>1, <1>3 DEF Sighted
  <2>4. Sighted' => Known'
    BY <2>1, <2>3, <1>1, <1>2, <1>3, <1>4 DEF SaleBody, SaleTyped, Known, Busy
  <2>5. QED
    BY <2>2, <2>4, <1>2 DEF SaleBody
<1>7. QED
  BY <1>5, <1>6

(* Every step keeps the invariant.                                         *)
LEMMA SaleStep == SaleInv /\ [Next]_vars => SaleInv'
<1> SUFFICES ASSUME SaleInv, [Next]_vars, job' = "createAuctionManager" PROVE SaleBody'
  BY DEF SaleInv
<1>1. job = "createAuctionManager" /\ job' = job
  BY DEF Next, SenderStep, WalletStep, KeypairSends, KeypairAwaits, KeypairSimulates, Land,
         LandLate, SocketError, Pack, NextBatch, SaleRound, LoopEnds, Refuse, Sign, Send,
         SendFails, HearSuccess, HearError, Timeout, SimulationFails, SimulationPasses,
         senderVars, vars
<1>2. SaleBody
  BY <1>1 DEF SaleInv
<1>3. /\ MaxItems \in Nat /\ Len(todo) \in Nat /\ Len(todo) <= MaxItems
      /\ Base \in Nat /\ Base + Len(todo) = MaxItems
  BY <1>2, BatchesAssumption DEF SaleBody, EndOfList, Base
<1>4. UNCHANGED <<todo, applied>> => EndOfList' /\ Base' = Base /\ \A n : Done(n)' <=> Done(n)
  BY <1>2 DEF SaleBody, EndOfList, Base, Done
<1>5. job \in Loops
  BY <1>1 DEF Loops
<1>6. CASE UNCHANGED <<pc, todo, at, breakEarly, stopPoint, verdict, applied,
                       misjudged, lone, skipped>>
  BY <1>2, <1>4, <1>6 DEF SaleBody, SaleTyped, Known, Sighted, Done, Base, EndOfList
<1>7. CASE Pack
  BY <1>6, <1>7 DEF Pack, chainVars, history
<1>8. CASE NextBatch
  BY <1>5, <1>8 DEF NextBatch
<1>9. CASE SaleRound
  <2>1. /\ stopPoint < Len(todo) /\ stopPoint \in Nat /\ pc = "round"
        /\ todo' = SubSeq(todo, stopPoint + 1, Len(todo))
        /\ pc' = "signing"
        /\ UNCHANGED <<at, breakEarly, stopPoint, applied, misjudged, lone, skipped>>
    BY <1>2, <1>9 DEF SaleRound, MoreRounds, SaleBody, SaleTyped, chainVars, history
  <2>2. /\ todo' \in Seq(SUBSET Items) /\ Len(todo') = Len(todo) - stopPoint
        /\ \A k \in 1..Len(todo') : todo'[k] = todo[stopPoint + k]
    <3>1. todo \in Seq(SUBSET Items)
      BY <1>2 DEF SaleBody, EndOfList
    <3>2. QED
      BY <2>1, <1>3, <3>1
  <2>3. Base' = Base + stopPoint
    <3>1. stopPoint \in Nat /\ Len(todo') = Len(todo) - stopPoint
      BY <2>1, <2>2
    <3>2. MaxItems - (Len(todo) - stopPoint) = (MaxItems - Len(todo)) + stopPoint
      BY <3>1, <1>3
    <3>3. QED
      BY <3>1, <3>2 DEF Base
  <2>4. EndOfList'
    <3>1. \A k \in 1..Len(todo') : todo'[k] = {Base + (stopPoint + k)}
      BY <2>1, <2>2, <1>2, <1>3 DEF SaleBody, EndOfList
    <3>2. \A k \in 1..Len(todo') : Base + (stopPoint + k) = Base' + k
      BY <2>1, <2>2, <2>3, <1>3
    <3>3. Len(todo') <= MaxItems
      BY <2>1, <2>2, <1>3
    <3>4. QED
      BY <3>1, <3>2, <3>3, <2>2 DEF EndOfList
  <2>5. SaleTyped'
    BY <2>1, <2>2, <1>2, <1>3 DEF SaleBody, SaleTyped, Busy
  <2>6. Sighted' => Known'
    BY <2>1, <2>3, <1>2 DEF SaleBody, Known, Sighted, Done, Busy
  <2>7. QED
    BY <2>4, <2>5, <2>6 DEF SaleBody
<1>10. CASE LoopEnds
  <2>1. /\ pc = "round" /\ ~MoreRounds /\ stopPoint \in Nat
        /\ pc' = IF stopPoint < Len(todo) THEN "thrown" ELSE "returned"
        /\ UNCHANGED <<todo, at, breakEarly, stopPoint, applied, misjudged, lone, skipped>>
    BY <1>1, <1>2, <1>10 DEF LoopEnds, GivesUpLoudly, SaleBody, SaleTyped, chainVars, history
  <2>2. SaleTyped'
    BY <2>1, <1>2 DEF SaleBody, SaleTyped, Busy
  <2>3. Sighted' => Known'
    <3>1. Sighted' => Sighted /\ Known
      BY <2>1, <1>2 DEF Sighted, SaleBody
    <3>2. Sighted' /\ ~(stopPoint < Len(todo)) => Done(MaxItems)
      BY <2>1, <3>1, <1>3 DEF Known
    <3>3. QED
      BY <2>1, <3>1, <3>2, <1>3, <1>4 DEF Known, Busy
  <2>4. QED
    BY <2>1, <2>2, <2>3, <1>4 DEF SaleBody
<1>11. CASE Refuse
  <2>1. /\ pc' = "round" /\ skipped' = (skipped \/ stopPoint > 0)
        /\ UNCHANGED <<todo, at, breakEarly, stopPoint, applied, misjudged, lone>>
    BY <1>5, <1>11 DEF Refuse, Raise, chainVars
  <2>2. SaleTyped'
    BY <2>1, <1>2 DEF SaleBody, SaleTyped, Busy
  <2>3. Sighted' => Sighted /\ ~(stopPoint > 0)
    BY <2>1 DEF Sighted
  <2>4. Sighted' => stopPoint = 0
    BY <2>3, <1>2 DEF SaleBody, SaleTyped
  <2>5. Sighted' => Known'
    BY <2>1, <2>3, <2>4, <1>2, <1>3, <1>4 DEF SaleBody, Known, Busy
  <2>6. QED
    BY <2>1, <2>2, <2>5, <1>4 DEF SaleBody
<1>12. CASE Sign
  <2>1. /\ pc = "signing" /\ pc' = "sending" /\ at' = 0
        /\ breakEarly' = [early |-> FALSE, i |-> 0]
        /\ UNCHANGED <<todo, stopPoint, applied, misjudged, lone, skipped>>
    BY <1>12 DEF Sign, Unbroken, chainVars
  <2>2. ~breakEarly'.early /\ breakEarly' \in [early : BOOLEAN, i : Nat]
    BY <2>1
  <2>3. SaleTyped'
    BY <2>1, <2>2, <1>2, <1>3 DEF SaleBody, SaleTyped, Busy
  <2>4. Sighted' => Known'
    BY <2>1, <2>2, <1>2, <1>3, <1>4 DEF SaleBody, Known, Sighted, Busy
  <2>5. QED
    BY <2>1, <2>3, <2>4, <1>4 DEF SaleBody
<1>13. CASE Send
  <2>1. /\ pc = "sending" /\ pc' = "awaiting" /\ verdict' = "none"
        /\ UNCHANGED <<todo, at, breakEarly, stopPoint, applied, misjudged, lone, skipped>>
    BY <1>13 DEF Send, chainVars, history
  <2>2. SaleTyped'
    BY <2>1, <1>2 DEF SaleBody, SaleTyped, Busy
  <2>3. Sighted' => Known'
    BY <2>1, <1>2, <1>4 DEF SaleBody, Known, Sighted, Busy
  <2>4. QED
    BY <2>1, <2>2, <2>3, <1>4 DEF SaleBody
<1>14. CASE SendFails
  <2>1. pc \in Busy /\ Failed /\ UNCHANGED <<job, todo, applied, misjudged>>
    BY <1>14 DEF SendFails, Busy, chainVars
  <2>2. QED
    BY <2>1, <1>1, <1>2, FailedKeeps
<1>15. CASE HearSuccess
  <2>1. /\ pc \in Busy /\ Passed /\ pc = "awaiting" /\ verdict = "ok"
        /\ UNCHANGED <<job, todo, applied, misjudged>>
    BY <1>15 DEF HearSuccess, Busy, chainVars
  <2>2. misjudged' \in BOOLEAN /\ (~misjudged' => ~misjudged)
        /\ (~misjudged' /\ Sighted => applied[Base + at + 1] > 0)
    BY <2>1, <1>2 DEF SaleBody, SaleTyped, Known
  <2>3. QED
    BY <2>1, <2>2, <1>2, PassedKeeps
<1>16. CASE HearError
  <2>1. /\ pc = "awaiting" /\ pc' = "simulating"
        /\ UNCHANGED <<todo, at, breakEarly, stopPoint, verdict, applied, misjudged, lone, skipped>>
    BY <1>16 DEF HearError, chainVars, history
  <2>2. SaleTyped'
    BY <2>1, <1>2 DEF SaleBody, SaleTyped, Busy
  <2>3. Sighted' => Known'
    BY <2>1, <1>2, <1>4 DEF SaleBody, Known, Sighted, Busy
  <2>4. QED
    BY <2>1, <2>2, <2>3, <1>4 DEF SaleBody
<1>17. CASE Timeout
  <2>1. pc \in Busy /\ Failed /\ UNCHANGED <<job, todo, applied, misjudged>>
    BY <1>17 DEF Timeout, Busy
  <2>2. QED
    BY <2>1, <1>1, <1>2, FailedKeeps
<1>18. CASE SimulationFails
  <2>1. pc \in Busy /\ Failed /\ UNCHANGED <<job, todo, applied, misjudged>>
    BY <1>18 DEF SimulationFails, Busy, chainVars
  <2>2. QED
    BY <2>1, <1>1, <1>2, FailedKeeps
<1>19. CASE SimulationPasses
  <2>1. pc \in Busy /\ Passed /\ misjudged' = TRUE /\ UNCHANGED <<job, todo, applied>>
    BY <1>19 DEF SimulationPasses, Busy, chainVars
  <2>2. QED
    BY <2>1, <1>2, PassedKeeps
<1>20. CASE Land \/ \E t \in late : LandLate(t)
  <2>1. PICK t : Apply(t) \/ UNCHANGED applied
    BY <1>20 DEF Land, LandLate
  <2>2. /\ applied' \in [Items -> 0..2]
        /\ \A i \in Items : applied[i] > 0 => applied'[i] > 0
    BY <2>1, <1>2, AppliedGrows DEF SaleBody, SaleTyped
  <2>3. UNCHANGED <<pc, todo, at, breakEarly, stopPoint, misjudged, lone, skipped>>
    BY <1>20 DEF Land, LandLate, senderVars, history
  <2>4. EndOfList' /\ SaleTyped' /\ Base' = Base
    BY <2>2, <2>3, <1>2 DEF SaleBody, EndOfList, SaleTyped, Base
  <2> DEFINE Later(n) == \A i \in 1..n : applied'[i] > 0
  <2>5. \A n \in 0..MaxItems : Done(n) => Later(n)
    BY <2>2, <1>3 DEF Done, Items
  <2>6. pc = "awaiting" /\ verdict = "ok" /\ Sighted => applied'[Base + at + 1] > 0
    <3>1. SUFFICES ASSUME pc = "awaiting", verdict = "ok", Sighted
                   PROVE  applied'[Base + at + 1] > 0
      OBVIOUS
    <3>2. Base + at + 1 \in Items /\ applied[Base + at + 1] > 0
      BY <3>1, <1>2, <1>3 DEF SaleBody, SaleTyped, Known, Busy, Items
    <3>3. QED
      BY <3>2, <2>2
  <2>7. pc = "awaiting" /\ verdict' = "ok" /\ verdict # "ok" => applied'[Base + at + 1] > 0
    <3>1. SUFFICES ASSUME pc = "awaiting", verdict' = "ok", verdict # "ok"
                   PROVE  applied'[Base + at + 1] > 0
      OBVIOUS
    <3>2. Apply(Current)
      BY <3>1, <1>20 DEF Land, LandLate, senderVars
    <3>3. Current = {Base + at + 1} /\ Base + at + 1 \in Items
      <4>1. at \in Nat /\ at < Len(todo) /\ \A k \in 1..Len(todo) : todo[k] = {Base + k}
        BY <3>1, <1>2 DEF SaleBody, SaleTyped, EndOfList, Busy
      <4>2. at + 1 \in 1..Len(todo) /\ Base + (at + 1) = Base + at + 1
            /\ Base + at + 1 \in 1..MaxItems
        BY <4>1, <1>3
      <4>3. todo[at + 1] = {Base + (at + 1)}
        BY <4>1, <4>2
      <4>4. QED
        BY <4>2, <4>3 DEF Current, Items
    <3>4. QED
      BY <3>2, <3>3, <1>2, AppliedGrows DEF SaleBody, SaleTyped
  <2>8. Sighted' => Known'
    <3>1. Sighted' => Sighted /\ Known
      BY <2>3, <1>2 DEF Sighted, SaleBody
    <3>2. Sighted' => (pc' = "awaiting" /\ verdict' = "ok" => applied'[Base' + at' + 1] > 0)
      BY <2>3, <2>4, <2>6, <2>7, <3>1
    <3>3. SUFFICES ASSUME Known, Sighted PROVE
               /\ Later(Base)
               /\ pc = "round" => stopPoint <= Len(todo) /\ Later(Base + stopPoint)
               /\ pc \in Busy /\ breakEarly.early =>
                    breakEarly.i <= at /\ Later(Base + breakEarly.i)
               /\ pc \in Busy /\ ~breakEarly.early => Later(Base + at)
               /\ pc = "returned" => Later(MaxItems)
      BY <2>3, <2>4, <3>1, <3>2 DEF Known, Done
    <3> HIDE DEF Later
    <3>4. Base \in 0..MaxItems /\ MaxItems \in 0..MaxItems
      BY <1>3
    <3>5. pc \in Busy => at \in Nat /\ breakEarly.i \in Nat /\ at < Len(todo)
      BY <1>2 DEF SaleBody, SaleTyped
    <3>6. pc \in Busy => Base + at \in 0..MaxItems
      BY <3>5, <1>3
    <3>7. pc \in Busy /\ breakEarly.i <= at => Base + breakEarly.i \in 0..MaxItems
      BY <3>5, <1>3
    <3>8. stopPoint \in Nat /\ (stopPoint <= Len(todo) => Base + stopPoint \in 0..MaxItems)
      BY <1>2, <1>3 DEF SaleBody, SaleTyped
    <3>9. QED
      BY <3>3, <3>4, <3>6, <3>7, <3>8, <2>5 DEF Known
  <2>9. QED
    BY <2>4, <2>8 DEF SaleBody
<1>21. CASE SocketError
  <2>1. /\ pc' = "hung"
        /\ UNCHANGED <<todo, at, breakEarly, stopPoint, verdict, applied, misjudged, lone, skipped>>
    BY <1>21 DEF SocketError, history
  <2>2. SaleTyped'
    BY <2>1, <1>2 DEF SaleBody, SaleTyped, Busy
  <2>3. Sighted' => Known'
    BY <2>1, <1>2, <1>4 DEF SaleBody, Known, Sighted, Busy
  <2>4. QED
    BY <2>1, <2>2, <2>3, <1>4 DEF SaleBody
<1>22. CASE UNCHANGED vars
  BY <1>6, <1>22 DEF vars, senderVars, chainVars, history
<1>23. QED
  BY <1>1, <1>7, <1>8, <1>9, <1>10, <1>11, <1>12, <1>13, <1>14, <1>15, <1>16, <1>17, <1>18,
     <1>19, <1>20, <1>21, <1>22 DEF Next, SenderStep, WalletStep

(* A sale reported as created is on the chain, whatever its length and its *)
(* needs, unless the sender was blind in one of the three ways.            *)
THEOREM CreatedSalesAreComplete == Spec => []CreatedIsComplete
<1>1. SaleInv => CreatedIsComplete
  BY DEF SaleInv, SaleBody, Sighted, Known, Done, CreatedIsComplete, Items
<1>2. QED
  BY <1>1, SaleInit, SaleStep, PTL DEF Spec

-----------------------------------------------------------------------------
(* The account cache.                                                      *)

(* A list taken from the cache for a wallet holds only its accounts.       *)
LEMMA SelectedAreOwn ==
  ASSUME NEW cache, NEW w, NEW k \in Accounts, selectUserAccounts(cache, w)[k] # 0
  PROVE  Owner[k] = w
BY DEF selectUserAccounts

(* However many snapshots are under way, of whatever wallets, and in       *)
(* whatever order they and the notifications arrive, the pages list no     *)
(* account of another wallet (AccountsProvider).                           *)
THEOREM ListsOnlyOwn == CacheSpec => []OnlyOwnAccounts
<1>1. CacheInit => OnlyOwnAccounts
  BY DEF CacheInit, OnlyOwnAccounts
<1>2. OnlyOwnAccounts /\ [CacheNext]_cacheVars => OnlyOwnAccounts'
  <2> SUFFICES ASSUME OnlyOwnAccounts, [CacheNext]_cacheVars,
                      NEW k \in Accounts, listed'[k] # 0
               PROVE  Owner[k] = wallet'
    BY DEF OnlyOwnAccounts
  <2>1. CASE listed' = listed /\ wallet' = wallet
    BY <2>1 DEF OnlyOwnAccounts
  <2>2. ASSUME NEW w \in Wallets \cup {Nobody}, Connect(w) PROVE Owner[k] = wallet'
    <3>1. wallet' = w /\ listed' = selectUserAccounts(cached, w)
      BY <2>2 DEF Connect
    <3>2. QED
      BY <3>1, SelectedAreOwn
  <2>3. ASSUME NEW i \in 1..MaxSwitches, precacheUserTokenAccounts(i)
        PROVE  Owner[k] = wallet'
    <3>1. wallet' = wallet /\ listed' = selectUserAccounts(cached', wallet)
      BY <2>3 DEF precacheUserTokenAccounts, setTokenAccounts, page
    <3>2. QED
      BY <3>1, SelectedAreOwn
  <2>4. ASSUME NEW j \in Accounts, onProgramAccountChange(j) PROVE Owner[k] = wallet'
    <3>1. /\ wallet' = wallet
          /\ listed' = selectUserAccounts(cached', wallet) \/ listed' = listed
      BY <2>4 DEF onProgramAccountChange, setTokenAccounts, page
    <3>2. QED
      BY <3>1, <2>1, SelectedAreOwn
  <2>5. ASSUME NEW i \in 1..MaxSwitches, AnswerSnapshot(i) \/ SnapshotFails(i)
        PROVE  Owner[k] = wallet'
    BY <2>1, <2>5 DEF AnswerSnapshot, SnapshotFails, page
  <2>6. ASSUME NEW j \in Accounts,
               AccountGoesLive(j) \/ onAccountChange(j) \/ Change(j)
        PROVE  Owner[k] = wallet'
    BY <2>1, <2>6 DEF AccountGoesLive, onAccountChange, Change, page
  <2>7. CASE FeedGoesLive
    BY <2>1, <2>7 DEF FeedGoesLive
  <2>8. CASE UNCHANGED cacheVars
    BY <2>1, <2>8 DEF cacheVars
  <2>9. QED
    BY <2>2, <2>3, <2>4, <2>5, <2>6, <2>7, <2>8 DEF CacheNext
<1>3. QED
  BY <1>1, <1>2, PTL DEF CacheSpec

===============================================================================
