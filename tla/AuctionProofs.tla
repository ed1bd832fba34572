----------------------------- MODULE AuctionProofs -----------------------------
(***************************************************************************)
(* Proofs about module Auction, for any bidders, amounts, settings and     *)
(* room for bids: first the count of open bids, then the sorted list, who  *)
(* wins by it and where the money of the bids is.                          *)
(***************************************************************************)
EXTENDS Auction, Recursion, FiniteSetTheorems, SequenceTheorems

(* The bidders who have a bid open. *)
Open == {b \in Bidders : meta[b].exists /\ ~meta[b].cancelled}

Metadata == [exists : BOOLEAN, cancelled : BOOLEAN, lastBid : Nat, at : Nat]

(* The count is right until the auction is recorded as ended.  Nobody has  *)
(* metadata before there is an auction, which starts the count at zero;    *)
(* and that the account has a state, its writers keep.                     *)
CountInv ==
  /\ now \in Nat
  /\ "state" \in DOMAIN auction
  /\ meta \in [Bidders -> Metadata]
  /\ auction.state = "Absent" => \A b \in Bidders : ~meta[b].exists
  /\ UncancelledCount

(* Before the auction there is nothing to count. *)
LEMMA CountInit == Init => CountInv
<1> SUFFICES ASSUME Init PROVE CountInv
  OBVIOUS
<1>1. /\ now = 0 /\ auction = NoAuction /\ uncancelled = 0
      /\ meta = [b \in Bidders |-> NoMetadata]
  BY DEF Init
<1>2. "state" \in DOMAIN auction /\ auction.state = "Absent"
  BY <1>1 DEF NoAuction
<1>3. /\ meta \in [Bidders -> Metadata] /\ \A b \in Bidders : ~meta[b].exists
  BY <1>1 DEF NoMetadata, Metadata
<1>4. {b \in Bidders : meta[b].exists /\ ~meta[b].cancelled} = {}
  BY <1>3
<1>5. UncancelledCount
  BY <1>1, <1>4, FS_EmptySet DEF UncancelledCount
<1>6. QED
  BY <1>1, <1>2, <1>3, <1>5 DEF CountInv

(* One bidder more, or one less, among those with a bid open.              *)
LEMMA OpenCount ==
  ASSUME meta \in [Bidders -> Metadata], NEW b \in Bidders
  PROVE  /\ IsFiniteSet(Open) /\ Cardinality(Open) \in Nat
         /\ b \notin Open => Cardinality(Open \cup {b}) = Cardinality(Open) + 1
         /\ b \in Open => /\ Cardinality(Open \ {b}) = Cardinality(Open) - 1
                          /\ Cardinality(Open) > 0
<1>1. IsFiniteSet(Open)
  BY AuctionAssumption, FS_Subset DEF Open
<1>2. Cardinality(Open) \in Nat
  BY <1>1, FS_CardinalityType
<1>3. b \notin Open => Cardinality(Open \cup {b}) = Cardinality(Open) + 1
  BY <1>1, FS_AddElement
<1>4. b \in Open => Cardinality(Open \ {b}) = Cardinality(Open) - 1
  BY <1>1, FS_RemoveElement
<1>5. b \in Open => Cardinality(Open) > 0
  <2>1. Cardinality(Open) = 0 <=> Open = {}
    BY <1>1, FS_EmptySet
  <2>2. QED
    BY <1>2, <2>1
<1>6. QED
  BY <1>1, <1>2, <1>3, <1>4, <1>5

(* A bid is counted, a cancelled one is counted once, and no other         *)
(* instruction touches the count or the metadata.                          *)
LEMMA CountStep == CountInv /\ [Next]_vars => CountInv'
<1> SUFFICES ASSUME CountInv, [Next]_vars PROVE CountInv'
  OBVIOUS
<1>0. /\ now \in Nat /\ "state" \in DOMAIN auction /\ meta \in [Bidders -> Metadata]
      /\ auction.state = "Absent" => \A b \in Bidders : ~meta[b].exists
      /\ auction.state # "Ended" => uncancelled = Cardinality(Open)
  BY DEF CountInv, UncancelledCount, Open
<1>1. ASSUME "state" \in DOMAIN auction', meta' = meta, uncancelled' = uncancelled, now' \in Nat,
             \/ auction'.state = auction.state
             \/ auction'.state # "Absent" /\ auction.state # "Ended"
      PROVE  CountInv'
  BY <1>0, <1>1 DEF CountInv, UncancelledCount, Open
<1>2. ASSUME NEW a \in Authorities, NEW args \in AuctionArgs, CreateAuction(a, args)
      PROVE  CountInv'
  <2>1. /\ auction.state = "Absent" /\ "state" \in DOMAIN auction' /\ auction'.state = "Created"
        /\ uncancelled' = 0 /\ now' = now /\ meta' = meta
    BY <1>2 DEF CreateAuction
  <2>2. Open' = {}
    BY <2>1, <1>0 DEF Open
  <2>3. QED
    BY <2>1, <2>2, <1>0, FS_EmptySet DEF CountInv, UncancelledCount, Open
<1>3. ASSUME NEW a \in Authorities, StartAuction(a) PROVE CountInv'
  <2>1. /\ "state" \in DOMAIN auction' /\ auction'.state = "Started" /\ auction.state = "Created"
        /\ UNCHANGED <<now, uncancelled, meta>>
    BY <1>0, <1>3 DEF StartAuction
  <2>2. QED
    BY <2>1, <1>0, <1>1
<1>4. ASSUME NEW a \in Authorities, EndAuction(a) PROVE CountInv'
  <2>1. /\ "state" \in DOMAIN auction' /\ auction'.state = "Ended"
        /\ auction.state \in {"Created", "Started"}
        /\ UNCHANGED <<now, uncancelled, meta>>
    BY <1>0, <1>4 DEF EndAuction
  <2>2. QED
    BY <2>1, <1>0, <1>1
<1>5. ASSUME NEW a \in Authorities, NEW v \in Authorities, SetAuthority(a, v) PROVE CountInv'
  <2>1. /\ "state" \in DOMAIN auction' /\ auction'.state = auction.state
        /\ UNCHANGED <<now, uncancelled, meta>>
    BY <1>0, <1>5 DEF SetAuthority
  <2>2. QED
    BY <2>1, <1>0, <1>1
<1>6. ASSUME NEW a \in Authorities, NEW b \in Bidders, ClaimBid(a, b) PROVE CountInv'
  <2>1. UNCHANGED <<auction, now, uncancelled, meta>>
    BY <1>6 DEF ClaimBid
  <2>2. QED
    BY <2>1, <1>0, <1>1
<1>7. ASSUME NEW b \in Bidders, NEW amount \in Amounts, PlaceBid(b, amount) PROVE CountInv'
  <2>1. /\ auction.state = "Started" /\ "state" \in DOMAIN auction' /\ auction'.state = "Started"
        /\ meta' = [meta EXCEPT ![b] = [exists |-> TRUE, cancelled |-> FALSE,
                                        lastBid |-> amount, at |-> now]]
        /\ uncancelled' = uncancelled + 1 /\ now' = now
        /\ meta[b].exists => meta[b].cancelled
    BY <1>0, <1>7 DEF PlaceBid, BiddingOpen
  <2>2. meta' \in [Bidders -> Metadata]
    <3>1. [exists |-> TRUE, cancelled |-> FALSE, lastBid |-> amount, at |-> now] \in Metadata
      BY <1>0, AuctionAssumption DEF Metadata
    <3>2. QED
      BY <3>1, <2>1, <1>0
  <2>3. b \notin Open /\ Open' = Open \cup {b}
    BY <2>1, <1>0 DEF Open
  <2>4. uncancelled' = Cardinality(Open')
    BY <2>1, <2>3, <1>0, OpenCount
  <2>5. QED
    BY <2>1, <2>2, <2>4, <1>0 DEF CountInv, UncancelledCount, Open
<1>8. CASE LateBid
  <2>1. /\ "state" \in DOMAIN auction' /\ auction'.state = "Ended"
        /\ auction.state \in {"Created", "Started"}
        /\ UNCHANGED <<now, uncancelled, meta>>
    BY <1>0, <1>8 DEF LateBid
  <2>2. QED
    BY <2>1, <1>0, <1>1
<1>9. ASSUME NEW b \in Bidders, CancelBid(b) PROVE CountInv'
  <2>1. /\ meta[b].exists /\ meta' = [meta EXCEPT ![b].cancelled = TRUE] /\ now' = now
        /\ "state" \in DOMAIN auction' /\ auction'.state = auction.state
        /\ auction.state # "Ended" => uncancelled' = CountWithout(b)
    BY <1>0, <1>9 DEF CancelBid
  <2>2. meta' \in [Bidders -> Metadata] /\ auction.state # "Absent"
    BY <2>1, <1>0 DEF Metadata
  <2>3. Open' = Open \ {b} /\ (b \in Open <=> ~meta[b].cancelled)
    BY <2>1, <1>0 DEF Open, Metadata
  <2>4. auction.state # "Ended" => uncancelled' = Cardinality(Open')
    <3>1. CASE b \in Open
      BY <3>1, <2>1, <2>3, <1>0, OpenCount DEF CountWithout
    <3>2. CASE b \notin Open
      <4>1. Open' = Open
        BY <3>2, <2>3
      <4>2. QED
        BY <3>2, <4>1, <2>1, <2>3, <1>0 DEF CountWithout
    <3>3. QED
      BY <3>1, <3>2
  <2>5. QED
    BY <2>1, <2>2, <2>4, <1>0 DEF CountInv, UncancelledCount, Open
<1>10. CASE Tick
  BY <1>0, <1>1, <1>10 DEF Tick
<1>11. CASE UNCHANGED vars
  BY <1>0, <1>1, <1>11 DEF vars
<1>12. QED
  BY <1>2, <1>3, <1>4, <1>5, <1>6, <1>7, <1>8, <1>9, <1>10, <1>11 DEF Next

(* While the auction runs, total_uncancelled_bids is the number of bidders *)
(* with a bid open: no cancellation is counted down twice and no bid up    *)
(* twice, in any order of the instructions and for any number of bidders.  *)
THEOREM CountsOpenBids == Spec => []UncancelledCount
<1>1. CountInv => UncancelledCount
  BY DEF CountInv
<1>2. QED
  BY <1>1, CountInit, CountStep, PTL DEF Spec

-----------------------------------------------------------------------------
(* The list of bids *)

(* A bid as the list holds it. *)
Bid == [bidder : Bidders, amount : Nat]

(* list is s with e at place k.                                            *)
Inserted(list, s, k, e) ==
  /\ Len(list) = Len(s) + 1
  /\ \A i \in 1..(Len(s) + 1) :
       list[i] = IF i < k THEN s[i] ELSE IF i = k THEN e ELSE s[i - 1]

(* An insertion moves what was at the place and above it up by one. *)
LEMMA InsertedSeq ==
  ASSUME NEW S, NEW s \in Seq(S), NEW k \in 1..(Len(s) + 1), NEW e \in S
  PROVE  InsertAt(s, k, e) \in Seq(S) /\ Inserted(InsertAt(s, k, e), s, k, e)
<1> DEFINE below == SubSeq(s, 1, k - 1)
           above == SubSeq(s, k, Len(s))
<1>1. /\ below \in Seq(S) /\ Len(below) = k - 1
      /\ \A i \in 1..(k - 1) : below[i] = s[i]
  BY SubSeqProperties
<1>2. /\ above \in Seq(S) /\ Len(above) = Len(s) - k + 1
      /\ \A i \in 1..(Len(s) - k + 1) : above[i] = s[k + i - 1]
  BY SubSeqProperties
<1>3. <<e>> \in Seq(S) /\ Len(<<e>>) = 1 /\ <<e>>[1] = e
  OBVIOUS
<1> HIDE DEF below, above
<1>4. /\ below \o <<e>> \in Seq(S) /\ Len(below \o <<e>>) = k
      /\ \A i \in 1..k : (below \o <<e>>)[i] = IF i < k THEN s[i] ELSE e
  BY <1>1, <1>3, ConcatProperties
<1>5. InsertAt(s, k, e) = (below \o <<e>>) \o above
  BY DEF InsertAt, below, above
<1>6. QED
  BY SMTT(30), <1>2, <1>4, <1>5, ConcatProperties DEF Inserted

(* list is s without its entry at place j.                                 *)
Removed(list, s, j) ==
  /\ Len(list) = Len(s) - 1
  /\ \A i \in 1..(Len(s) - 1) : list[i] = IF i < j THEN s[i] ELSE s[i + 1]

(* The bids of b are gone; when it has only one, the others close up.      *)
LEMMA WithoutSeq ==
  ASSUME NEW list \in Seq(Bid), NEW b,
         \A i, j \in DOMAIN list : i < j => list[i].bidder # list[j].bidder
  PROVE  /\ Without(list, b) \in Seq(Bid)
         /\ (\A i \in DOMAIN list : list[i].bidder # b) => Without(list, b) = list
         /\ \A j \in DOMAIN list : list[j].bidder = b => Removed(Without(list, b), list, j)
<1> DEFINE n == Len(list)
           T == Seq(Bid)
           empty == <<>>
           With(s, i) == IF list[i].bidder = b THEN s ELSE Append(s, list[i])
           step == [i \in 1..n |-> [s \in T |-> With(s, i)]]
           IsKept(f) == f = [i \in 0..n |-> IF i = 0 THEN empty ELSE With(f[i - 1], i)]
           kept == CHOOSE f : IsKept(f)
<1>1. n \in Nat /\ \A i \in 1..n : list[i] \in Bid
  OBVIOUS
<1>2. empty \in T /\ \A i \in 1..n, s \in T : With(s, i) \in T
  BY <1>1, AppendProperties
<1>3. \E f : IsKept(f)
  <2> HIDE DEF With, T, n, empty
  <2>1. step \in [1..n -> [T -> T]]
    BY <1>2
  <2>2. PICK f : Stepping(f, n, T, empty, step)
    <3> HIDE DEF step
    <3>1. QED
      BY <2>1, <1>1, <1>2, StepFunction
  <2>3. f = [i \in 0..n |-> IF i = 0 THEN empty ELSE step[i][f[i - 1]]]
    <3> HIDE DEF step
    <3>1. QED
      BY <2>2, Zenon DEF Stepping
  <2>4. \A i \in 1..n : step[i][f[i - 1]] = With(f[i - 1], i)
    <3>1. f \in [0..n -> T]
      <4> HIDE DEF step
      <4>1. QED
        BY <2>2, Zenon DEF Stepping
    <3>2. \A i \in 1..n : f[i - 1] \in T
      BY <3>1, <1>1
    <3>3. QED
      BY <3>2, Zenon
  <2>5. IsKept(f)
    <3> HIDE DEF step
    <3>1. \A i \in 0..n : (IF i = 0 THEN empty ELSE step[i][f[i - 1]])
                           = IF i = 0 THEN empty ELSE With(f[i - 1], i)
      BY <2>4, <1>1
    <3>2. QED
      BY <2>3, <3>1, Zenon
  <2>6. QED
    <3> HIDE DEF IsKept
    <3>1. QED
      BY <2>5
<1>4. /\ kept[0] = <<>>
      /\ \A i \in 1..n : kept[i] = With(kept[i - 1], i)
      /\ Without(list, b) = kept[n]
  <2>1. Without(list, b) = kept[n]
    BY Zenon DEF Without
  <2>2. IsKept(kept)
    <3> HIDE DEF IsKept
    <3>1. QED
      BY <1>3, Zenon DEF kept
  <2> HIDE DEF kept, n, With
  <2>3. QED
    BY <2>1, <2>2, <1>1
<1> HIDE DEF kept, n, T, With
<1>5. Without(list, b) \in Seq(Bid)
  <2> DEFINE Good(i) == kept[i] \in T
             G == {i \in 0..n : Good(i)}
  <2>1. Good(0)
    BY <1>2, <1>4
  <2>2. \A i \in 1..n : Good(i - 1) => Good(i)
    BY <1>2, <1>4
  <2> HIDE DEF Good
  <2>3. 0 \in G /\ \A i \in 1..n : i - 1 \in G => i \in G
    BY <2>1, <2>2, <1>1
  <2>4. n \in G
    <3> HIDE DEF G
    <3>1. QED
      BY <2>3, <1>1, StepByStep
  <2>5. QED
    BY <2>4, <1>4 DEF Good, T
<1>6. ASSUME \A i \in 1..n : list[i].bidder # b PROVE Without(list, b) = list
  <2> DEFINE Good(i) == kept[i] = SubSeq(list, 1, i)
             G == {i \in 0..n : Good(i)}
  <2>1. Good(0)
    BY <1>4, SubSeqEmpty
  <2>2. ASSUME NEW i \in 1..n, Good(i - 1) PROVE Good(i)
    <3>1. kept[i] = Append(SubSeq(list, 1, i - 1), list[i])
      BY <2>2, <1>4, <1>6 DEF With
    <3>2. SubSeq(list, 1, i) = SubSeq(list, 1, i - 1) \o <<list[i]>>
      BY <1>1, SubSeqRecursiveSecond DEF n
    <3>3. SubSeq(list, 1, i - 1) \in Seq(Bid)
      BY <1>1, SubSeqProperties DEF n
    <3>4. QED
      BY <3>1, <3>2, <3>3, <1>1, AppendIsConcat
  <2> HIDE DEF Good
  <2>3. 0 \in G /\ \A i \in 1..n : i - 1 \in G => i \in G
    BY <2>1, <2>2, <1>1
  <2>4. n \in G
    <3> HIDE DEF G
    <3>1. QED
      BY <2>3, <1>1, StepByStep
  <2>5. QED
    BY <2>4, <1>4, SubSeqFull DEF Good, n
<1>7. ASSUME NEW j \in 1..n, list[j].bidder = b
      PROVE  /\ Len(Without(list, b)) = n - 1
             /\ \A i \in 1..(n - 1) :
                   Without(list, b)[i] = IF i < j THEN list[i] ELSE list[i + 1]
  <2>1. \A i \in 1..n : i # j => list[i].bidder # b
    BY <1>1, <1>7 DEF n
  <2> DEFINE Good(i) == /\ kept[i] \in Seq(Bid)
                        /\ Len(kept[i]) = IF i < j THEN i ELSE i - 1
                        /\ \A k \in 1..Len(kept[i]) :
                             kept[i][k] = IF k < j THEN list[k] ELSE list[k + 1]
             G == {i \in 0..n : Good(i)}
  <2>2. Good(0)
    BY <1>1, <1>4, <1>7, EmptySeq
  <2>3. ASSUME NEW i \in 1..n, Good(i - 1) PROVE Good(i)
    <3>1. CASE i = j
      <4>1. kept[i] = kept[i - 1]
        BY <3>1, <1>4, <1>7 DEF With
      <4>2. QED
        BY <4>1, <3>1, <2>3, <1>1
    <3>2. CASE i # j
      <4>1. kept[i] = Append(kept[i - 1], list[i])
        BY <3>2, <2>1, <1>4 DEF With
      <4>2. /\ kept[i] \in Seq(Bid) /\ Len(kept[i]) = Len(kept[i - 1]) + 1
            /\ \A k \in 1..Len(kept[i - 1]) : kept[i][k] = kept[i - 1][k]
            /\ kept[i][Len(kept[i - 1]) + 1] = list[i]
        BY <4>1, <2>3, <1>1, AppendProperties
      <4>3. Len(kept[i]) = IF i < j THEN i ELSE i - 1
        BY <4>2, <3>2, <2>3
      <4>4. ASSUME NEW k \in 1..Len(kept[i])
            PROVE  kept[i][k] = IF k < j THEN list[k] ELSE list[k + 1]
        <5>1. CASE k = Len(kept[i])
          BY <5>1, <4>2, <4>3, <3>2, <2>3, <1>1
        <5>2. CASE k # Len(kept[i])
          <6>1. k \in 1..Len(kept[i - 1])
            BY <5>2, <4>2, <2>3
          <6>2. QED
            BY <6>1, <4>2, <2>3
        <5>3. QED
          BY <5>1, <5>2
      <4>5. QED
        BY <4>2, <4>3, <4>4
    <3>3. QED
      BY <3>1, <3>2
  <2> HIDE DEF Good
  <2>4. 0 \in G /\ \A i \in 1..n : i - 1 \in G => i \in G
    BY <2>2, <2>3, <1>1
  <2>5. n \in G
    <3> HIDE DEF G
    <3>1. QED
      BY <2>4, <1>1, StepByStep
  <2>6. QED
    BY <2>5, <1>1, <1>4 DEF Good
<1>8. QED
  BY <1>1, <1>5, <1>6, <1>7 DEF n, Removed

(* What the accounts of the auction hold. *)
AuctionStates == {"Absent", "Created", "Started", "Ended"}

AuctionData ==
  [state : AuctionStates, authority : Optional(Authorities),
   lastBid : Optional(Nat), endedAt : Optional(Nat), bids : Seq(Bid),
   open : BOOLEAN, max : Nat, endAt : Optional(Nat), gap : Optional(Nat),
   floor : [kind : FloorKinds, price : Nat], tick : Optional(Nat),
   gapTick : Optional(0..100)]

Types ==
  /\ now \in Nat
  /\ auction \in AuctionData
  /\ meta \in [Bidders -> Metadata]
  /\ pot \in [Bidders -> Nat]
  /\ emptied \in [Bidders -> BOOLEAN]
  /\ claimed \in [Bidders -> Nat]

(* Nothing is bid before the start, and an open edition lists nothing.     *)
NothingBefore ==
  /\ auction.state \in {"Absent", "Created"} =>
       auction.endedAt = None /\ bids = <<>> /\ \A b \in Bidders : ~meta[b].exists
  /\ auction.open => bids = <<>>

(* A pot holds the one bid its bidder has open, or nothing.                *)
PotsHold ==
  \A b \in Bidders :
    /\ meta[b].at <= now
    /\ pot[b] # 0 => meta[b].exists /\ ~meta[b].cancelled /\ pot[b] = meta[b].lastBid
    /\ emptied[b] => pot[b] = 0
    /\ ~emptied[b] => claimed[b] = 0

(* While the state says Started, a listed bid is open, and its money is    *)
(* in the pot or with the authority.                                       *)
ListedOpen ==
  auction.state = "Started" =>
    \A i \in DOMAIN bids :
      LET b == bids[i].bidder IN
        /\ meta[b].exists /\ ~meta[b].cancelled /\ meta[b].lastBid = bids[i].amount
        /\ IF emptied[b] THEN claimed[b] = bids[i].amount ELSE pot[b] = bids[i].amount

(* The inductive invariant: the two theorems about the order and about the *)
(* payments need each other's facts about the list, the metadata and the   *)
(* pots.                                                                   *)
AuctionInv ==
  /\ Types
  /\ NothingBefore
  /\ PotsHold
  /\ ListedOpen
  /\ ListOrdered
  /\ ClaimsFromWinners

(* In a sorted list the bids below an amount are the first ones.           *)
LEMMA LowerIsPrefix ==
  ASSUME bids \in Seq(Bid), NEW amount \in Nat,
         \A i, j \in DOMAIN bids : i < j => bids[i].amount <= bids[j].amount
  PROVE  /\ Lower(amount) \in 0..Len(bids)
         /\ \A i \in DOMAIN bids : bids[i].amount < amount <=> i <= Lower(amount)
<1> DEFINE n == Len(bids)
           Above == {i \in 1..(n + 1) : i \in 1..n => bids[i].amount >= amount}
<1>1. n \in Nat /\ DOMAIN bids = 1..n /\ \A i \in 1..n : bids[i].amount \in Nat
  <2>1. n \in Nat /\ DOMAIN bids = 1..n /\ \A i \in 1..n : bids[i] \in Bid
    OBVIOUS
  <2>2. QED
    BY <2>1 DEF Bid
<1>2. n + 1 \in Above /\ Above \in SUBSET Nat
  BY <1>1
<1>3. PICK m \in Above : \A i \in Above : m <= i
  <2> HIDE DEF Above
  <2>1. QED
    BY <1>2, LeastNatural
<1>4. m \in 1..(n + 1) /\ m - 1 \in 0..n
  BY <1>1, <1>3
<1>5. \A i \in 1..n : bids[i].amount < amount <=> i <= m - 1
  <2>1. ASSUME NEW i \in 1..n, i < m PROVE bids[i].amount < amount
    BY <2>1, <1>1, <1>3, <1>4
  <2>2. ASSUME NEW i \in 1..n, i >= m PROVE bids[i].amount >= amount
    <3>1. m \in 1..n /\ bids[m].amount >= amount
      BY <2>2, <1>1, <1>3, <1>4
    <3>2. bids[m].amount <= bids[i].amount
      BY <3>1, <2>2, <1>1
    <3>3. QED
      BY <3>1, <3>2, <1>1
  <2>3. QED
    BY <2>1, <2>2, <1>1, <1>4
<1>6. {i \in DOMAIN bids : bids[i].amount < amount} = 1..(m - 1)
  BY <1>1, <1>4, <1>5
<1>7. Lower(amount) = m - 1
  <2>1. Cardinality(1..(m - 1)) = IF 1 > m - 1 THEN 0 ELSE m - 1 - 1 + 1
    BY <1>4, FS_Interval
  <2>2. Lower(amount) = Cardinality(1..(m - 1))
    BY <1>6 DEF Lower
  <2>3. QED
    BY <2>1, <2>2, <1>4
<1>8. QED
  BY <1>1, <1>4, <1>5, <1>7

(* Before the auction there is no list, no bid and no money. *)
LEMMA AuctionInvInit == Init => AuctionInv
<1> SUFFICES ASSUME Init PROVE AuctionInv
  OBVIOUS
<1>1. NoAuction \in AuctionData /\ NoMetadata \in Metadata
  BY EmptySeq DEF NoAuction, NoMetadata, AuctionData, Metadata, AuctionStates, Optional, FloorKinds
<1>2. Types
  BY <1>1 DEF Types, Init
<1>3. auction.endedAt = None /\ auction.state = "Absent" /\ bids = <<>> /\ Len(bids) = 0
  BY DEF Init, NoAuction, bids
<1>4. DOMAIN bids = {}
  BY <1>3
<1>5. ListedOpen /\ ListOrdered
  BY <1>4 DEF ListedOpen, ListOrdered
<1>6. NothingBefore
  BY <1>3 DEF NothingBefore, Init, NoMetadata
<1>7. PotsHold /\ ClaimsFromWinners
  BY DEF PotsHold, ClaimsFromWinners, Init, NoMetadata
<1>8. QED
  BY <1>2, <1>5, <1>6, <1>7 DEF AuctionInv

(* What is in the list.                                                    *)
LEMMA Listing ==
  ASSUME AuctionInv
  PROVE  /\ auction \in AuctionData /\ bids \in Seq(Bid)
         /\ Len(bids) \in Nat /\ DOMAIN bids = 1..Len(bids)
         /\ \A i \in DOMAIN bids : bids[i].bidder \in Bidders /\ bids[i].amount \in Nat
<1>1. auction \in AuctionData /\ bids \in Seq(Bid)
  BY DEF AuctionInv, Types, AuctionData, bids
<1>2. Len(bids) \in Nat /\ DOMAIN bids = 1..Len(bids) /\ \A i \in DOMAIN bids : bids[i] \in Bid
  BY <1>1
<1>3. QED
  BY <1>1, <1>2 DEF Bid

(* What leaves the list and the bidders alone keeps the invariant.         *)
LEMMA QuietStep ==
  ASSUME AuctionInv, Types', now' >= now, bids' = bids,
         auction'.open = auction.open, auction'.max = auction.max,
         UNCHANGED <<meta, pot, emptied, claimed>>,
         auction'.state \in {"Absent", "Created"} =>
            auction.state \in {"Absent", "Created"} /\ auction'.endedAt = auction.endedAt,
         auction'.state = "Started" => auction.state \in {"Created", "Started"},
         Ended(now) => Ended(now)' /\ Minimum' = Minimum
  PROVE  AuctionInv'
<1> USE DEF AuctionInv
<1>1. NothingBefore'
  BY DEF NothingBefore
<1>2. PotsHold'
  <2>1. \A b \in Bidders : meta[b].at <= now'
    BY DEF PotsHold, Types, Metadata
  <2>2. QED
    BY <2>1 DEF PotsHold
<1>3. ListedOpen'
  <2>1. auction.state = "Created" => bids = <<>> /\ DOMAIN bids = {}
    BY DEF NothingBefore
  <2> HIDE DEF bids
  <2>2. QED
    BY <2>1 DEF ListedOpen
<1>4. ListOrdered'
  BY DEF ListOrdered
<1>5. ClaimsFromWinners'
  BY DEF ClaimsFromWinners, IsWinner, WinsAbove
<1>6. QED
  BY <1>1, <1>2, <1>3, <1>4, <1>5

(* The list after a bid: the bid at place k among those before, and the    *)
(* lowest one cut off when there is no more room.                          *)
Placed(list, bid, k, cut) ==
  /\ \A i \in 1..Len(bids) : bids[i].amount < bid.amount <=> i < k
  /\ cut = 1 <=> Len(bids) + 1 > ArraySize
  /\ list \in Seq(Bid) /\ Len(list) = Len(bids) + 1 - cut
  /\ \A i \in 1..Len(list) :
       list[i] = IF i + cut < k THEN bids[i + cut]
                 ELSE IF i + cut = k THEN bid ELSE bids[i + cut - 1]

(* A bid goes above those that are lower and below those that are not. *)
LEMMA PlacedList ==
  ASSUME auction \in AuctionData, NEW bid \in Bid, ~auction.open,
         \A i, j \in DOMAIN bids : i < j => bids[i].amount <= bids[j].amount
  PROVE  \E k \in 1..(Len(bids) + 1), cut \in {0, 1} : Placed(BidsWith(bid), bid, k, cut)
<1> DEFINE k == Lower(bid.amount) + 1
           list == Insert(bid)
<1>1. bids \in Seq(Bid) /\ Len(bids) \in Nat /\ bid.amount \in Nat
  BY DEF AuctionData, bids, Bid
<1>2. k \in 1..(Len(bids) + 1) /\ \A i \in 1..Len(bids) : bids[i].amount < bid.amount <=> i < k
  <2>1. /\ Lower(bid.amount) \in 0..Len(bids)
        /\ \A i \in DOMAIN bids : bids[i].amount < bid.amount <=> i <= Lower(bid.amount)
    BY <1>1, LowerIsPrefix
  <2>2. QED
    BY <2>1, <1>1
<1>3. /\ list \in Seq(Bid) /\ Len(list) = Len(bids) + 1
      /\ \A i \in 1..(Len(bids) + 1) :
           list[i] = IF i < k THEN bids[i] ELSE IF i = k THEN bid ELSE bids[i - 1]
  <2>1. list = InsertAt(bids, k, bid)
    BY DEF Insert
  <2> HIDE DEF k, list
  <2>2. list \in Seq(Bid) /\ Inserted(list, bids, k, bid)
    BY <2>1, <1>1, <1>2, InsertedSeq
  <2>3. QED
    BY <2>2, Zenon DEF Inserted
<1>4. BidsWith(bid) = IF Len(list) > ArraySize THEN Tail(list) ELSE list
  BY DEF BidsWith, Prune
<1>5. ArraySize \in Nat
  BY AuctionAssumption DEF ArraySize, AuctionData
<1> HIDE DEF k, list
<1>6. CASE Len(list) > ArraySize
  <2>1. list # <<>>
    BY <1>1, <1>3, EmptySeq
  <2>2. /\ Tail(list) \in Seq(Bid) /\ Len(Tail(list)) = Len(bids)
        /\ \A i \in 1..Len(bids) : Tail(list)[i] = list[i + 1]
    BY <2>1, <1>1, <1>3, HeadTailProperties
  <2>3. BidsWith(bid) = Tail(list)
    BY <1>4, <1>6
  <2>4. \A i \in 1..Len(bids) : BidsWith(bid)[i] =
           IF i + 1 < k THEN bids[i + 1] ELSE IF i + 1 = k THEN bid ELSE bids[i + 1 - 1]
    BY <2>2, <2>3, <1>1, <1>3
  <2>5. Placed(BidsWith(bid), bid, k, 1)
    BY <2>2, <2>3, <2>4, <1>1, <1>2, <1>3, <1>5, <1>6 DEF Placed
  <2>6. QED
    BY <2>5, <1>2
<1>7. CASE ~(Len(list) > ArraySize)
  <2>1. BidsWith(bid) = list
    BY <1>4, <1>7
  <2>2. \A i \in 1..(Len(bids) + 1) : BidsWith(bid)[i] =
           IF i < k THEN bids[i] ELSE IF i = k THEN bid ELSE bids[i - 1]
    BY <2>1, <1>1, <1>3
  <2>3. Placed(BidsWith(bid), bid, k, 0)
    BY <2>1, <2>2, <1>1, <1>2, <1>3, <1>5, <1>7 DEF Placed
  <2>4. QED
    BY <2>3, <1>2
<1>8. QED
  BY <1>6, <1>7

(* After a bid of somebody who is not in the list, the list keeps its      *)
(* order, and in it are the new bid and bids that were in it before.       *)
LEMMA PlacedInOrder ==
  ASSUME AuctionInv, NEW b \in Bidders, NEW amount \in Nat, ~auction.open,
         \A i \in DOMAIN bids : bids[i].bidder # b,
         bids' = BidsWith([bidder |-> b, amount |-> amount]), bids' \in Seq(Bid),
         meta' = [meta EXCEPT ![b] = [exists |-> TRUE, cancelled |-> FALSE,
                                      lastBid |-> amount, at |-> now]]
  PROVE  /\ ListOrdered'
         /\ \A i \in DOMAIN bids' : \/ bids'[i] = [bidder |-> b, amount |-> amount]
                                    \/ \E j \in DOMAIN bids : bids'[i] = bids[j]
<1> DEFINE bid == [bidder |-> b, amount |-> amount]
<1>1. auction \in AuctionData /\ bids \in Seq(Bid) /\ Len(bids) \in Nat /\ bid \in Bid
  BY DEF AuctionInv, Types, AuctionData, bids, Bid
<1>2. \A i, j \in 1..Len(bids) : i < j =>
        /\ bids[i].bidder # bids[j].bidder /\ bids[i].amount <= bids[j].amount
        /\ bids[i].amount = bids[j].amount =>
             meta[bids[j].bidder].at <= meta[bids[i].bidder].at
  BY <1>1 DEF AuctionInv, ListOrdered
<1>3. \A i \in 1..Len(bids) : /\ bids[i].bidder \in Bidders \ {b}
                             /\ bids[i].amount \in Nat
                             /\ meta[bids[i].bidder].at <= now
                             /\ meta'[bids[i].bidder] = meta[bids[i].bidder]
  <2>1. \A i \in 1..Len(bids) : bids[i] \in Bid /\ bids[i].bidder # b
    BY <1>1
  <2>2. \A c \in Bidders : c # b => meta'[c] = meta[c] /\ meta[c].at <= now
    BY DEF AuctionInv, Types, PotsHold
  <2>3. QED
    BY <2>1, <2>2 DEF Bid
<1>4. meta'[b].at = now /\ now \in Nat /\ bid.bidder = b /\ bid.amount = amount
  BY DEF AuctionInv, Types
<1>5. PICK k \in 1..(Len(bids) + 1), cut \in {0, 1} : Placed(bids', bid, k, cut)
  <2>1. \A i, j \in DOMAIN bids : i < j => bids[i].amount <= bids[j].amount
    BY DEF AuctionInv, ListOrdered
  <2> HIDE DEF bid
  <2>2. \E k \in 1..(Len(bids) + 1), cut \in {0, 1} : Placed(BidsWith(bid), bid, k, cut)
    BY <2>1, <1>1, PlacedList
  <2>3. QED
    BY <2>2 DEF bid
<1> HIDE DEF bid
<1> DEFINE Entry(m) == IF m < k THEN bids[m] ELSE IF m = k THEN bid ELSE bids[m - 1]
<1>placed. /\ \A i \in 1..Len(bids) : bids[i].amount < amount <=> i < k
           /\ Len(bids') = Len(bids) + 1 - cut
           /\ \A i \in 1..Len(bids') : bids'[i] = Entry(i + cut)
  BY <1>4, <1>5 DEF Placed
<1> HIDE DEF Entry
<1>6. Len(bids') \in Nat /\ DOMAIN bids' = 1..Len(bids')
  BY <1>1, <1>placed
<1>entries. \A i \in DOMAIN bids' : bids'[i] = Entry(i + cut)
  BY <1>placed, <1>6, Zenon
<1>7. ASSUME NEW i \in DOMAIN bids', NEW j \in DOMAIN bids', i < j
      PROVE  /\ bids'[i].bidder # bids'[j].bidder /\ bids'[i].amount <= bids'[j].amount
             /\ bids'[i].amount = bids'[j].amount =>
                  meta'[bids'[j].bidder].at <= meta'[bids'[i].bidder].at
  <2> DEFINE x == i + cut
             y == j + cut
  <2>1. x \in 1..(Len(bids) + 1) /\ y \in 1..(Len(bids) + 1) /\ x < y
    BY <1>1, <1>placed, <1>6, <1>7
  <2>2. /\ bids'[i] = IF x < k THEN bids[x] ELSE IF x = k THEN bid ELSE bids[x - 1]
        /\ bids'[j] = IF y < k THEN bids[y] ELSE IF y = k THEN bid ELSE bids[y - 1]
    <3>1. bids'[i] = Entry(x) /\ bids'[j] = Entry(y)
      BY <1>entries
    <3>2. QED
      BY <3>1, Zenon DEF Entry
  <2> HIDE DEF x, y
  <2>3. CASE x = k
    <3>1. bids'[i] = bid /\ bids'[j] = bids[y - 1] /\ y - 1 \in 1..Len(bids) /\ ~(y - 1 < k)
      BY <2>1, <2>2, <2>3, <1>1
    <3>2. DEFINE m == y - 1
    <3>3. /\ m \in 1..Len(bids) /\ ~(m < k) /\ bids'[j] = bids[m] /\ bids'[i] = bid
      BY <3>1
    <3> HIDE DEF m
    <3>4. ~(bids[m].amount < amount)
      BY <3>3, <1>placed
    <3>5. QED
      BY <3>3, <3>4, <1>3, <1>4
  <2>4. CASE y = k
    <3>1. bids'[j] = bid /\ bids'[i] = bids[x] /\ x \in 1..Len(bids) /\ x < k
      BY <2>1, <2>2, <2>4, <1>1
    <3>2. QED
      BY SMTT(30), <3>1, <1>3, <1>4, <1>placed
  <2>5. CASE x # k /\ y # k
    <3>1. PICK u \in 1..Len(bids), v \in 1..Len(bids) :
             u < v /\ bids'[i] = bids[u] /\ bids'[j] = bids[v]
      <4>1. CASE x < k /\ y < k
        <5>1. /\ bids'[i] = bids[x] /\ bids'[j] = bids[y]
              /\ x \in 1..Len(bids) /\ y \in 1..Len(bids)
          BY <4>1, <2>1, <2>2, <1>1
        <5>2. QED
          BY <5>1, <2>1
      <4>2. CASE x < k /\ k < y
        <5>1. /\ bids'[i] = bids[x] /\ bids'[j] = bids[y - 1]
              /\ x \in 1..Len(bids) /\ y - 1 \in 1..Len(bids) /\ x < y - 1
          BY <4>2, <2>1, <2>2, <1>1
        <5>2. QED
          BY <5>1
      <4>3. CASE k < x /\ k < y
        <5>1. /\ bids'[i] = bids[x - 1] /\ bids'[j] = bids[y - 1]
              /\ x - 1 \in 1..Len(bids) /\ y - 1 \in 1..Len(bids) /\ x - 1 < y - 1
          BY <4>3, <2>1, <2>2, <1>1
        <5>2. QED
          BY <5>1
      <4>4. QED
        BY SMTT(30), <4>1, <4>2, <4>3, <2>1, <2>5
    <3>2. QED
      BY <3>1, <1>2, <1>3
  <2>6. QED
    BY <2>3, <2>4, <2>5
<1>8. ListOrdered'
  BY <1>7 DEF ListOrdered
<1>9. ASSUME NEW i \in DOMAIN bids'
      PROVE  bids'[i] = bid \/ \E j \in DOMAIN bids : bids'[i] = bids[j]
  <2> DEFINE x == i + cut
  <2>1. x \in 1..(Len(bids) + 1)
    BY <1>1, <1>placed, <1>6
  <2>2. bids'[i] = IF x < k THEN bids[x] ELSE IF x = k THEN bid ELSE bids[x - 1]
    <3>1. bids'[i] = Entry(x)
      BY <1>entries
    <3>2. QED
      BY <3>1, Zenon DEF Entry
  <2> HIDE DEF x
  <2>3. CASE x < k
    BY <2>1, <2>2, <2>3, <1>1
  <2>4. CASE x > k
    <3>1. bids'[i] = bids[x - 1] /\ x - 1 \in 1..Len(bids)
      BY <2>1, <2>2, <2>4, <1>1
    <3>2. QED
      BY <3>1, <1>1
  <2>5. QED
    BY <2>1, <2>2, <2>3, <2>4
<1>10. QED
  BY <1>8, <1>9 DEF bid

(* After a cancellation the list is the same, or one bid shorter.          *)
LEMMA CancelledList ==
  ASSUME AuctionInv, NEW b \in Bidders
  PROVE  /\ BidsWithout(b) \in Seq(Bid)
         /\ (\A i \in DOMAIN bids : bids[i].bidder # b) => BidsWithout(b) = bids
         /\ \A j \in DOMAIN bids : bids[j].bidder = b => Removed(BidsWithout(b), bids, j)
<1>1. bids \in Seq(Bid) /\ DOMAIN bids = 1..Len(bids) /\ Len(bids) \in Nat
  BY Listing
<1>2. CASE auction.open
  <2>1. bids = <<>> /\ BidsWithout(b) = bids
    BY <1>2 DEF AuctionInv, NothingBefore, BidsWithout
  <2>2. DOMAIN bids = {}
    BY <2>1
  <2>3. QED
    BY <2>1, <2>2, <1>1
<1>3. CASE ~auction.open
  <2>1. BidsWithout(b) = Without(bids, b)
    BY <1>3 DEF BidsWithout
  <2>2. \A i, j \in DOMAIN bids : i < j => bids[i].bidder # bids[j].bidder
    BY DEF AuctionInv, ListOrdered
  <2>3. /\ Without(bids, b) \in Seq(Bid)
        /\ (\A i \in DOMAIN bids : bids[i].bidder # b) => Without(bids, b) = bids
        /\ \A j \in DOMAIN bids : bids[j].bidder = b => Removed(Without(bids, b), bids, j)
    BY <2>2, <1>1, WithoutSeq
  <2>4. QED
    BY <2>1, <2>3
<1>4. QED
  BY <1>2, <1>3

(* A bidder who does not win leaves the list without a change of winners.  *)
LEMMA LoserLeaves ==
  ASSUME AuctionInv, NEW j \in DOMAIN bids, bids' \in Seq(Bid), Removed(bids', bids, j),
         auction'.open = auction.open, auction'.max = auction.max, Minimum' = Minimum,
         ~IsWinner(bids[j].bidder), NEW c \in Bidders
  PROVE  IsWinner(c)' <=> IsWinner(c)
<1> DEFINE n == Len(bids)
           Wins(list, i) == /\ list[i].bidder = c /\ list[i].amount >= Minimum
                            /\ Len(list) - i < auction.max
<1>1. /\ bids \in Seq(Bid) /\ n \in Nat /\ DOMAIN bids = 1..n
      /\ \A i \in 1..n : bids[i].amount \in Nat
      /\ Minimum \in Nat /\ auction.max \in Nat
  <2>1. Minimum \in Nat /\ auction.max \in Nat
    BY Listing DEF Minimum, AuctionData
  <2>2. QED
    BY <2>1, Listing
<1>2. /\ Len(bids') = n - 1 /\ DOMAIN bids' = 1..(n - 1)
      /\ \A i \in 1..(n - 1) : bids'[i] = IF i < j THEN bids[i] ELSE bids[i + 1]
  BY <1>1 DEF Removed
<1>3. /\ IsWinner(c) <=> ~auction.open /\ \E i \in 1..n : Wins(bids, i)
      /\ IsWinner(c)' <=> ~auction.open /\ \E i \in 1..(n - 1) : Wins(bids', i)
  BY <1>1, <1>2 DEF IsWinner, WinsAbove
<1>4. ~auction.open => \/ bids[j].amount < Minimum
                       \/ n - j >= auction.max
  BY <1>1 DEF IsWinner, WinsAbove
<1>5. \A i \in 1..n : i < j => bids[i].amount <= bids[j].amount
  BY <1>1 DEF AuctionInv, ListOrdered
<1>6. ASSUME ~auction.open, NEW i \in 1..(n - 1), Wins(bids', i)
      PROVE  \E k \in 1..n : Wins(bids, k)
  <2>1. ~(i < j)
    <3>1. SUFFICES ASSUME i < j PROVE FALSE
      OBVIOUS
    <3>2. bids[i].amount >= Minimum /\ n - 1 - i < auction.max
      BY <3>1, <1>2, <1>6
    <3>3. QED
      BY <3>1, <3>2, <1>1, <1>4, <1>5, <1>6
  <2>2. i + 1 \in 1..n /\ Wins(bids, i + 1)
    BY <2>1, <1>1, <1>2, <1>6
  <2> HIDE DEF Wins
  <2>3. QED
    BY <2>2
<1>7. ASSUME ~auction.open, NEW i \in 1..n, Wins(bids, i)
      PROVE  \E k \in 1..(n - 1) : Wins(bids', k)
  <2>1. i > j
    BY SMTT(30), <1>1, <1>4, <1>5, <1>7
  <2>2. i - 1 \in 1..(n - 1) /\ Wins(bids', i - 1)
    BY <2>1, <1>1, <1>2, <1>7
  <2> HIDE DEF Wins
  <2>3. QED
    BY <2>2
<1>8. QED
  <2> HIDE DEF Wins
  <2>1. QED
    BY <1>3, <1>6, <1>7

(* Whatever an instruction does to the list after the end, it is done to   *)
(* a bidder who does not win.                                              *)
LEMMA CancelKeepsWinners ==
  ASSUME AuctionInv, NEW b \in Bidders, CancelBid(b), Ended(now), NEW c \in Bidders
  PROVE  IsWinner(c)' <=> IsWinner(c)
<1>1. auction \in AuctionData /\ bids \in Seq(Bid)
  BY Listing
<1>2. CASE auction.state = "Ended"
  BY <1>2 DEF CancelBid, IsWinner, WinsAbove, Minimum, bids
<1>3. CASE auction.state # "Ended"
  <2>1. auction' = [auction EXCEPT !.bids = BidsWithout(b)]
    BY <1>3 DEF CancelBid
  <2>2. /\ bids' = BidsWithout(b) /\ Minimum' = Minimum
        /\ auction'.open = auction.open /\ auction'.max = auction.max
    BY <2>1, <1>1 DEF AuctionData, bids, Minimum
  <2>3. ~IsWinner(b)
    BY DEF CancelBid, MayCancel
  <2>4. CASE \A i \in DOMAIN bids : bids[i].bidder # b
    <3>1. bids' = bids
      BY <2>2, <2>4, CancelledList
    <3>2. QED
      BY <3>1, <2>2 DEF IsWinner, WinsAbove
  <2>5. ASSUME NEW j \in DOMAIN bids, bids[j].bidder = b PROVE IsWinner(c)' <=> IsWinner(c)
    <3>1. bids' \in Seq(Bid) /\ Removed(bids', bids, j)
      BY <2>2, <2>5, CancelledList
    <3>2. QED
      BY <3>1, <2>2, <2>3, <2>5, LoserLeaves
  <2>6. QED
    BY <2>4, <2>5
<1>4. QED
  BY <1>2, <1>3

(* A new auction starts with an empty list and no bidders. *)
LEMMA CreateStep ==
  ASSUME AuctionInv, NEW a \in Authorities, NEW args \in AuctionArgs, CreateAuction(a, args)
  PROVE  AuctionInv'
<1>1. /\ auction.state = "Absent" /\ auction.endedAt = None
      /\ UNCHANGED <<now, meta, pot, emptied, claimed>>
      /\ bids = <<>>
  BY DEF AuctionInv, NothingBefore, CreateAuction
<1>2. args \in CreateAuctionArgs
  BY AuctionAssumption
<1>3. /\ auction' \in AuctionData /\ auction'.state = "Created"
      /\ auction'.endedAt = None /\ bids' = <<>>
  BY <1>2, EmptySeq
     DEF CreateAuction, AuctionData, AuctionStates, CreateAuctionArgs, Optional, bids
<1>4. Types'
  BY <1>1, <1>3 DEF AuctionInv, Types
<1>5. DOMAIN bids' = {}
  BY <1>3
<1>6. NothingBefore'
  BY <1>1, <1>3 DEF AuctionInv, NothingBefore
<1>7. PotsHold'
  BY <1>1 DEF AuctionInv, PotsHold
<1>8. ListedOpen' /\ ListOrdered'
  BY <1>5 DEF ListedOpen, ListOrdered
<1>9. ~Ended(now)
  BY <1>1 DEF Ended
<1>10. ClaimsFromWinners'
  BY <1>1, <1>9 DEF AuctionInv, ClaimsFromWinners
<1>11. QED
  BY <1>4, <1>6, <1>7, <1>8, <1>10 DEF AuctionInv

(* The authority collects the pot of a winner, after the end. *)
LEMMA ClaimStep ==
  ASSUME AuctionInv, NEW a \in Authorities, NEW b \in Bidders, ClaimBid(a, b)
  PROVE  AuctionInv'
<1>1. /\ UNCHANGED <<now, auction, meta>> /\ bids' = bids
      /\ IsWinner(b) /\ Ended(now)
      /\ pot' = [pot EXCEPT ![b] = 0]
      /\ claimed' = [claimed EXCEPT ![b] = @ + pot[b]]
      /\ emptied' = [emptied EXCEPT ![b] = TRUE]
  BY DEF ClaimBid, bids
<1>2. /\ pot \in [Bidders -> Nat] /\ claimed \in [Bidders -> Nat]
      /\ emptied \in [Bidders -> BOOLEAN] /\ meta \in [Bidders -> Metadata]
  BY DEF AuctionInv, Types
<1>3. /\ pot'[b] = 0 /\ claimed'[b] = claimed[b] + pot[b] /\ emptied'[b]
      /\ \A c \in Bidders \ {b} : /\ pot'[c] = pot[c] /\ claimed'[c] = claimed[c]
                                  /\ emptied'[c] = emptied[c]
  BY <1>1, <1>2
<1>4. claimed[b] + pot[b] \in Nat
  BY <1>2
<1>5. Types'
  BY <1>1, <1>2, <1>4 DEF AuctionInv, Types
<1>6. NothingBefore'
  BY <1>1 DEF AuctionInv, NothingBefore
<1>7. PotsHold'
  <2>1. ASSUME NEW c \in Bidders
        PROVE  /\ meta[c].at <= now
               /\ pot'[c] # 0 => meta[c].exists /\ ~meta[c].cancelled /\ pot'[c] = meta[c].lastBid
               /\ emptied'[c] => pot'[c] = 0
               /\ ~emptied'[c] => claimed'[c] = 0
    <3>1. CASE c = b
      BY <3>1, <1>3 DEF AuctionInv, PotsHold
    <3>2. CASE c # b
      BY <3>2, <1>3 DEF AuctionInv, PotsHold
    <3>3. QED
      BY <3>1, <3>2
  <2>2. QED
    BY <2>1, <1>1 DEF PotsHold
<1>8. \A i \in DOMAIN bids : bids[i].bidder \in Bidders /\ bids[i].amount \in Nat
  BY Listing
<1>9. ListedOpen'
  <2>1. ASSUME auction.state = "Started", NEW i \in DOMAIN bids
        PROVE  /\ meta[bids[i].bidder].exists /\ ~meta[bids[i].bidder].cancelled
               /\ meta[bids[i].bidder].lastBid = bids[i].amount
               /\ IF emptied'[bids[i].bidder] THEN claimed'[bids[i].bidder] = bids[i].amount
                  ELSE pot'[bids[i].bidder] = bids[i].amount
    <3> DEFINE c == bids[i].bidder
    <3>1. /\ meta[c].exists /\ ~meta[c].cancelled /\ meta[c].lastBid = bids[i].amount
          /\ IF emptied[c] THEN claimed[c] = bids[i].amount ELSE pot[c] = bids[i].amount
      BY <2>1 DEF AuctionInv, ListedOpen
    <3>2. c \in Bidders /\ bids[i].amount \in Nat
      BY <1>8
    <3> HIDE DEF c
    <3>3. CASE c = b
      <4>1. emptied[b] => pot[b] = 0
        BY DEF AuctionInv, PotsHold
      <4>2. ~emptied[b] => claimed[b] = 0
        BY DEF AuctionInv, PotsHold
      <4>3. claimed'[c] = bids[i].amount /\ emptied'[c]
        BY <3>1, <3>2, <3>3, <4>1, <4>2, <1>2, <1>3
      <4>4. QED
        BY <3>1, <4>3 DEF c
    <3>4. CASE c # b
      <4>1. pot'[c] = pot[c] /\ claimed'[c] = claimed[c] /\ emptied'[c] = emptied[c]
        BY <3>2, <3>4, <1>3
      <4>2. QED
        BY <3>1, <4>1 DEF c
    <3>5. QED
      BY <3>3, <3>4
  <2>2. QED
    BY <2>1, <1>1 DEF ListedOpen
<1>10. ListOrdered'
  BY <1>1 DEF AuctionInv, ListOrdered
<1>11. ClaimsFromWinners'
  <2>1. Ended(now)' /\ \A c \in Bidders : IsWinner(c)' <=> IsWinner(c)
    BY <1>1 DEF Ended, IsWinner, WinsAbove, Minimum
  <2>2. claimed'[b] <= meta[b].lastBid
    <3>1. meta[b].lastBid \in Nat
      BY <1>2 DEF Metadata
    <3>2. CASE emptied[b]
      BY <3>2, <1>2, <1>3, <3>1 DEF AuctionInv, PotsHold, ClaimsFromWinners
    <3>3. CASE ~emptied[b]
      BY <3>3, <1>2, <1>3, <3>1 DEF AuctionInv, PotsHold
    <3>4. QED
      BY <3>2, <3>3
  <2>3. ASSUME NEW c \in Bidders, emptied'[c] \/ claimed'[c] > 0
        PROVE  Ended(now)' /\ IsWinner(c)' /\ claimed'[c] <= meta[c].lastBid
    <3>1. CASE c = b
      BY <3>1, <2>1, <2>2, <1>1
    <3>2. CASE c # b
      BY <3>2, <2>1, <2>3, <1>3 DEF AuctionInv, ClaimsFromWinners
    <3>3. QED
      BY <3>1, <3>2
  <2>4. QED
    BY <2>3, <1>1 DEF ClaimsFromWinners
<1>12. QED
  BY <1>5, <1>6, <1>7, <1>9, <1>10, <1>11 DEF AuctionInv

(* A bidder who had no bid open is not in the list before. *)
LEMMA PlaceStep ==
  ASSUME AuctionInv, NEW b \in Bidders, NEW amount \in Amounts, PlaceBid(b, amount)
  PROVE  AuctionInv'
<1> DEFINE bid == [bidder |-> b, amount |-> amount]
           record == [exists |-> TRUE, cancelled |-> FALSE, lastBid |-> amount, at |-> now]
<1>1. /\ auction.state = "Started" /\ ~Ended(now)
      /\ meta[b].exists => meta[b].cancelled
      /\ pot' = [pot EXCEPT ![b] = @ + amount]
      /\ auction' = [auction EXCEPT !.lastBid = now, !.bids = BidsWith(bid)]
      /\ meta' = [meta EXCEPT ![b] = record]
      /\ UNCHANGED <<now, emptied, claimed>>
  BY DEF PlaceBid, BiddingOpen
<1>2. /\ now \in Nat /\ auction \in AuctionData /\ meta \in [Bidders -> Metadata]
      /\ pot \in [Bidders -> Nat] /\ amount \in Nat
  BY AuctionAssumption DEF AuctionInv, Types
<1>3. bids \in Seq(Bid) /\ bid \in Bid
  BY <1>2 DEF AuctionData, Bid, bids
<1>4. pot[b] = 0 /\ \A c \in Bidders : ~emptied[c] /\ ~(claimed[c] > 0)
  BY <1>1 DEF AuctionInv, PotsHold, ClaimsFromWinners
<1>5. \A i \in DOMAIN bids : bids[i].bidder # b
  BY <1>1 DEF AuctionInv, ListedOpen
<1>6. /\ BidsWith(bid) \in Seq(Bid)
      /\ auction.open => BidsWith(bid) = bids
  <2>1. CASE auction.open
    BY <2>1, <1>3 DEF BidsWith
  <2>2. CASE ~auction.open
    <3>1. \A i, j \in DOMAIN bids : i < j => bids[i].amount <= bids[j].amount
      BY DEF AuctionInv, ListOrdered
    <3>2. PICK k \in 1..(Len(bids) + 1), cut \in {0, 1} : Placed(BidsWith(bid), bid, k, cut)
      <4> HIDE DEF bid
      <4>1. QED
        BY <3>1, <2>2, <1>2, <1>3, PlacedList
    <3>3. QED
      BY <3>2, <2>2 DEF Placed
  <2>3. QED
    BY <2>1, <2>2
<1>7. /\ auction' \in AuctionData /\ bids' = BidsWith(bid)
      /\ auction'.state = "Started" /\ auction'.open = auction.open
  BY <1>1, <1>2, <1>6 DEF AuctionData, Optional, bids
<1>8. record \in Metadata /\ meta' \in [Bidders -> Metadata] /\ pot' \in [Bidders -> Nat]
  <2>1. record \in Metadata
    BY <1>2 DEF Metadata
  <2>2. QED
    BY <2>1, <1>1, <1>2, <1>4
<1>9. /\ meta'[b] = record /\ pot'[b] = amount
      /\ \A c \in Bidders \ {b} : meta'[c] = meta[c] /\ pot'[c] = pot[c]
  BY <1>1, <1>2, <1>4
<1>10. Types'
  BY <1>1, <1>7, <1>8 DEF AuctionInv, Types
<1>11. NothingBefore'
  BY <1>6, <1>7 DEF AuctionInv, NothingBefore
<1>12. PotsHold'
  <2>1. ASSUME NEW c \in Bidders
        PROVE  /\ meta'[c].at <= now
               /\ pot'[c] # 0 => meta'[c].exists /\ ~meta'[c].cancelled /\ pot'[c] = meta'[c].lastBid
               /\ emptied[c] => pot'[c] = 0
               /\ ~emptied[c] => claimed[c] = 0
    <3>1. CASE c = b
      BY <3>1, <1>2, <1>4, <1>9 DEF AuctionInv, PotsHold
    <3>2. CASE c # b
      BY <3>2, <1>9 DEF AuctionInv, PotsHold
    <3>3. QED
      BY <3>1, <3>2
  <2>2. QED
    BY <2>1, <1>1 DEF PotsHold
<1>13. ListOrdered' /\ ListedOpen'
  <2>1. CASE auction.open
    <3>1. bids' = <<>>
      BY <2>1, <1>6, <1>7 DEF AuctionInv, NothingBefore
    <3>2. DOMAIN bids' = {}
      BY <3>1
    <3>3. QED
      BY <3>2 DEF ListOrdered, ListedOpen
  <2>2. CASE ~auction.open
    <3>1. /\ ListOrdered'
          /\ \A i \in DOMAIN bids' : bids'[i] = bid \/ \E j \in DOMAIN bids : bids'[i] = bids[j]
      BY <2>2, <1>1, <1>2, <1>5, <1>6, <1>7, PlacedInOrder
    <3>2. ASSUME NEW i \in DOMAIN bids'
          PROVE  /\ meta'[bids'[i].bidder].exists /\ ~meta'[bids'[i].bidder].cancelled
                 /\ meta'[bids'[i].bidder].lastBid = bids'[i].amount
                 /\ IF emptied[bids'[i].bidder] THEN claimed[bids'[i].bidder] = bids'[i].amount
                    ELSE pot'[bids'[i].bidder] = bids'[i].amount
      <4>1. CASE bids'[i] = bid
        BY <4>1, <1>4, <1>9
      <4>2. ASSUME NEW j \in DOMAIN bids, bids'[i] = bids[j]
            PROVE  /\ meta'[bids'[i].bidder].exists /\ ~meta'[bids'[i].bidder].cancelled
                   /\ meta'[bids'[i].bidder].lastBid = bids'[i].amount
                   /\ IF emptied[bids'[i].bidder] THEN claimed[bids'[i].bidder] = bids'[i].amount
                      ELSE pot'[bids'[i].bidder] = bids'[i].amount
        <5>1. bids[j].bidder \in Bidders \ {b}
          BY <1>5, Listing
        <5>2. /\ meta[bids[j].bidder].exists /\ ~meta[bids[j].bidder].cancelled
              /\ meta[bids[j].bidder].lastBid = bids[j].amount
              /\ IF emptied[bids[j].bidder] THEN claimed[bids[j].bidder] = bids[j].amount
                 ELSE pot[bids[j].bidder] = bids[j].amount
          BY <1>1 DEF AuctionInv, ListedOpen
        <5>3. QED
          BY <4>2, <5>1, <5>2, <1>9
      <4>3. QED
        BY <3>1, <4>1, <4>2
    <3>3. QED
      BY <3>1, <3>2, <1>1 DEF ListedOpen
  <2>3. QED
    BY <2>1, <2>2
<1>14. ClaimsFromWinners'
  BY <1>1, <1>4 DEF ClaimsFromWinners
<1>15. QED
  BY <1>10, <1>11, <1>12, <1>13, <1>14 DEF AuctionInv

(* A bidder who cancels leaves the list, or it is too late for that. *)
LEMMA CancelStep ==
  ASSUME AuctionInv, NEW b \in Bidders, CancelBid(b)
  PROVE  AuctionInv'
<1>1. /\ meta[b].exists /\ ~(Ended(now) /\ IsWinner(b))
      /\ pot' = [pot EXCEPT ![b] = 0]
      /\ meta' = [meta EXCEPT ![b].cancelled = TRUE]
      /\ UNCHANGED <<now, emptied, claimed>>
      /\ IF auction.state = "Ended" THEN auction' = auction
         ELSE auction' = [auction EXCEPT !.bids = BidsWithout(b)]
  BY DEF CancelBid, MayCancel
<1>2. /\ now \in Nat /\ auction \in AuctionData /\ meta \in [Bidders -> Metadata]
      /\ pot \in [Bidders -> Nat] /\ auction.state \in AuctionStates
  BY DEF AuctionInv, Types, AuctionData
<1>3. bids \in Seq(Bid) /\ DOMAIN bids = 1..Len(bids) /\ Len(bids) \in Nat
  BY <1>2 DEF AuctionData, bids
<1>4. /\ pot'[b] = 0 /\ meta'[b] = [meta[b] EXCEPT !.cancelled = TRUE]
      /\ \A c \in Bidders \ {b} : meta'[c] = meta[c] /\ pot'[c] = pot[c]
  BY <1>1, <1>2
<1>5. /\ meta'[b] \in Metadata
      /\ \A c \in Bidders : meta'[c].at = meta[c].at /\ meta'[c].lastBid = meta[c].lastBid
                           /\ meta'[c].exists = meta[c].exists
  <2>1. meta[b] \in Metadata
    BY <1>2
  <2>2. /\ meta'[b] \in Metadata /\ meta'[b].at = meta[b].at
        /\ meta'[b].lastBid = meta[b].lastBid /\ meta'[b].exists = meta[b].exists
    BY <2>1, <1>4 DEF Metadata
  <2>3. QED
    BY <2>2, <1>4
<1>6. /\ auction' \in AuctionData /\ auction'.state = auction.state
      /\ auction'.open = auction.open /\ auction'.max = auction.max
      /\ auction'.endedAt = auction.endedAt
      /\ bids' = IF auction.state = "Ended" THEN bids ELSE BidsWithout(b)
      /\ Ended(now)' <=> Ended(now)
  <2>1. BidsWithout(b) \in Seq(Bid)
    BY CancelledList
  <2>2. CASE auction.state = "Ended"
    BY <2>2, <1>1, <1>2 DEF Ended, bids
  <2>3. CASE auction.state # "Ended"
    BY ZenonT(40), <2>1, <2>3, <1>1, <1>2 DEF Ended, AuctionData, bids
  <2>4. QED
    BY <2>2, <2>3
<1>7. Types'
  <2>1. meta' \in [Bidders -> Metadata] /\ pot' \in [Bidders -> Nat]
    BY <1>1, <1>2, <1>4, <1>5
  <2>2. QED
    BY <2>1, <1>1, <1>6 DEF AuctionInv, Types
<1>8. \A i \in DOMAIN bids : bids[i].bidder \in Bidders
  BY Listing
<1>9. \/ bids' = bids
      \/ \E j \in DOMAIN bids : bids[j].bidder = b /\ Removed(bids', bids, j)
  BY <1>6, CancelledList
<1>10. ASSUME NEW j \in DOMAIN bids, bids[j].bidder = b, Removed(bids', bids, j)
       PROVE  /\ \A i, k \in DOMAIN bids' : i < k => \E u, v \in DOMAIN bids :
                   u < v /\ bids'[i] = bids[u] /\ bids'[k] = bids[v]
              /\ \A i \in DOMAIN bids' : \E u \in DOMAIN bids :
                   bids'[i] = bids[u] /\ bids[u].bidder # b
  <2>1. bids' \in Seq(Bid)
    BY <1>6 DEF AuctionData, bids
  <2>2. /\ DOMAIN bids' = 1..(Len(bids) - 1)
        /\ \A i \in 1..(Len(bids) - 1) : bids'[i] = IF i < j THEN bids[i] ELSE bids[i + 1]
    BY <2>1, <1>3, <1>10 DEF Removed
  <2> DEFINE h(i) == IF i < j THEN i ELSE i + 1
  <2>3. \A i \in DOMAIN bids' : /\ h(i) \in DOMAIN bids /\ bids'[i] = bids[h(i)]
                               /\ h(i) # j
    BY <2>2, <1>3
  <2>4. \A i, k \in DOMAIN bids' : i < k => h(i) < h(k)
    BY <2>2, <1>3
  <2>5. \A u \in DOMAIN bids : u # j => bids[u].bidder # b
    BY <1>3, <1>10 DEF AuctionInv, ListOrdered
  <2> HIDE DEF h
  <2>6. QED
    BY <2>3, <2>4, <2>5
<1>11. \A i, k \in DOMAIN bids' : i < k => \E u, v \in DOMAIN bids :
          u < v /\ bids'[i] = bids[u] /\ bids'[k] = bids[v]
  BY <1>9, <1>10
<1>12. \A i \in DOMAIN bids' : \E u \in DOMAIN bids :
          bids'[i] = bids[u] /\ (auction.state # "Ended" => bids[u].bidder # b)
  <2>1. CASE auction.state = "Ended"
    BY <2>1, <1>6
  <2>2. CASE \A i \in DOMAIN bids : bids[i].bidder # b
    BY <2>2, <1>6, CancelledList
  <2>3. ASSUME auction.state # "Ended", NEW j \in DOMAIN bids, bids[j].bidder = b
        PROVE  \A i \in DOMAIN bids' : \E u \in DOMAIN bids : bids'[i] = bids[u] /\ bids[u].bidder # b
    <3>1. Removed(bids', bids, j)
      BY <2>3, <1>6, CancelledList
    <3>2. QED
      BY <3>1, <2>3, <1>10
  <2>4. QED
    BY <2>1, <2>2, <2>3
<1>13. ListOrdered'
  <2>1. ASSUME NEW i \in DOMAIN bids', NEW k \in DOMAIN bids', i < k
        PROVE  /\ bids'[i].bidder # bids'[k].bidder /\ bids'[i].amount <= bids'[k].amount
               /\ bids'[i].amount = bids'[k].amount =>
                    meta'[bids'[k].bidder].at <= meta'[bids'[i].bidder].at
    <3>1. PICK u \in DOMAIN bids, v \in DOMAIN bids :
             u < v /\ bids'[i] = bids[u] /\ bids'[k] = bids[v]
      BY <2>1, <1>11
    <3>2. /\ bids[u].bidder # bids[v].bidder /\ bids[u].amount <= bids[v].amount
          /\ bids[u].amount = bids[v].amount =>
               meta[bids[v].bidder].at <= meta[bids[u].bidder].at
      BY <3>1 DEF AuctionInv, ListOrdered
    <3>3. QED
      BY <3>1, <3>2, <1>5, <1>8
  <2>2. QED
    BY <2>1 DEF ListOrdered
<1>14. ListedOpen'
  <2>1. ASSUME auction.state = "Started", NEW i \in DOMAIN bids'
        PROVE  /\ meta'[bids'[i].bidder].exists /\ ~meta'[bids'[i].bidder].cancelled
               /\ meta'[bids'[i].bidder].lastBid = bids'[i].amount
               /\ IF emptied[bids'[i].bidder] THEN claimed[bids'[i].bidder] = bids'[i].amount
                  ELSE pot'[bids'[i].bidder] = bids'[i].amount
    <3>1. PICK u \in DOMAIN bids : bids'[i] = bids[u] /\ bids[u].bidder # b
      BY <2>1, <1>12
    <3>2. /\ meta[bids[u].bidder].exists /\ ~meta[bids[u].bidder].cancelled
          /\ meta[bids[u].bidder].lastBid = bids[u].amount
          /\ IF emptied[bids[u].bidder] THEN claimed[bids[u].bidder] = bids[u].amount
             ELSE pot[bids[u].bidder] = bids[u].amount
      BY <2>1 DEF AuctionInv, ListedOpen
    <3>3. QED
      BY <3>1, <3>2, <1>4, <1>8
  <2>2. QED
    BY <2>1, <1>1, <1>6 DEF ListedOpen
<1>15. NothingBefore'
  <2>1. auction.state \notin {"Absent", "Created"}
    BY <1>1 DEF AuctionInv, NothingBefore
  <2>2. auction.open => bids' = <<>>
    BY <1>6 DEF AuctionInv, NothingBefore, BidsWithout
  <2>3. QED
    BY <2>1, <2>2, <1>6 DEF NothingBefore
<1>16. PotsHold'
  <2>1. ASSUME NEW c \in Bidders
        PROVE  /\ meta'[c].at <= now
               /\ pot'[c] # 0 => meta'[c].exists /\ ~meta'[c].cancelled /\ pot'[c] = meta'[c].lastBid
               /\ emptied[c] => pot'[c] = 0
               /\ ~emptied[c] => claimed[c] = 0
    <3>1. CASE c = b
      BY <3>1, <1>4, <1>5 DEF AuctionInv, PotsHold
    <3>2. CASE c # b
      BY <3>2, <1>4 DEF AuctionInv, PotsHold
    <3>3. QED
      BY <3>1, <3>2
  <2>2. QED
    BY <2>1, <1>1 DEF PotsHold
<1>17. ClaimsFromWinners'
  <2>1. ASSUME NEW c \in Bidders, emptied[c] \/ claimed[c] > 0
        PROVE  Ended(now)' /\ IsWinner(c)' /\ claimed[c] <= meta'[c].lastBid
    <3>1. Ended(now) /\ IsWinner(c) /\ claimed[c] <= meta[c].lastBid
      BY <2>1 DEF AuctionInv, ClaimsFromWinners
    <3>2. IsWinner(c)'
      BY <3>1, CancelKeepsWinners
    <3>3. QED
      BY <3>1, <3>2, <1>5, <1>6
  <2>2. QED
    BY <2>1, <1>1 DEF ClaimsFromWinners
<1>18. QED
  BY <1>7, <1>13, <1>14, <1>15, <1>16, <1>17 DEF AuctionInv

(* The instructions that leave the list and the bidders alone.             *)
LEMMA OtherStep ==
  ASSUME AuctionInv,
         \/ \E a \in Authorities : \/ StartAuction(a)
                                  \/ EndAuction(a)
                                  \/ \E v \in Authorities : SetAuthority(a, v)
         \/ LateBid
         \/ Tick
         \/ UNCHANGED vars
  PROVE  /\ AuctionInv' /\ bids' = bids
         /\ Ended(now) => /\ Ended(now)' /\ Minimum' = Minimum
                          /\ auction'.open = auction.open /\ auction'.max = auction.max
<1> DEFINE Goal == /\ AuctionInv' /\ bids' = bids
                   /\ Ended(now) => /\ Ended(now)' /\ Minimum' = Minimum
                        /\ auction'.open = auction.open /\ auction'.max = auction.max
<1>1. /\ now \in Nat /\ auction \in AuctionData /\ auction.state \in AuctionStates
      /\ auction.endedAt \in Optional(Nat) /\ auction.endAt \in Optional(Nat)
      /\ auction.floor \in [kind : FloorKinds, price : Nat]
      /\ auction.state = "Created" => auction.endedAt = None
  BY DEF AuctionInv, Types, AuctionData, NothingBefore
<1>2. ASSUME auction' \in AuctionData, now' \in Nat, now' >= now, bids' = bids,
             auction'.open = auction.open, auction'.max = auction.max,
             UNCHANGED <<meta, pot, emptied, claimed>>,
             auction'.state \in {"Absent", "Created"} =>
                auction.state \in {"Absent", "Created"} /\ auction'.endedAt = auction.endedAt,
             auction'.state = "Started" => auction.state \in {"Created", "Started"},
             Ended(now) => Ended(now)' /\ Minimum' = Minimum
      PROVE  Goal
  <2>1. Types'
    BY <1>2 DEF AuctionInv, Types
  <2>2. QED
    BY <2>1, <1>2, QuietStep
<1>3. ASSUME NEW a \in Authorities, StartAuction(a) PROVE Goal
  <2>1. /\ auction.state = "Created" /\ UNCHANGED <<now, meta, pot, emptied, claimed>>
        /\ auction' = [auction EXCEPT !.state = "Started",
               !.endedAt = IF auction.endAt = None THEN None ELSE now + auction.endAt]
    BY <1>3 DEF StartAuction
  <2>2. (IF auction.endAt = None THEN None ELSE now + auction.endAt) \in Optional(Nat)
    BY <1>1 DEF Optional
  <2>3. /\ auction' \in AuctionData /\ auction'.state = "Started" /\ bids' = bids
        /\ auction'.open = auction.open /\ auction'.max = auction.max
    BY ZenonT(40), <2>1, <2>2, <1>1 DEF AuctionData, AuctionStates, bids
  <2>4. ~Ended(now)
    BY <2>1, <1>1 DEF Ended
  <2>5. QED
    BY <2>1, <2>3, <2>4, <1>1, <1>2
<1>4. ASSUME NEW a \in Authorities, EndAuction(a) PROVE Goal
  <2>1. /\ auction.state \in {"Created", "Started"} /\ auction.endedAt = None
        /\ UNCHANGED <<now, meta, pot, emptied, claimed>>
        /\ auction' = [auction EXCEPT !.state = "Ended", !.endedAt = now,
                                      !.floor = Revealed(auction.floor)]
    BY <1>4 DEF EndAuction
  <2>2. Revealed(auction.floor) \in [kind : FloorKinds, price : Nat] /\ now \in Optional(Nat)
    BY <1>1 DEF Revealed, FloorKinds, Optional
  <2>3. /\ auction' \in AuctionData /\ auction'.state = "Ended" /\ bids' = bids
        /\ auction'.open = auction.open /\ auction'.max = auction.max
    BY <2>1, <2>2, <1>1 DEF AuctionData, AuctionStates, bids
  <2>4. ~Ended(now)
    BY <2>1 DEF Ended
  <2>5. QED
    BY <2>1, <2>3, <2>4, <1>1, <1>2
<1>5. ASSUME NEW a \in Authorities, NEW v \in Authorities, SetAuthority(a, v) PROVE Goal
  <2>1. /\ auction' = [auction EXCEPT !.authority = v]
        /\ UNCHANGED <<now, meta, pot, emptied, claimed>>
    BY <1>5 DEF SetAuthority
  <2>2. /\ auction' \in AuctionData /\ auction'.state = auction.state /\ bids' = bids
        /\ auction'.open = auction.open /\ auction'.max = auction.max
        /\ auction'.endedAt = auction.endedAt
    BY ZenonT(40), <2>1, <1>1 DEF AuctionData, Optional, bids
  <2>3. Ended(now) => Ended(now)' /\ Minimum' = Minimum
    BY <2>1, <1>1 DEF Ended, Minimum, AuctionData
  <2>4. QED
    BY <2>1, <2>2, <2>3, <1>1, <1>2
<1>6. ASSUME LateBid PROVE Goal
  <2>1. /\ auction' = [auction EXCEPT !.state = "Ended"]
        /\ UNCHANGED <<now, meta, pot, emptied, claimed>>
    BY <1>6 DEF LateBid
  <2>2. /\ auction' \in AuctionData /\ auction'.state = "Ended" /\ bids' = bids
        /\ auction'.open = auction.open /\ auction'.max = auction.max
    BY <2>1, <1>1 DEF AuctionData, AuctionStates, bids
  <2>3. Ended(now) => Ended(now)' /\ Minimum' = Minimum
    BY <2>1, <1>1 DEF Ended, Minimum, AuctionData
  <2>4. QED
    BY <2>1, <2>2, <2>3, <1>1, <1>2
<1>7. ASSUME Tick PROVE Goal
  <2>1. /\ now' = now + 1 /\ auction' = auction /\ bids' = bids
        /\ UNCHANGED <<meta, pot, emptied, claimed>>
    BY <1>7 DEF Tick, bids
  <2>2. Ended(now) => Ended(now)' /\ Minimum' = Minimum
    <3>1. auction.lastBid \in Optional(Nat) /\ auction.gap \in Optional(Nat)
      BY <1>1 DEF AuctionData
    <3>2. QED
      BY <2>1, <3>1, <1>1 DEF Ended, Minimum, Optional, None
  <2>3. QED
    BY <2>1, <2>2, <1>1, <1>2
<1>8. ASSUME UNCHANGED vars PROVE Goal
  <2>1. UNCHANGED <<now, auction, meta, pot, emptied, claimed>> /\ bids' = bids
    BY <1>8 DEF vars, bids
  <2>2. Ended(now) => Ended(now)' /\ Minimum' = Minimum
    BY <2>1 DEF Ended, Minimum
  <2>3. QED
    BY <2>1, <2>2, <1>1, <1>2
<1> HIDE DEF Goal
<1>9. Goal
  BY <1>3, <1>4, <1>5, <1>6, <1>7, <1>8
<1>10. QED
  BY <1>9 DEF Goal

(* Every instruction keeps the invariant.                                  *)
LEMMA AuctionInvStep == AuctionInv /\ [Next]_vars => AuctionInv'
<1> SUFFICES ASSUME AuctionInv, [Next]_vars PROVE AuctionInv'
  OBVIOUS
<1>1. ASSUME NEW a \in Authorities, NEW args \in AuctionArgs, CreateAuction(a, args)
      PROVE  AuctionInv'
  BY <1>1, CreateStep
<1>2. ASSUME NEW a \in Authorities, NEW b \in Bidders, ClaimBid(a, b) PROVE AuctionInv'
  BY <1>2, ClaimStep
<1>3. ASSUME NEW b \in Bidders, NEW amount \in Amounts, PlaceBid(b, amount) PROVE AuctionInv'
  BY <1>3, PlaceStep
<1>4. ASSUME NEW b \in Bidders, CancelBid(b) PROVE AuctionInv'
  BY <1>4, CancelStep
<1>5. QED
  BY <1>1, <1>2, <1>3, <1>4, OtherStep DEF Next

(* The list of bids stays sorted, the earlier of two equal bids on top,    *)
(* and no bidder is in it twice, for any number of bidders, any room and   *)
(* any order of bids, cancellations and the end.                           *)
THEOREM KeepsOrder == Spec => []ListOrdered
<1>1. AuctionInv => ListOrdered
  BY DEF AuctionInv
<1>2. QED
  BY <1>1, AuctionInvInit, AuctionInvStep, PTL DEF Spec

(* While the auction runs, the money of every listed bid is in its pot or  *)
(* was collected by the authority.                                         *)
THEOREM BidsAreBacked == Spec => []ListedBidsBacked
<1>1. AuctionInv => ListedBidsBacked
  BY DEF AuctionInv, ListedOpen, ListedBidsBacked
<1>2. QED
  BY <1>1, AuctionInvInit, AuctionInvStep, PTL DEF Spec

(* The authority is paid by winners only, after the end, and by each at    *)
(* most the bid it won with.                                               *)
THEOREM WinnersPayOnce == Spec => []ClaimsFromWinners
<1>1. AuctionInv => ClaimsFromWinners
  BY DEF AuctionInv
<1>2. QED
  BY <1>1, AuctionInvInit, AuctionInvStep, PTL DEF Spec

(* After the end nobody becomes or ceases to be a winner.                  *)
THEOREM WinnersAreFinal == Spec => WinnersFinal
<1>1. AuctionInv /\ [Next]_vars => [Ended(now) => Winners' = Winners]_vars
  <2> SUFFICES ASSUME AuctionInv, Next, Ended(now) PROVE Winners' = Winners
    BY DEF Winners, IsWinner, WinsAbove, Minimum, bids, vars
  <2>1. ASSUME \A c \in Bidders : IsWinner(c)' <=> IsWinner(c) PROVE Winners' = Winners
    BY <2>1 DEF Winners
  <2>2. ASSUME Minimum' = Minimum, bids' = bids, auction'.open = auction.open,
               auction'.max = auction.max
        PROVE  Winners' = Winners
    BY <2>1, <2>2 DEF IsWinner, WinsAbove
  <2>3. ASSUME NEW a \in Authorities, NEW args \in AuctionArgs, CreateAuction(a, args)
        PROVE  FALSE
    BY <2>3 DEF CreateAuction, AuctionInv, NothingBefore, Ended
  <2>4. ASSUME NEW a \in Authorities, NEW b \in Bidders, ClaimBid(a, b) PROVE Winners' = Winners
    BY <2>2, <2>4 DEF ClaimBid, Minimum, bids
  <2>5. ASSUME NEW b \in Bidders, NEW amount \in Amounts, PlaceBid(b, amount) PROVE FALSE
    BY <2>5 DEF PlaceBid, BiddingOpen
  <2>6. ASSUME NEW b \in Bidders, CancelBid(b) PROVE Winners' = Winners
    BY <2>1, <2>6, CancelKeepsWinners
  <2>7. ASSUME \/ \E a \in Authorities : \/ StartAuction(a)
                                        \/ EndAuction(a)
                                        \/ \E v \in Authorities : SetAuthority(a, v)
               \/ LateBid
               \/ Tick
        PROVE  Winners' = Winners
    BY <2>2, <2>7, OtherStep
  <2>8. QED
    BY <2>3, <2>4, <2>5, <2>6, <2>7 DEF Next
<1>2. QED
  BY <1>1, AuctionInvInit, AuctionInvStep, PTL DEF Spec, WinnersFinal

(* A bid leaves the list when it is cancelled, or pruned when as many bids *)
(* at least as good stay in the list as there are winners.                 *)
THEOREM WinnersAreSpared == Spec => PruneSparesWinners
<1> DEFINE Listed(b) == \E i \in DOMAIN bids : bids[i].bidder = b
           Spared(b) == Listed(b) /\ ~Listed(b)' =>
                          \/ meta'[b].cancelled
                          \/ Cardinality(AsGoodBids(b)') >= auction.max
<1>1. ASSUME AuctionInv, NEW c \in Bidders, NEW amount \in Amounts, PlaceBid(c, amount),
             NEW b \in Bidders, Listed(b), ~Listed(b)'
      PROVE  Cardinality(AsGoodBids(b)') >= auction.max
  <2> DEFINE bid == [bidder |-> c, amount |-> amount]
             n == Len(bids)
  <2>1. /\ auction.state = "Started" /\ (meta[c].exists => meta[c].cancelled)
        /\ auction' = [auction EXCEPT !.lastBid = now, !.bids = BidsWith(bid)]
        /\ meta' = [meta EXCEPT ![c] = [exists |-> TRUE, cancelled |-> FALSE,
                                        lastBid |-> amount, at |-> now]]
    BY <1>1 DEF PlaceBid, BiddingOpen
  <2>2. /\ auction \in AuctionData /\ n \in Nat /\ DOMAIN bids = 1..n /\ amount \in Nat
        /\ \A i \in 1..n : bids[i].bidder \in Bidders /\ bids[i].amount \in Nat
        /\ meta \in [Bidders -> Metadata] /\ bid \in Bid
    BY <1>1, Listing, AuctionAssumption DEF AuctionInv, Types, Bid
  <2>3. bids' = BidsWith(bid)
    BY <2>1, <2>2 DEF AuctionData, bids
  <2>4. PICK u \in 1..n : bids[u].bidder = b
    BY <1>1, <2>2
  <2>5. b # c /\ meta'[b] = meta[b] /\ meta[b].lastBid = bids[u].amount
    BY <1>1, <2>1, <2>2, <2>4 DEF AuctionInv, ListedOpen
  <2>6. ~auction.open
    BY <1>1, <2>3 DEF BidsWith
  <2>7. \A i, j \in DOMAIN bids : i < j => bids[i].amount <= bids[j].amount
    BY <1>1 DEF AuctionInv, ListOrdered
  <2>8. PICK k \in 1..(n + 1), cut \in {0, 1} : Placed(bids', bid, k, cut)
    <3> HIDE DEF bid
    <3>1. QED
      BY <2>2, <2>3, <2>6, <2>7, PlacedList
  <2>9. /\ \A i \in 1..n : bids[i].amount < amount <=> i < k
        /\ cut = 1 <=> n + 1 > ArraySize
        /\ Len(bids') = n + 1 - cut /\ DOMAIN bids' = 1..Len(bids')
        /\ \A i \in 1..Len(bids') :
             bids'[i] = IF i + cut < k THEN bids[i + cut]
                        ELSE IF i + cut = k THEN bid ELSE bids[i + cut - 1]
    BY <2>2, <2>8 DEF Placed
  <2> HIDE DEF n
  <2>10. \A i \in 1..Len(bids') : bids'[i].bidder # b
    BY <1>1, <2>9
  <2>11. cut = 1 /\ u = 1 /\ 1 < k
    <3> DEFINE x == IF u < k THEN u ELSE u + 1
    <3>1. x \in 1..(n + 1) /\ x # k /\ bids[u] = IF x < k THEN bids[x] ELSE bids[x - 1]
      BY <2>2, <2>4
    <3>2. CASE x > cut
      <4>1. x - cut \in 1..Len(bids')
        BY <3>1, <3>2, <2>2, <2>8, <2>9
      <4>2. bids'[x - cut] = bids[u]
        BY <3>1, <4>1, <2>2, <2>8, <2>9
      <4>3. QED
        BY <4>1, <4>2, <2>4, <2>10
    <3>3. CASE ~(x > cut)
      BY <3>1, <3>3, <2>2, <2>4, <2>8
    <3>4. QED
      BY <3>2, <3>3
  <2>12. \A i \in 1..Len(bids') : bids'[i].amount >= bids[1].amount
    <3>1. \A j \in 1..n : bids[j].amount >= bids[1].amount
      BY <2>2, <2>7, <2>11
    <3>2. bid.amount >= bids[1].amount
      BY <2>2, <2>9, <2>11
    <3>3. ASSUME NEW i \in 1..Len(bids') PROVE bids'[i] = bid \/ \E j \in 1..n : bids'[i] = bids[j]
      <4>1. /\ i + 1 \in 1..(n + 1)
            /\ bids'[i] = IF i + 1 < k THEN bids[i + 1]
                          ELSE IF i + 1 = k THEN bid ELSE bids[i + 1 - 1]
        BY <2>2, <2>9, <2>11
      <4>2. CASE i + 1 < k
        BY <4>1, <4>2, <2>2
      <4>3. CASE i + 1 > k
        <5>1. bids'[i] = bids[i] /\ i \in 1..n
          BY <4>1, <4>3, <2>2
        <5>2. QED
          BY <5>1
      <4>4. QED
        BY <4>1, <4>2, <4>3
    <3> HIDE DEF bid
    <3>4. QED
      BY <3>1, <3>2, <3>3
  <2>13. AsGoodBids(b)' = 1..Len(bids')
    BY <2>5, <2>9, <2>10, <2>11, <2>12 DEF AsGoodBids
  <2>14. Cardinality(AsGoodBids(b)') = n
    <3>1. Len(bids') = n /\ n \in Nat
      BY <2>2, <2>9, <2>11
    <3>2. Cardinality(1..n) = IF 1 > n THEN 0 ELSE n - 1 + 1
      BY <3>1, FS_Interval
    <3>3. QED
      BY <3>1, <3>2, <2>13
  <2>15. n >= auction.max
    BY <2>2, <2>9, <2>11, AuctionAssumption DEF ArraySize, AuctionData
  <2>16. QED
    BY <2>14, <2>15
<1>2. ASSUME AuctionInv, NEW c \in Bidders, CancelBid(c),
             NEW b \in Bidders, Listed(b), ~Listed(b)'
      PROVE  meta'[b].cancelled
  <2>1. SUFFICES ASSUME b # c PROVE FALSE
    BY <1>2 DEF CancelBid, AuctionInv, Types, Metadata
  <2>2. /\ auction \in AuctionData /\ Len(bids) \in Nat /\ DOMAIN bids = 1..Len(bids)
    BY <1>2, Listing
  <2>3. bids' = bids \/ bids' = BidsWithout(c)
    BY <1>2, <2>2 DEF CancelBid, AuctionData, bids
  <2>4. PICK u \in DOMAIN bids : bids[u].bidder = b
    BY <1>2
  <2>5. PICK j \in DOMAIN bids : bids[j].bidder = c /\ bids' \in Seq(Bid) /\ Removed(bids', bids, j)
    BY <1>2, <2>3, CancelledList
  <2>6. /\ DOMAIN bids' = 1..(Len(bids) - 1)
        /\ \A i \in 1..(Len(bids) - 1) : bids'[i] = IF i < j THEN bids[i] ELSE bids[i + 1]
    BY <2>2, <2>5 DEF Removed
  <2>7. u # j
    BY <2>1, <2>4, <2>5
  <2>8. CASE u < j
    <3>1. u \in DOMAIN bids' /\ bids'[u] = bids[u]
      BY <2>2, <2>6, <2>8
    <3>2. QED
      BY <3>1, <2>4, <1>2
  <2>9. CASE u > j
    <3>1. u - 1 \in DOMAIN bids' /\ bids'[u - 1] = bids[u]
      BY <2>2, <2>6, <2>9
    <3>2. QED
      BY <3>1, <2>4, <1>2
  <2>10. QED
    BY <2>2, <2>7, <2>8, <2>9
<1>3. ASSUME AuctionInv, [Next]_vars PROVE bids' = bids \/ \A b \in Bidders : Spared(b)
  <2>1. ASSUME NEW a \in Authorities, NEW args \in AuctionArgs, CreateAuction(a, args)
        PROVE  bids' = bids
    BY <1>3, <2>1 DEF CreateAuction, AuctionInv, NothingBefore, bids
  <2>2. ASSUME NEW a \in Authorities, NEW b \in Bidders, ClaimBid(a, b) PROVE bids' = bids
    BY <2>2 DEF ClaimBid, bids
  <2>3. ASSUME NEW c \in Bidders, NEW amount \in Amounts, PlaceBid(c, amount)
        PROVE  \A b \in Bidders : Spared(b)
    BY <1>1, <1>3, <2>3
  <2>4. ASSUME NEW c \in Bidders, CancelBid(c) PROVE \A b \in Bidders : Spared(b)
    BY <1>2, <1>3, <2>4
  <2> HIDE DEF Spared
  <2>5. QED
    BY <1>3, <2>1, <2>2, <2>3, <2>4, OtherStep DEF Next
<1>4. AuctionInv /\ [Next]_vars =>
        [\A b \in Bidders :
           ((\E i \in DOMAIN bids : bids[i].bidder = b)
              /\ ~(\E i \in DOMAIN bids' : bids'[i].bidder = b))
           => \/ meta'[b].cancelled
              \/ Cardinality(AsGoodBids(b)') >= auction.max]_vars
  BY <1>3
<1>5. QED
  BY <1>4, AuctionInvInit, AuctionInvStep, PTL DEF Spec, PruneSparesWinners

================================================================================
