------------------------------ MODULE TierTable ------------------------------
(***************************************************************************)
(* The prizes of a tiered sale: the handlers of TierTableStep and the      *)
(* amounts createAuction computes for each place (auctionCreate/index.tsx, *)
(* artSelector.tsx).                                                       *)
(*                                                                         *)
(* A table is [items, tiers, boxes]: the artworks to deposit in the order  *)
(* of their safety deposit boxes, the tiers with their entries and their   *)
(* winning spots, and the boxes each row of the page shows ticked, which   *)
(* is state of the row and not of its tier.  An entry names an artwork by  *)
(* its place in items (0 while it has none); art remembers, for the        *)
(* properties only, the artwork the seller chose.  An artwork is its place *)
(* in the list useUserArts gives.                                          *)
(***************************************************************************)
EXTENDS Integers, Sequences, SequencesExt, FiniteSetsExt

CONSTANT Arts     \* the seller's artworks: [edition, limited, own] each

ASSUME ArtsAssumption ==
  Arts \in Seq([edition : {"none", "V1", "V2"}, limited : BOOLEAN, own : BOOLEAN])

Works == DOMAIN Arts

NoEntry == [item |-> 0, art |-> 0, type |-> "none", amount |-> 0]

NewTable == [items |-> <<>>, tiers |-> <<>>, boxes |-> <<>>]

(* The type an entry gets with its artwork.                                *)
TypeOf(a) == CASE Arts[a].edition = "V1" -> "PrintingV1"
               [] Arts[a].edition = "V2" -> "PrintingV2"
               [] OTHER -> "TokenOnlyTransfer"

(* The type of the draft useUserArts makes of an artwork.                   *)
DraftType(a) == IF Arts[a].edition = "V2" /\ ~Arts[a].limited THEN "Participation"
                                                              ELSE TypeOf(a)

Printing == {"PrintingV1", "PrintingV2"}
PrizeTypes  == Printing \cup {"TokenOnlyTransfer", "FullRightsTransfer"}

(***************************************************************************)
(*                           The page's handlers                           *)
(***************************************************************************)
AddTier(tt) ==
  [items |-> tt.items,
   tiers |-> Append(tt.tiers, [items |-> <<>>, spots |-> {}]),
   boxes |-> Append(tt.boxes, {})]

AddEntry(tt, t) == [tt EXCEPT !.tiers[t].items = Append(@, NoEntry)]

(* A tick writes what the row shows, which after a visit elsewhere is      *)
(* nothing, and after a tier above went away is that tier's.               *)
Toggle(tt, t, s) ==
  LET shown == IF s \in tt.boxes[t] THEN tt.boxes[t] \ {s} ELSE tt.boxes[t] \cup {s}
  IN [items |-> tt.items,
      tiers |-> [tt.tiers EXCEPT ![t].spots = shown],
      boxes |-> [tt.boxes EXCEPT ![t] = shown]]

Choose(tt, t, e, a) ==
  LET items == IF \E k \in DOMAIN tt.items : tt.items[k] = a
               THEN tt.items ELSE Append(tt.items, a)
      entry == [item |-> CHOOSE k \in DOMAIN items : items[k] = a,
                art |-> a, type |-> TypeOf(a), amount |-> 1]
  IN [items |-> items,
      tiers |-> [tt.tiers EXCEPT ![t].items[e] = entry],
      boxes |-> tt.boxes]

(* Mutations of the next two: entries after the removed artwork keep their *)
(* number; an artwork goes though another tier gives it too.               *)
RenumberNone(tiers, k) == tiers
UsedHere(tiers, k) == FALSE

Renumber(tiers, k) ==
  LET down(entry) == IF entry.item > k THEN [entry EXCEPT !.item = @ - 1] ELSE entry
  IN [t \in DOMAIN tiers |->
        [tiers[t] EXCEPT !.items = [e \in DOMAIN @ |-> down(@[e])]]]

Used(tiers, k) ==
  \E t \in DOMAIN tiers : \E e \in DOMAIN tiers[t].items : tiers[t].items[e].item = k

(* Removing an entry; a tier goes with its last entry, an artwork with the *)
(* last entry that names it.                                               *)
Clear(tt, t, e) ==
  LET k     == tt.tiers[t].items[e].item
      left  == RemoveAt(tt.tiers[t].items, e)
      tiers == IF left = <<>> THEN RemoveAt(tt.tiers, t)
               ELSE [tt.tiers EXCEPT ![t].items = left]
  IN IF k = 0 THEN tt
     ELSE [items |-> IF Used(tiers, k) THEN tt.items ELSE RemoveAt(tt.items, k),
           tiers |-> IF Used(tiers, k) THEN tiers ELSE Renumber(tiers, k),
           boxes |-> SubSeq(tt.boxes, 1, Len(tiers))]

(* Choosing in the selector adds to what the entry has or takes it away,   *)
(* and the entry gets the first of the chosen in the list.                 *)
Pick(tt, t, e, a) ==
  LET had    == {tt.tiers[t].items[e].art} \ {0}
      chosen == IF a \in had THEN had \ {a} ELSE had \cup {a}
  IN IF chosen = {} THEN Clear(tt, t, e) ELSE Choose(tt, t, e, Min(chosen))

(* The first deposit is never turned into a print of the old kind: its     *)
(* number, zero in the code, counts as none.                               *)
Retype(tt, t, e, type) ==
  LET k == tt.tiers[t].items[e].item
      old == type = "PrintingV2" /\ k > 1 /\ Arts[tt.items[k]].edition = "V1"
  IN [tt EXCEPT !.tiers[t].items[e].type = IF old THEN "PrintingV1" ELSE type]

SetAmount(tt, t, e, n) == [tt EXCEPT !.tiers[t].items[e].amount = n]

Remount(tt) == [tt EXCEPT !.boxes = [t \in DOMAIN @ |-> {}]]

(***************************************************************************)
(*                        The amounts of each place                        *)
(***************************************************************************)
AmountRange(n, length) == [amount |-> n, length |-> length]

(* The winning spots a tier can have: sort() orders them as strings, which *)
(* is their order below ten.                                               *)
MaxSpots == 10
Places == 0..MaxSpots - 1

(* The gap before a spot: all of it up to the tier's second spot.          *)
ZeroLength(spots, spot) ==
  LET before == {s \in spots : s < spot}
  IN IF Cardinality(before) > 1 THEN spot - Max(before) - 1 ELSE spot

(* A tier's ranges once its spots below i are gone through.                *)
TierRanges(spots, n) ==
  LET r[i \in 0..MaxSpots] ==
        IF i = 0 THEN <<>>
        ELSE IF i - 1 \notin spots THEN r[i - 1]
        ELSE IF i - 2 \in spots THEN [r[i - 1] EXCEPT ![Len(r[i - 1])].length = @ + 1]
        ELSE r[i - 1] \o (IF ZeroLength(spots, i - 1) > 0
                          THEN <<AmountRange(0, ZeroLength(spots, i - 1))>> ELSE <<>>)
                      \o <<AmountRange(n, 1)>>
  IN r[MaxSpots]

(* A mutation of the next one: what is left of a split range is forgotten. *)
DropHead(ranges, n) == Tail(ranges)

Shorten(ranges, n) ==
  IF Head(ranges).length = n THEN Tail(ranges)
  ELSE <<AmountRange(Head(ranges).amount, Head(ranges).length - n)>> \o Tail(ranges)

(* One round of the loop that adds a tier's ranges to those of the tiers   *)
(* before: m.old and m.tier are what is left of both.                      *)
MergeStep(m) ==
  IF m.old = <<>> THEN [m EXCEPT !.out = Append(@, Head(m.tier)), !.tier = Tail(@)]
  ELSE IF m.tier = <<>> THEN [m EXCEPT !.out = Append(@, Head(m.old)), !.old = Tail(@)]
  ELSE LET o == Head(m.old)
           t == Head(m.tier)
           n == Min({o.length, t.length})
       IN [old |-> Shorten(m.old, n), tier |-> Shorten(m.tier, n),
           out |-> Append(m.out, AmountRange(o.amount + t.amount, n))]

Merge(old, tier) ==
  LET m[i \in 0..Len(old) + Len(tier)] ==
        IF i = 0 THEN [old |-> old, tier |-> tier, out |-> <<>>]
        ELSE IF m[i - 1].old = <<>> /\ m[i - 1].tier = <<>> THEN m[i - 1]
        ELSE MergeStep(m[i - 1])
  IN m[Len(old) + Len(tier)].out

Typed(tier) ==
  LET kept[i \in 0..Len(tier.items)] ==
        IF i = 0 THEN <<>>
        ELSE IF tier.items[i].type = "none" THEN kept[i - 1]
        ELSE Append(kept[i - 1], tier.items[i])
  IN [tier EXCEPT !.items = kept[Len(tier.items)]]

(* The tiers that give the k-th deposit, and what they say of it.          *)
Has(tier, k) == \E e \in DOMAIN Typed(tier).items : Typed(tier).items[e].item = k
Filtered(tt, k) == {t \in DOMAIN tt.tiers : tt.tiers[t].spots # {} /\ Has(tt.tiers[t], k)}
Entry(tier, k) ==
  LET items == Typed(tier).items
  IN items[Min({e \in DOMAIN items : items[e].item = k})]

RangesOf(tt, k) ==
  LET ranges[t \in 0..Len(tt.tiers)] ==
        IF t = 0 THEN <<>>
        ELSE IF t \notin Filtered(tt, k) THEN ranges[t - 1]
        ELSE Merge(ranges[t - 1], TierRanges(tt.tiers[t].spots, Entry(tt.tiers[t], k).amount))
  IN ranges[Len(tt.tiers)]

(* The last of those tiers says the type.                                  *)
TypeNow(tt, k) ==
  IF Filtered(tt, k) = {} THEN DraftType(tt.items[k])
                          ELSE Entry(tt.tiers[Max(Filtered(tt, k))], k).type

(***************************************************************************)
(*                       What the ranges should say                        *)
(***************************************************************************)
(* What a place gets of the artwork: from every tier it is a spot of.      *)
Meant(tt, k, place) ==
  LET n[t \in 0..Len(tt.tiers)] ==
        IF t = 0 THEN 0
        ELSE IF t \in Filtered(tt, k) /\ place \in tt.tiers[t].spots
        THEN n[t - 1] + Entry(tt.tiers[t], k).amount ELSE n[t - 1]
  IN n[Len(tt.tiers)]

(* The place after each range.                                             *)
Ends(ranges) ==
  LET end[i \in 0..Len(ranges)] == IF i = 0 THEN 0 ELSE end[i - 1] + ranges[i].length
  IN end

(* The place's amount in the ranges, as the auction manager reads them.    *)
AmountAt(ranges, place) ==
  LET at == {i \in DOMAIN ranges : Ends(ranges)[i - 1] <= place /\ place < Ends(ranges)[i]}
  IN IF at = {} THEN 0 ELSE ranges[CHOOSE i \in at : TRUE].amount

(* No gap before a tier's second spot.                                     *)
Packed(spots) == Cardinality(spots) > 1 => Min(spots) + 1 \in spots
==============================================================================
