------------------------------ MODULE PrizeChain ------------------------------
(***************************************************************************)
(* The part of the chain on which the prizes of an auction are handed out  *)
(* after its end: the vault's stores, the redemption tickets, the tracking *)
(* tickets and prints of the master editions, and the bidders' pots.  The  *)
(* auction is past its end by the clock in every state; recorded says      *)
(* whether its account says so too.                                        *)
(*                                                                         *)
(* As in SaleChain, an instruction is a record, Allowed is what its        *)
(* handler checks and Do what it writes.                                   *)
(***************************************************************************)
EXTENDS Naturals, Sequences, SequencesExt, FiniteSets

CONSTANTS
  Bidders,   \* the wallets that bid, the cancelled ones included
  Seller,    \* the auction manager's authority
  Prizes,    \* by box: its winning config type and its amount at each place
  Given,     \* the participation config: given to winners?  to the others?
  KeyByte,   \* the boxes whose bits are set in a byte of the manager's key
  Results    \* how the auction may end: who is at which place, who had left

Orders == DOMAIN Prizes
Types == {"TokenOnlyTransfer", "FullRightsTransfer", "PrintingV2", "Participation"}
NumPlaces == Len(Prizes[1].amounts)
Holders == Bidders \union {Seller}

Amount(i, k) == Prizes[i].amounts[k]
IsPrint(i) == Prizes[i].type = "PrintingV2"
IsParticipation(i) == Prizes[i].type = "Participation"

(* The manager accepts an item sold with its rights only as a single token *)
(* for a single place (validate_safety_deposit_box_v2.rs, supply check).   *)
ASSUME PrizeAssumption ==
  /\ IsFiniteSet(Bidders) /\ Seller \notin Bidders
  /\ Prizes \in Seq([type : Types, amounts : Seq(Nat)]) /\ Prizes # <<>>
  /\ \A i \in Orders : Len(Prizes[i].amounts) = NumPlaces
  /\ \A i \in Orders : IsParticipation(i) => \A k \in 1..NumPlaces : Amount(i, k) = 0
  /\ \A i \in Orders : Prizes[i].type = "FullRightsTransfer" =>
       \E k \in 1..NumPlaces : \A l \in 1..NumPlaces :
         Amount(i, l) = IF l = k THEN 1 ELSE 0
  /\ Given \in [winners : BOOLEAN, others : BOOLEAN]
  /\ KeyByte \subseteq Orders

(* The auction's list has each bidder once, and only those who stayed.     *)
ASSUME ResultAssumption ==
  \A r \in Results : /\ r.gone \subseteq Bidders
                     /\ r.places \in Seq(Bidders \ r.gone)
                     /\ Len(r.places) <= NumPlaces
                     /\ \A k, l \in DOMAIN r.places : r.places[k] = r.places[l] => k = l

Sum(s) ==
  LET upTo[n \in 0..Len(s)] == IF n = 0 THEN 0 ELSE upTo[n - 1] + s[n] IN upTo[Len(s)]

(* The elements of s that are in S, in their order.                        *)
Chosen(s, S) ==
  LET upTo[n \in 0..Len(s)] == IF n = 0 THEN <<>>
                               ELSE IF s[n] \in S THEN Append(upTo[n - 1], s[n])
                                                  ELSE upTo[n - 1]
  IN upTo[Len(s)]

(* find_amount_and_cumulative_offset: what the places before k are given.  *)
Before == [i \in Orders |-> [k \in 1..NumPlaces + 1 |-> Sum(SubSeq(Prizes[i].amounts, 1, k - 1))]]
Offsets == [i \in Orders |-> [k \in 1..NumPlaces |->
              [n \in 1..Amount(i, k) |-> Before[i][k] + n]]]

Masters == {i \in Orders : IsPrint(i) \/ IsParticipation(i)}
InStore(i) == IF i \in Masters THEN 1 ELSE Before[i][NumPlaces + 1]

-----------------------------------------------------------------------------
(* The accounts.                                                           *)

NoTicket == [indexed |-> FALSE, low |-> {}, high |-> {}]
NoTracking == [open |-> FALSE, expected |-> 0, redeemed |-> 0, snapshot |-> 0]

Genesis(r) == [
  places |-> r.places,
  uncancelled |-> Cardinality(Bidders \ r.gone),
  cancelled |-> r.gone,
  pots |-> Bidders \ r.gone,
  claimed |-> 0,                                   \* bids_pushed_to_accept
  recorded |-> FALSE,
  store |-> [i \in Orders |-> InStore(i)],
  got |-> [i \in Orders |-> [h \in Holders |-> 0]],
  ticket |-> [b \in Bidders |-> NoTicket],
  tracking |-> [i \in Orders |-> NoTracking],
  taken |-> [i \in Orders |-> {}],                 \* edition markers
  supply |-> [i \in Orders |-> 0],
  mints |-> [m \in Holders \X Bidders |-> "none"] ]

Winners(c) == ToSet(c.places)
PlaceOf(c, b) == CHOOSE k \in DOMAIN c.places : c.places[k] = b
IsPlace(c, b, k) == k \in DOMAIN c.places /\ c.places[k] = b

(* A ticket's bits are at one of two places of the account.  Saving with a *)
(* winning index puts the manager's key where the bits without one were.   *)
Redeemed(t, i) == IF t.indexed THEN i \in t.high ELSE i \in t.low
Save(t, i, indexed) ==
  IF indexed THEN [indexed |-> TRUE, low |-> KeyByte, high |-> t.high \union {i}]
             ELSE [t EXCEPT !.indexed = FALSE, !.low = @ \union {i}]

(* Prizes printed off a master are counted against what is expected when   *)
(* the first of them is.                                                   *)
Track(t, expected, supply) ==
  IF t.open THEN [t EXCEPT !.redeemed = @ + 1]
            ELSE [open |-> TRUE, expected |-> expected, redeemed |-> 1, snapshot |-> supply]

Snapshot(c, i) == IF c.tracking[i].open THEN c.tracking[i].snapshot ELSE c.supply[i]

Larger(m, n) == IF m > n THEN m ELSE n

Mint(c, i, edition, expected, b) ==
  [c EXCEPT !.taken[i] = @ \union {edition},
            !.supply[i] = Larger(@, edition),
            !.tracking[i] = Track(@, expected, c.supply[i]),
            !.got[i][b] = @ + 1]

MayMint(c, i, edition) == c.store[i] > 0 /\ edition \notin c.taken[i]

-----------------------------------------------------------------------------
(* The instructions, by the functions that build them.                     *)

setupPlaceBid == [ix |-> "endBid"]
claimBid(b) == [ix |-> "claim", who |-> b]
cancelBid(b) == [ix |-> "cancel", who |-> b]
redeemBid(b, i) == [ix |-> "redeem", who |-> b, item |-> i]
redeemFullRightsTransferBid(b, i) == [ix |-> "redeem", who |-> b, item |-> i]
redeemUnused(k, i) == [ix |-> "unused", place |-> k, item |-> i]
redeemPrintingV2Bid(b, i, k, offset) ==
  [ix |-> "print", who |-> b, item |-> i, place |-> k, offset |-> offset]
createMintAndAccountWithOne(by, b) == [ix |-> "mint", by |-> by, who |-> b]
redeemParticipationBidV3(by, b, i) ==
  [ix |-> "participate", by |-> by, who |-> b, item |-> i]
updatePrimarySaleHappenedViaToken(by, b) == [ix |-> "mark", by |-> by, who |-> b]
withdrawMasterEdition(i) == [ix |-> "withdraw", item |-> i]

-----------------------------------------------------------------------------
(* Handing out what is in the stores.                                      *)

(* A mutation of the next one: the ticket is not looked at.                *)
MayRedeemAgain(c, b, i) ==
  /\ c.recorded
  /\ b \in Winners(c) => /\ i \notin Masters
                         /\ c.store[i] >= Amount(i, PlaceOf(c, b))

MayRedeem(c, b, i) ==
  /\ c.recorded
  /\ ~Redeemed(c.ticket[b], i)
  /\ b \in Winners(c) => /\ i \notin Masters
                         /\ c.store[i] >= Amount(i, PlaceOf(c, b))

(* An item sold with its rights moves as one token; the only place that    *)
(* has it has an amount of one (PrizeAssumption).                          *)
Redeem(c, b, i) ==
  LET won == b \in Winners(c)
      n == IF won THEN Amount(i, PlaceOf(c, b)) ELSE 0
  IN [c EXCEPT !.store[i] = @ - n, !.got[i][b] = @ + n,
               !.ticket[b] = Save(@, i, won)]

(* The authority takes what nobody won, and no ticket is kept of it.       *)
MayRedeemUnused(c, k, i) ==
  /\ c.recorded
  /\ k \notin DOMAIN c.places
  /\ i \notin Masters
  /\ c.store[i] >= Amount(i, k)

RedeemUnused(c, k, i) ==
  [c EXCEPT !.store[i] = @ - Amount(i, k), !.got[i][Seller] = @ + Amount(i, k)]

-----------------------------------------------------------------------------
(* Printing off the masters.                                               *)

(* The offset has to be among those of the place; the ticket is not read.  *)
MayPrint(c, x) ==
  /\ c.recorded
  /\ IsPlace(c, x.who, x.place)
  /\ x.offset \in ToSet(Offsets[x.item][x.place])
  /\ IsPrint(x.item)
  /\ MayMint(c, x.item, Snapshot(c, x.item) + x.offset)

PrintEdition(c, x) ==
  LET expected == Before[x.item][Len(c.places) + 1]
      minted == Mint(c, x.item, Snapshot(c, x.item) + x.offset, expected, x.who)
  IN [minted EXCEPT !.ticket[x.who] = Save(@, x.item, TRUE)]

GetsParticipation(c, b) ==
  IF b \in Winners(c) \ c.cancelled THEN Given.winners ELSE Given.others

(* The index that goes with a participation is the sender's own place: a   *)
(* seller who prints for a winner names none.                              *)
Indexed(c, by) == by \in Winners(c)

MayParticipate(c, x) ==
  /\ c.recorded
  /\ IsParticipation(x.item)
  /\ Indexed(c, x.by) => x.by = x.who
  /\ c.mints[x.by, x.who] = "blank"
  /\ ~Redeemed(c.ticket[x.who], x.item)
  /\ GetsParticipation(c, x.who)
  /\ ~Given.winners => c.uncancelled >= Len(c.places)
  /\ MayMint(c, x.item, c.supply[x.item] + 1)

Participations(c) ==
  IF ~Given.winners THEN c.uncancelled - Len(c.places)
  ELSE IF ~Given.others THEN Len(c.places)
  ELSE c.uncancelled

Participate(c, x) ==
  LET minted == Mint(c, x.item, c.supply[x.item] + 1, Participations(c), x.who)
  IN [minted EXCEPT !.ticket[x.who] = Save(@, x.item, Indexed(c, x.by)),
                    !.mints[<<x.by, x.who>>] = "printed"]

(* How many bids there may be before somebody could claim a print: the     *)
(* places before the first that gets one, none if no place does.           *)
BidsAllowed(i) ==
  LET some == {k \in 1..NumPlaces : Amount(i, k) > 0}
  IN IF some = {} THEN 0 ELSE (CHOOSE k \in some : \A l \in some : k <= l) - 1

(* A mutation of the next one: nobody has redeemed yet, so nobody will.    *)
MayWithdrawEarly(c, i) ==
  /\ c.recorded /\ i \in Masters /\ c.store[i] > 0
  /\ c.tracking[i].open => c.tracking[i].redeemed >= c.tracking[i].expected

MayWithdraw(c, i) ==
  /\ c.recorded /\ i \in Masters /\ c.store[i] > 0
  /\ IF c.tracking[i].open THEN c.tracking[i].redeemed >= c.tracking[i].expected
                           ELSE c.uncancelled <= BidsAllowed(i)

Withdraw(c, i) == [c EXCEPT !.store[i] = @ - 1, !.got[i][Seller] = @ + 1]

-----------------------------------------------------------------------------
(* The money of the bids.                                                  *)

(* The manager asks for the recorded end, the auction for a winner.        *)
MayClaim(c, b) == c.recorded /\ b \in Winners(c)

Claim(c, b) ==
  [c EXCEPT !.claimed = IF b \in c.pots THEN @ + 1 ELSE @, !.pots = @ \ {b}]

(* Past the end only a loser may cancel.                                   *)
MayCancel(c, b) == b \notin Winners(c)

Cancel(c, b) ==
  [c EXCEPT !.pots = @ \ {b}, !.cancelled = @ \union {b},
            !.uncancelled = IF c.recorded \/ b \in c.cancelled THEN @ ELSE @ - 1]

-----------------------------------------------------------------------------

Allowed(c, x) ==
  CASE x.ix = "endBid"      -> ~c.recorded
    [] x.ix = "claim"       -> MayClaim(c, x.who)
    [] x.ix = "cancel"      -> MayCancel(c, x.who)
    [] x.ix = "redeem"      -> MayRedeem(c, x.who, x.item)
    [] x.ix = "unused"      -> MayRedeemUnused(c, x.place, x.item)
    [] x.ix = "print"       -> MayPrint(c, x)
    [] x.ix = "mint"        -> c.mints[x.by, x.who] = "none"
    [] x.ix = "participate" -> MayParticipate(c, x)
    [] x.ix = "mark"        -> c.mints[x.by, x.who] = "printed"
    [] x.ix = "withdraw"    -> MayWithdraw(c, x.item)

Do(c, x) ==
  CASE x.ix = "endBid"      -> [c EXCEPT !.recorded = TRUE]
    [] x.ix = "claim"       -> Claim(c, x.who)
    [] x.ix = "cancel"      -> Cancel(c, x.who)
    [] x.ix = "redeem"      -> Redeem(c, x.who, x.item)
    [] x.ix = "unused"      -> RedeemUnused(c, x.place, x.item)
    [] x.ix = "print"       -> PrintEdition(c, x)
    [] x.ix = "mint"        -> [c EXCEPT !.mints[<<x.by, x.who>>] = "blank"]
    [] x.ix = "participate" -> Participate(c, x)
    [] x.ix = "mark"        -> c
    [] x.ix = "withdraw"    -> Withdraw(c, x.item)

=============================================================================
