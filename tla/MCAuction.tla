----------------------------- MODULE MCAuction -----------------------------
(***************************************************************************)
(* Small instances of the auction.                                         *)
(***************************************************************************)
EXTENDS Auction, TLC

NoFloor == [kind |-> "None", price |-> 0]
AtLeast(p) == [kind |-> "MinimumPrice", price |-> p]
Blinded(p) == [kind |-> "BlindedPrice", price |-> p]

Args(open, max, endAt, gap, floor, tick, gapTick) ==
  [open |-> open, max |-> max, endAt |-> endAt, gap |-> gap, floor |-> floor,
   tick |-> tick, gapTick |-> gapTick]

(***************************************************************************)
(* A timed auction whose gap may outlast its end, where a bid of 3 does    *)
(* not beat one of 2, and the list has room for two; two winners over a    *)
(* minimum price with a tick; an auction ended by hand over a blinded      *)
(* price; and an open edition.                                             *)
(***************************************************************************)
MCAuctionArgs ==
  {Args(FALSE, 1, 1, 1, NoFloor, None, 100),
   Args(FALSE, 2, 1, None, AtLeast(2), 1, None),
   Args(FALSE, 1, None, 1, Blinded(3), None, 0),
   Args(TRUE, 0, 0, None, NoFloor, 3, None)}

=============================================================================
