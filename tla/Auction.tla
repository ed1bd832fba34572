------------------------------- MODULE Auction -------------------------------
(***************************************************************************)
(* One auction of the on-chain auction program, rust/auction/program: its  *)
(* life cycle, the list of winning bids, and the pot of every bidder.      *)
(*                                                                         *)
(* An instruction that returns an error changes nothing, so the early      *)
(* returns of the handlers are guards.  One instruction runs at a time;    *)
(* what makes the program hard is the clock: an auction ends without any   *)
(* instruction, at a time the last bid may still move, while its recorded  *)
(* state goes on saying Started.                                           *)
(***************************************************************************)
EXTENDS Integers, FiniteSets, SequencesExt

CONSTANTS
  Bidders,
  Amounts,        \* what a bid may be worth
  Authorities,    \* accounts that may own the auction
  DataAccounts,   \* those of them that hold data (see SetAuthority)
  AuctionArgs,    \* the settings a creator may choose
  SmallestArray,  \* room for bids when there are few winners (8 in the code)
  MaxTime         \* bound on the clock

(* An Option that is not set. *)
None == -1

Optional(S) == S \cup {None}
FloorKinds == {"None", "MinimumPrice", "BlindedPrice"}

(* tick is tick_size; gapTick is gap_tick_size_percentage, at most 100.    *)
CreateAuctionArgs ==
  [open : BOOLEAN, max : Nat, endAt : Optional(Nat), gap : Optional(Nat),
   floor : [kind : FloorKinds, price : Nat], tick : Optional(Nat),
   gapTick : Optional(0..100)]

ASSUME AuctionAssumption ==
  /\ IsFiniteSet(Bidders)
  /\ Amounts \subseteq Nat
  /\ DataAccounts \subseteq Authorities
  /\ AuctionArgs \subseteq CreateAuctionArgs
  /\ SmallestArray \in Nat \ {0}
  /\ MaxTime \in Nat

VARIABLES
  now,          \* the clock sysvar, in seconds
  auction,      \* AuctionData: absent, or Created, Started or Ended; with the
                \* tick sizes of AuctionDataExtended
  uncancelled,  \* AuctionDataExtended.total_uncancelled_bids
  meta,         \* BidderMetadata of each bidder
  pot,          \* SPL balance of each bidder's pot
  emptied,      \* BidderPot.emptied
  claimed       \* history: what the authority took out of each pot

vars == <<now, auction, uncancelled, meta, pot, emptied, claimed>>

NoAuction ==
  [state |-> "Absent", authority |-> None, lastBid |-> None, endedAt |-> None,
   bids |-> <<>>, open |-> FALSE, max |-> 0, endAt |-> None, gap |-> None,
   floor |-> [kind |-> "None", price |-> 0], tick |-> None, gapTick |-> None]

NoMetadata == [exists |-> FALSE, cancelled |-> FALSE, lastBid |-> 0, at |-> 0]

Init ==
  /\ now = 0
  /\ auction = NoAuction
  /\ uncancelled = 0
  /\ meta = [b \in Bidders |-> NoMetadata]
  /\ pot = [b \in Bidders |-> 0]
  /\ emptied = [b \in Bidders |-> FALSE]
  /\ claimed = [b \in Bidders |-> 0]

-----------------------------------------------------------------------------
(* Reading an auction *)

bids == auction.bids

(* AuctionData::ended: past the end, and past the gap after the last bid.  *)
Ended(t) ==
  /\ auction.endedAt # None /\ t > auction.endedAt
  /\ (auction.gap # None /\ auction.lastBid # None)
       => t > auction.lastBid + auction.gap

(* The floor counts once it is known: a blinded price stands for zero.     *)
Minimum == IF auction.floor.kind = "MinimumPrice" THEN auction.floor.price ELSE 0

(* BidState::is_winner: the last max bids of the list win.                 *)
WinsAbove(b, min) ==
  /\ ~auction.open
  /\ \E i \in DOMAIN bids :
       /\ bids[i].bidder = b /\ bids[i].amount >= min
       /\ Len(bids) - i < auction.max

IsWinner(b) == WinsAbove(b, Minimum)

-----------------------------------------------------------------------------
(* The list of bids *)

ArraySize == IF auction.max < SmallestArray THEN SmallestArray ELSE 2 * auction.max

Lower(amount) == Cardinality({i \in DOMAIN bids : bids[i].amount < amount})
Equal(amount) == \E i \in DOMAIN bids : bids[i].amount = amount

ValidTick(amount) ==
  auction.tick = None \/ (auction.tick > 0 /\ amount % auction.tick = 0)

(***************************************************************************)
(* After the nominal end a bid has to beat the one below it by gapTick     *)
(* percent; a bid below every other beats none.                            *)
(***************************************************************************)
ValidGap(amount) ==
  (auction.gapTick # None /\ auction.endedAt # None /\ now > auction.endedAt) =>
     IF Equal(amount) THEN auction.gapTick = 0
     ELSE Lower(amount) > 0 =>
            (bids[Lower(amount)].amount * (100 + auction.gapTick)) \div 100
               <= amount

(* Faulty variant: a bid is placed above its equals. *)
InsertAbove(bid) ==
  InsertAt(bids,
           Cardinality({i \in DOMAIN bids : bids[i].amount <= bid.amount}) + 1,
           bid)

(* Among equal bids the first one stays on top. *)
Insert(bid) == InsertAt(bids, Lower(bid.amount) + 1, bid)

(* Faulty variant: the best bid is dropped. *)
PruneBest(list) == IF Len(list) > ArraySize THEN Front(list) ELSE list

(* The lowest bid makes room. *)
Prune(list) == IF Len(list) > ArraySize THEN Tail(list) ELSE list

(* BidState::place_bid; an open edition keeps no list.                     *)
BidsWith(bid) == IF auction.open THEN bids ELSE Prune(Insert(bid))

(* The bids of a list that are not those of b, gone through in order.      *)
Without(list, b) ==
  LET kept[i \in 0..Len(list)] ==
        IF i = 0 THEN <<>>
        ELSE IF list[i].bidder = b THEN kept[i - 1] ELSE Append(kept[i - 1], list[i])
  IN  kept[Len(list)]

(* BidState::cancel_bid *)
BidsWithout(b) == IF auction.open THEN bids ELSE Without(bids, b)

-----------------------------------------------------------------------------
(* The authority *)

(* The account can be allocated only once. *)
CreateAuction(a, args) ==
  /\ auction.state = "Absent"
  /\ auction' = [state |-> "Created", authority |-> a, lastBid |-> None,
                 endedAt |-> None, bids |-> <<>>, open |-> args.open,
                 max |-> IF args.open THEN 0 ELSE args.max,
                 endAt |-> args.endAt, gap |-> args.gap, floor |-> args.floor,
                 tick |-> args.tick, gapTick |-> args.gapTick]
  /\ uncancelled' = 0
  /\ UNCHANGED <<now, meta, pot, emptied, claimed>>

StartAuction(a) ==
  /\ auction.state = "Created" /\ auction.authority = a
  /\ auction' = [auction EXCEPT !.state = "Started",
       !.endedAt = IF auction.endAt = None THEN None ELSE now + auction.endAt]
  /\ UNCHANGED <<now, uncancelled, meta, pot, emptied, claimed>>

(* A blinded floor is revealed, or the instruction fails. *)
Revealed(floor) ==
  IF floor.kind = "BlindedPrice" THEN [floor EXCEPT !.kind = "MinimumPrice"]
  ELSE floor

EndAuction(a) ==
  /\ auction.state \in {"Created", "Started"} /\ auction.authority = a
  /\ auction.endedAt = None
  /\ auction' = [auction EXCEPT !.state = "Ended", !.endedAt = now,
                                !.floor = Revealed(@)]
  /\ UNCHANGED <<now, uncancelled, meta, pot, emptied, claimed>>

(* An ordinary wallet is an account without data and cannot take over. *)
SetAuthority(a, v) ==
  /\ auction.state # "Absent" /\ auction.authority = a
  /\ v \in DataAccounts
  /\ auction' = [auction EXCEPT !.authority = v]
  /\ UNCHANGED <<now, uncancelled, meta, pot, emptied, claimed>>

(* Faulty variant: a pot is taken while the auction runs. *)
ClaimBidEarly(a, b) ==
  /\ auction.state # "Absent" /\ auction.authority = a
  /\ IsWinner(b)
  /\ pot' = [pot EXCEPT ![b] = 0]
  /\ claimed' = [claimed EXCEPT ![b] = @ + pot[b]]
  /\ emptied' = [emptied EXCEPT ![b] = TRUE]
  /\ UNCHANGED <<now, auction, uncancelled, meta>>

(* The authority takes the whole pot of a winner. *)
ClaimBid(a, b) ==
  /\ auction.state # "Absent" /\ auction.authority = a
  /\ IsWinner(b) /\ Ended(now)
  /\ pot' = [pot EXCEPT ![b] = 0]
  /\ claimed' = [claimed EXCEPT ![b] = @ + pot[b]]
  /\ emptied' = [emptied EXCEPT ![b] = TRUE]
  /\ UNCHANGED <<now, auction, uncancelled, meta>>

-----------------------------------------------------------------------------
(* The bidders *)

(* Faulty variant: only the recorded state closes the bidding. *)
BiddingByState == auction.state = "Started"

BiddingOpen == auction.state = "Started" /\ ~Ended(now)

(* A bidder has one bid open at a time.  It pays into the pot, and the     *)
(* bid is recorded in the list, the metadata and the count.                *)
PlaceBid(b, amount) ==
  /\ BiddingOpen
  /\ meta[b].exists => meta[b].cancelled
  /\ ValidTick(amount) /\ amount >= Minimum
  /\ ~auction.open => ValidGap(amount)
  /\ pot' = [pot EXCEPT ![b] = @ + amount]
  /\ auction' = [auction EXCEPT !.lastBid = now,
                   !.bids = BidsWith([bidder |-> b, amount |-> amount])]
  /\ meta' = [meta EXCEPT ![b] = [exists |-> TRUE, cancelled |-> FALSE,
                                  lastBid |-> amount, at |-> now]]
  /\ uncancelled' = uncancelled + 1
  /\ UNCHANGED <<now, emptied, claimed>>

(* A bid that arrives after the end records the end and places nothing.    *)
LateBid ==
  /\ Ended(now) /\ auction.state \in {"Created", "Started"}
  /\ auction' = [auction EXCEPT !.state = "Ended"]
  /\ UNCHANGED <<now, uncancelled, meta, pot, emptied, claimed>>

(* Faulty variant: everyone in the list is refused. *)
MayCancelUnlisted(b) ==
  ~(Ended(now) /\ \E i \in DOMAIN bids : bids[i].bidder = b)

MayCancel(b) == ~(Ended(now) /\ IsWinner(b))

(* Faulty variant: a bid cancelled before is counted down again. *)
CountWithoutAgain(b) == IF uncancelled > 0 THEN uncancelled - 1 ELSE uncancelled

CountWithout(b) ==
  IF ~meta[b].cancelled /\ uncancelled > 0 THEN uncancelled - 1 ELSE uncancelled

(* Faulty variant: the bid stays in the list. *)
CancelBidKeeping(b) ==
  /\ meta[b].exists /\ MayCancel(b)
  /\ pot' = [pot EXCEPT ![b] = 0]
  /\ meta' = [meta EXCEPT ![b].cancelled = TRUE]
  /\ uncancelled' = IF auction.state = "Ended" THEN uncancelled ELSE CountWithout(b)
  /\ UNCHANGED <<now, auction, emptied, claimed>>

(* The whole pot goes back; once the state says Ended, the list and the    *)
(* count stay as they are.                                                 *)
CancelBid(b) ==
  /\ meta[b].exists /\ MayCancel(b)
  /\ pot' = [pot EXCEPT ![b] = 0]
  /\ meta' = [meta EXCEPT ![b].cancelled = TRUE]
  /\ IF auction.state = "Ended"
     THEN UNCHANGED <<auction, uncancelled>>
     ELSE /\ auction' = [auction EXCEPT !.bids = BidsWithout(b)]
          /\ uncancelled' = CountWithout(b)
  /\ UNCHANGED <<now, emptied, claimed>>

Tick ==
  /\ now < MaxTime
  /\ now' = now + 1
  /\ UNCHANGED <<auction, uncancelled, meta, pot, emptied, claimed>>

Next ==
  \/ \E a \in Authorities :
       \/ \E args \in AuctionArgs : CreateAuction(a, args)
       \/ StartAuction(a)
       \/ EndAuction(a)
       \/ \E v \in Authorities : SetAuthority(a, v)
       \/ \E b \in Bidders : ClaimBid(a, b)
  \/ \E b \in Bidders, amount \in Amounts : PlaceBid(b, amount)
  \/ LateBid
  \/ \E b \in Bidders : CancelBid(b)
  \/ Tick

Spec == Init /\ [][Next]_vars

(***************************************************************************)
(* The clock runs.  After the end a bidder who can still have money back   *)
(* asks for it, and the authority collects from the winners.  Nothing      *)
(* obliges anyone to start or to end the auction, or to bid.               *)
(***************************************************************************)
Fairness ==
  /\ WF_vars(Tick)
  /\ \A b \in Bidders :
       /\ WF_vars(Ended(now) /\ CancelBid(b))
       /\ WF_vars(\E a \in Authorities : ClaimBid(a, b))

FairSpec == Spec /\ Fairness

-----------------------------------------------------------------------------
(* What an auction promises *)

(* The list that place_bid inserts into, prunes and cancels from is what   *)
(* winning is read off: it stays sorted, the earlier of two equal bids     *)
(* stays on top, and no bidder is in it twice.                             *)
ListOrdered ==
  \A i, j \in DOMAIN bids : i < j =>
    /\ bids[i].bidder # bids[j].bidder
    /\ bids[i].amount <= bids[j].amount
    /\ bids[i].amount = bids[j].amount =>
         meta[bids[j].bidder].at <= meta[bids[i].bidder].at

(* Until the state says Ended, a bid in the list is a live bid, recorded   *)
(* in its bidder's metadata, with its money in the pot; only the authority *)
(* may have collected that money.                                          *)
ListedBidsBacked ==
  auction.state = "Started" =>
    \A i \in DOMAIN bids :
      LET b == bids[i].bidder IN
        /\ ~meta[b].cancelled /\ meta[b].lastBid = bids[i].amount
        /\ pot[b] = bids[i].amount \/ (emptied[b] /\ claimed[b] = bids[i].amount)

(* total_uncancelled_bids, by which participation prizes are counted, is   *)
(* the number of bidders who have a bid open.                              *)
UncancelledCount ==
  auction.state # "Ended" =>
    uncancelled = Cardinality({b \in Bidders :
                                 meta[b].exists /\ ~meta[b].cancelled})

(* The authority collects from winners only, after the end, and never more *)
(* than the bid they won with; a winner who was collected from keeps the   *)
(* place in the list.                                                      *)
ClaimsFromWinners ==
  \A b \in Bidders : (emptied[b] \/ claimed[b] > 0) =>
    /\ Ended(now) /\ IsWinner(b)
    /\ claimed[b] <= meta[b].lastBid

Winners == {b \in Bidders : IsWinner(b)}

(* However the end comes about, and whatever is cancelled or claimed after *)
(* it, nobody becomes or ceases to be a winner any more.                   *)
WinnersFinal == [][Ended(now) => Winners' = Winners]_vars

(* A bid leaves the list when it is cancelled, or when there are as many   *)
(* bids at least as good as there are winners.                             *)
AsGoodBids(b) ==
  {i \in DOMAIN bids : bids[i].bidder # b /\ bids[i].amount >= meta[b].lastBid}

PruneSparesWinners ==
  [][\A b \in Bidders :
       ((\E i \in DOMAIN bids : bids[i].bidder = b)
          /\ ~(\E i \in DOMAIN bids' : bids'[i].bidder = b))
       => \/ meta'[b].cancelled
          \/ Cardinality(AsGoodBids(b)') >= auction.max]_vars

(* After the end every pot is emptied, to its bidder or to the authority.  *)
PotsDrain == \A b \in Bidders : Ended(now) ~> pot[b] = 0

=============================================================================
