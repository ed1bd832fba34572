------------------------------ MODULE Settlement ------------------------------
(***************************************************************************)
(* After an auction its bidders redeem or refund their bids and its seller *)
(* reclaims what is left, each from the page of the auction (AuctionCard,  *)
(* sendRedeemBid, cancelBid, claimUnusedPrizes).  The page builds its list *)
(* of transactions from the accounts as they are when the button is        *)
(* pressed; the lists of several wallets are sent at the same time, each   *)
(* in passes.                                                              *)
(***************************************************************************)
EXTENDS PrizeChain, Passes

CONSTANTS
  MaxFaults,   \* bound: transactions that are lost
  Returning    \* the wallets whose owners press the button again and again

ASSUME SettlementAssumption == MaxFaults \in Nat /\ Returning \subseteq Holders

VARIABLES
  chain,   \* the accounts, as in PrizeChain
  tab,     \* for each wallet, what its page is sending
  faults   \* how many of MaxFaults have happened

vars == <<chain, tab, faults>>

-----------------------------------------------------------------------------
(* What the pages build.                                                   *)

BoxesInOrder(S) == Chosen([i \in Orders |-> i], S)
Prints == BoxesInOrder({i \in Orders : IsPrint(i)})
participationItem == BoxesInOrder({i \in Orders : IsParticipation(i)})
Bids == SetToSeq(Bidders)

(* getItemsFromSafetyDepositBoxes: what a place gets.                      *)
items == [k \in 1..NumPlaces |-> BoxesInOrder({i \in Orders : Amount(i, k) > 0})]

ended(c) == IF c.recorded THEN <<>> ELSE <<setupPlaceBid>>

(* One transaction for each copy whose edition is not taken yet.           *)
setupRedeemPrintingV2Instructions(c, b, i, k) ==
  LET free == {n \in ToSet(Offsets[i][k]) : Snapshot(c, i) + n \notin c.taken[i]}
      offsets == Chosen(Offsets[i][k], free)
  IN [j \in DOMAIN offsets |-> redeemPrintingV2Bid(b, i, k, offsets[j])]

(* The page takes every item for unclaimed: the list that isItemClaimed    *)
(* searches is never filled.                                               *)
redeemItem(c, b, i, k) ==
  CASE IsPrint(i) -> setupRedeemPrintingV2Instructions(c, b, i, k)
    [] Prizes[i].type = "FullRightsTransfer" -> <<redeemFullRightsTransferBid(b, i)>>
    [] OTHER -> <<redeemBid(b, i)>>

winningSet(c, b) ==
  LET k == PlaceOf(c, b)
  IN FlattenSeq([j \in DOMAIN items[k] |-> redeemItem(c, b, items[k][j], k)])

(* Whoever placed a bid has a pot to be refunded from.                     *)
setupCancelBid(b) == IF b \in Bidders THEN <<cancelBid(b)>> ELSE <<>>

eligibleForParticipationPrize(c, b) ==
  /\ b \in Bidders
  /\ \E i \in ToSet(participationItem) : ~Redeemed(c.ticket[b], i)
  /\ IF b \in Winners(c) THEN Given.winners ELSE Given.others

setupRedeemParticipationInstructions(c, b) ==
  IF ~eligibleForParticipationPrize(c, b) THEN <<>>
  ELSE LET i == participationItem[1]
       IN <<createMintAndAccountWithOne(b, b), redeemParticipationBidV3(b, b, i),
            updatePrimarySaleHappenedViaToken(b, b)>>

findEligibleParticipationBidsForRedemption(c) ==
  Chosen(Bids, {b \in Bidders \ c.cancelled : eligibleForParticipationPrize(c, b)})

(* The seller prints for those who have not asked, and takes the master.   *)
claimParticipation(c, i) ==
  LET bids == findEligibleParticipationBidsForRedemption(c)
  IN IF c.store[i] = 0 THEN <<>>
     ELSE [j \in DOMAIN bids |-> createMintAndAccountWithOne(Seller, bids[j])]
          \o [j \in DOMAIN bids |-> redeemParticipationBidV3(Seller, bids[j], i)]
          \o <<withdrawMasterEdition(i)>>

(* A place that was won keeps its items, but its copies are printed for it. *)
claimItem(c, k, i) ==
  IF c.store[i] = 0 THEN <<>>
  ELSE IF k \in DOMAIN c.places
       THEN IF IsPrint(i) THEN setupRedeemPrintingV2Instructions(c, c.places[k], i, k)
                          ELSE <<>>
       ELSE IF IsPrint(i) THEN <<>> ELSE <<redeemUnused(k, i)>>

claimUnusedPrizes(c) ==
  LET place(k) == FlattenSeq([j \in DOMAIN items[k] |-> claimItem(c, k, items[k][j])])
      prints == Chosen(Prints, {i \in Orders : c.store[i] > 0})
  IN FlattenSeq([j \in DOMAIN participationItem |-> claimParticipation(c, participationItem[j])])
     \o FlattenSeq([k \in 1..NumPlaces |-> place(k)])
     \o [j \in DOMAIN prints |-> withdrawMasterEdition(prints[j])]

sendRedeemBid(c, b) ==
  ended(c)
  \o (IF b \in Winners(c) THEN winningSet(c, b) \o <<claimBid(b)>> ELSE setupCancelBid(b))
  \o setupRedeemParticipationInstructions(c, b)

sendCancelBid(c, w) ==
  ended(c) \o setupCancelBid(w) \o (IF w = Seller THEN claimUnusedPrizes(c) ELSE <<>>)

eligibleForAnything(c, w) == w \in Winners(c) \/ eligibleForParticipationPrize(c, w)

list(c, w) == IF eligibleForAnything(c, w) THEN sendRedeemBid(c, w) ELSE sendCancelBid(c, w)

-----------------------------------------------------------------------------

Init ==
  /\ \E r \in Results : chain = Genesis(r)
  /\ tab = [w \in Holders |-> Idle]
  /\ faults = 0

Set(w, rec) == tab' = [tab EXCEPT ![w] = rec]

(* Between two passes nothing is sent; a list of one pass ends with it.    *)
Onward(b) ==
  IF b.pc = "sending" THEN b
  ELSE IF b.then = "once" \/ ~MoreRounds(b) THEN Idle
  ELSE [NextRound(b) EXCEPT !.pc = "sending"]

(* The button of the auction's page; its mints have fresh keys.  What is   *)
(* redeemed is sent until it is through or three passes got nowhere, what  *)
(* is refunded or reclaimed in one pass.                                   *)
Press(w) ==
  /\ tab[w].pc = "idle"
  /\ chain' = [chain EXCEPT !.mints =
                 [m \in DOMAIN @ |-> IF m[1] = w THEN "none" ELSE @[m]]]
  /\ UNCHANGED faults
  /\ list(chain, w) # <<>>
  /\ Set(w, [NextRound(Start(list(chain, w), "once")) EXCEPT !.pc = "sending",
                !.then = IF eligibleForAnything(chain, w) THEN "retry" ELSE "once"])

Failed(w) ==
  LET b == tab[w]
  IN Set(w, Onward(IF Len(b.todo) = 1 THEN AfterException(b) ELSE AfterFailure(b)))

Lands(w) ==
  /\ tab[w].pc = "sending"
  /\ Set(w, Onward(After(tab[w])))
  /\ Allowed(chain, Current(tab[w]))
  /\ chain' = Do(chain, Current(tab[w]))
  /\ UNCHANGED faults

Refused(w) ==
  /\ tab[w].pc = "sending"
  /\ Failed(w)
  /\ ~Allowed(chain, Current(tab[w]))
  /\ UNCHANGED <<chain, faults>>

Lost(w) ==
  /\ tab[w].pc = "sending"
  /\ faults < MaxFaults
  /\ faults' = faults + 1
  /\ Failed(w)
  /\ UNCHANGED chain

Sender(w) == Lands(w) \/ Refused(w)

Next == \E w \in Holders : Press(w) \/ Sender(w) \/ Lost(w)

Spec == Init /\ [][Next]_vars

(* The sender goes on, and those who return press whenever they may.  The  *)
(* weak fairness of those is spelled out, with the condition under which   *)
(* Press or Sender is enabled, because TLC evaluates it a lot faster.      *)
CanMove(w) == tab[w].pc = "sending" \/ list(chain, w) # <<>>

Fairness ==
  /\ \A w \in Returning : []<>~CanMove(w) \/ []<><<Press(w) \/ Sender(w)>>_vars
  /\ \A w \in Holders \ Returning : WF_vars(Sender(w))

FairSpec == Spec /\ Fairness

-----------------------------------------------------------------------------
(* Properties.                                                             *)

Transfers == Orders \ Masters

(* What is given for a place goes to whoever is at it and to no other      *)
(* bidder (redeem_bid.rs, calculate_win_index), the seller takes nothing   *)
(* while every place is won, and no token is made or lost.                 *)
ShareOf(i, h) ==
  IF h = Seller
  THEN Sum([k \in 1..NumPlaces |-> IF k \in DOMAIN chain.places THEN 0 ELSE Amount(i, k)])
  ELSE Sum([k \in 1..NumPlaces |-> IF IsPlace(chain, h, k) THEN Amount(i, k) ELSE 0])

GivenFor(i, k) == IF k \in DOMAIN chain.places THEN chain.got[i][chain.places[k]] ELSE 0

PrizesByPlace ==
  \A i \in Transfers :
    /\ \A b \in Bidders : chain.got[i][b] <= ShareOf(i, b)
    /\ DOMAIN chain.places = 1..NumPlaces => chain.got[i][Seller] = 0
    /\ chain.store[i] + Sum([k \in 1..NumPlaces |-> GivenFor(i, k)]) + chain.got[i][Seller]
         = InStore(i)

(* The master edition is back in the seller's hands only when every print  *)
(* that was won has been made, and every participation, provided that no   *)
(* bid was cancelled while the auction ran: who cancelled may claim a      *)
(* participation that is not expected of it (withdraw_master_edition.rs,   *)
(* v2_validation).                                                         *)
Promised(i, b) ==
  IF IsPrint(i) THEN ShareOf(i, b)
  ELSE IF b \in chain.cancelled \/ ~GetsParticipation(chain, b) THEN 0 ELSE 1

MasterAfterPrints ==
  \A i \in Masters :
    chain.store[i] = 0 /\ (IsPrint(i) \/ chain.uncancelled = Cardinality(Bidders)) =>
      \A b \in Bidders : chain.got[i][b] >= Promised(i, b)

(* In the end every winner has its prizes, every loser its refund and its  *)
(* participation, and the seller all that nobody won, masters included,    *)
(* save a master of which nobody could have a print: it stays when there   *)
(* are more bids than get_max_bids_allowed_before_removal_is_stopped.      *)
Stranded(i) ==
  /\ chain.uncancelled > BidsAllowed(i)
  /\ \A b \in Bidders : IF IsPrint(i) THEN ShareOf(i, b) = 0 ELSE ~GetsParticipation(chain, b)

Delivered ==
  /\ \A i \in Transfers, h \in Holders : chain.got[i][h] = ShareOf(i, h)
  /\ \A i \in Masters : /\ chain.store[i] = 0 \/ Stranded(i)
                        /\ \A b \in Bidders : chain.got[i][b] >= Promised(i, b)
  /\ chain.pots = {}

AllDelivered == <>[]Delivered

(* metaplex state.rs: "You can only redeem Token Only Transfers one time   *)
(* per mint", "You can redeem Participation only once per mint".  Refuted: *)
(* the bit is forgotten when the ticket is saved in the other layout.      *)
OncePerMint ==
  \A b \in Bidders : \A i \in Orders \ {j \in Orders : IsPrint(j)} :
    chain.got[i][b] <= IF IsParticipation(i) THEN 1 ELSE ShareOf(i, b)

(* redeem_unused_winning_config_items_as_auctioneer.rs: "We also still     *)
(* make sure this prize hasnt been claimed more than once."  Refuted: no   *)
(* ticket is kept, and the store still has what others have won.           *)
UnusedOnce == \A i \in Transfers : chain.got[i][Seller] <= ShareOf(i, Seller)

=============================================================================
