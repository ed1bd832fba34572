------------------------------ MODULE SaleSetup ------------------------------
(***************************************************************************)
(* A seller puts items up for sale (createAuctionManager.ts) and, when the *)
(* creation did not go through, takes them back or starts the auction by   *)
(* hand from the notifications of the page (Notifications, unwindVault,    *)
(* decommAuctionManagerAndReturnPrizes, startAuctionManually), perhaps     *)
(* while the creation is still running in another tab.                     *)
(*                                                                         *)
(* The sender is TxSender's, at the grain of one step per transaction: a   *)
(* pass goes on after its first failure and ends at its second, and the    *)
(* loop sends again from the first one.                                    *)
(***************************************************************************)
EXTENDS SaleChain, Passes

CONSTANTS
  MaxFaults,   \* bound: transactions lost or late, and refusals to sign
  Hasty        \* bound: with how many of them the seller may press a
               \* notification before the creation is over

ASSUME SetupAssumption == MaxFaults \in Nat /\ Hasty \subseteq 0..MaxFaults

Tabs == {"create", "mend"}

VARIABLES
  chain,    \* the accounts, as in SaleChain
  tab,      \* for each tab, what it is sending
  late,     \* transactions given up that may still land
  faults,   \* how many of MaxFaults have happened
  skipped,  \* history: a round that threw kept the stop of an earlier one
  hasty     \* history: a notification was pressed before the creation was over

vars == <<chain, tab, late, faults, skipped, hasty>>

-----------------------------------------------------------------------------
(* createAuctionManager: the transactions and their order.                 *)

EachAlone(s) == [k \in DOMAIN s |-> <<s[k]>>]

(* The first transaction of a batched list takes two, the others one each: *)
(* the counter is compared before it is increased.                         *)
InBatches(s) ==
  IF Len(s) < 2 THEN EachAlone(s) ELSE <<SubSeq(s, 1, 2)>> \o EachAlone(SubSeq(s, 3, Len(s)))

SALE_TRANSACTION_SIZE == 10

(* The items are gone through in order; a transaction that is full is put  *)
(* away, and the last one if there is anything in it.                      *)
markItemsThatArentMineAsSold ==
  LET marked[i \in 0..Len(Kind)] ==
        IF i = 0 THEN [open |-> <<>>, txs |-> <<>>]
        ELSE LET m == marked[i - 1]
                 marks == Append(m.open, updatePrimarySaleHappenedViaToken(i))
             IN IF i \notin Foreign THEN m
                ELSE IF Len(marks) = SALE_TRANSACTION_SIZE
                     THEN [open |-> <<>>, txs |-> Append(m.txs, marks)]
                     ELSE [m EXCEPT !.open = marks]
      all == marked[Len(Kind)]
  IN IF all.open = <<>> THEN all.txs ELSE Append(all.txs, all.open)

buildSafetyDepositArray == [i \in Items |-> i]

addTokensToVault ==
  InBatches([k \in DOMAIN buildSafetyDepositArray |->
               addTokenToInactiveVault(buildSafetyDepositArray[k])])

createExternalPriceAccount == <<updateExternalPriceAccount>>
createVault == <<initVault>>
closeVault == <<activateVault, combineVault>>
makeAuction == <<createAuction>>
setupAuctionManagerInstructions == <<initAuctionManagerV2>>
setupStartAuction == <<startAuction>>
setVaultAndAuctionAuthorities == <<setAuctionAuthority, setVaultAuthority>>

validateBoxes ==
  EachAlone([k \in DOMAIN buildSafetyDepositArray |->
               validateSafetyDepositBoxV2(buildSafetyDepositArray[k])])

createAuctionManager ==
  markItemsThatArentMineAsSold
  \o <<createExternalPriceAccount, createVault>>
  \o addTokensToVault
  \o <<closeVault, makeAuction, setupAuctionManagerInstructions, setVaultAndAuctionAuthorities>>
  \o validateBoxes
  \o <<setupStartAuction>>

(* unwindVault: combine the vault if it never was, and empty all its boxes *)
(* whether they still hold anything or not.                                *)
unwindVault(c) ==
  (IF c.vault = "Inactive" THEN <<closeVault>> ELSE <<>>)
  \o InBatches([k \in DOMAIN c.boxes |-> withdrawTokenFromSafetyDepositBox(c.boxes[k])])

decommAuctionManager(c) ==
  << (IF c.auctionAuthority = "seller" THEN <<setAuctionAuthority>> ELSE <<>>)
     \o (IF c.vaultAuthority = "seller" THEN <<setVaultAuthority>> ELSE <<>>)
     \o <<decommissionAuctionManager>> >>

-----------------------------------------------------------------------------
(* A tab.                                                                  *)

Init ==
  /\ chain = Genesis
  /\ tab = [create |-> Start(createAuctionManager, "none"), mend |-> Idle]
  /\ late = {}
  /\ faults = 0
  /\ skipped = FALSE
  /\ hasty = FALSE

Set(t, rec) == tab' = [tab EXCEPT ![t] = rec]

Fault ==
  /\ faults < MaxFaults
  /\ hasty => faults + 1 \in Hasty
  /\ faults' = faults + 1

Sign(t) ==
  /\ tab[t].pc = "round" /\ MoreRounds(tab[t])
  /\ Set(t, [NextRound(tab[t]) EXCEPT !.pc = "sending"])
  /\ UNCHANGED <<chain, late, faults, skipped, hasty>>

(* No blockhash, or the wallet refuses: the round ends where the one       *)
(* before it stopped.                                                      *)
Refuse(t) ==
  /\ tab[t].pc = "round" /\ MoreRounds(tab[t])
  /\ Fault
  /\ Set(t, NextRound(tab[t]))
  /\ skipped' = (skipped \/ tab[t].stop > 0)
  /\ UNCHANGED <<chain, late, hasty>>

(* A mutation of the next one: the creation never says that it failed.     *)
ReportsDone(b) == "created"

Reports(b) == IF b.stop < Len(b.todo) THEN "failed" ELSE "created"

(* The loop is over: the creation reports, the decommission goes on to the *)
(* unwinding with the vault and the boxes the page has.                    *)
Finish(t) ==
  LET b == tab[t]
  IN /\ b.pc = "round" /\ ~MoreRounds(b)
     /\ CASE t = "create" ->
               Set(t, [Idle EXCEPT !.pc = Reports(b)])
          [] t = "mend" /\ b.then = "unwind" -> Set(t, Start(unwindVault(chain), "none"))
          [] OTHER -> Set(t, Idle)
     /\ UNCHANGED <<chain, late, faults, skipped, hasty>>

(* A list of one is sent alone, and its failure is an exception.           *)
Failed(t) ==
  LET b == tab[t]
  IN IF Len(b.todo) = 1
     THEN Set(t, AfterException(b)) /\ skipped' = (skipped \/ b.stop > 0)
     ELSE Set(t, AfterFailure(b)) /\ UNCHANGED skipped

Lands(t) ==
  /\ tab[t].pc = "sending"
  /\ Executable(chain, Current(tab[t]))
  /\ chain' = Execute(chain, Current(tab[t]))
  /\ Set(t, After(tab[t]))
  /\ UNCHANGED <<late, faults, skipped, hasty>>

Refused(t) ==
  /\ tab[t].pc = "sending"
  /\ ~Executable(chain, Current(tab[t]))
  /\ Failed(t)
  /\ UNCHANGED <<chain, late, faults, hasty>>

Lost(t) ==
  /\ tab[t].pc = "sending"
  /\ Fault
  /\ Failed(t)
  /\ late' \in {late, late \union {Current(tab[t])}}
  /\ UNCHANGED <<chain, hasty>>

LandsLate(tx) ==
  /\ tx \in late
  /\ late' = late \ {tx}
  /\ chain' = Execute(chain, tx)
  /\ UNCHANGED <<tab, faults, skipped, hasty>>

-----------------------------------------------------------------------------
(* The notifications.                                                      *)

Creating == tab["create"].pc \notin {"created", "failed"}

Press ==
  /\ tab["mend"].pc = "idle"
  /\ Creating => faults \in Hasty
  /\ hasty' = (hasty \/ Creating)

vaultsNeedUnwinding ==
  /\ chain.vaultAuthority = "seller"
  /\ chain.vault \notin {"none", "Deactivated"}
  /\ chain.boxes # <<>>

Unwind ==
  /\ vaultsNeedUnwinding
  /\ Press
  /\ Set("mend", Start(unwindVault(chain), "none"))
  /\ UNCHANGED <<chain, late, faults, skipped>>

possiblyBrokenAuctionManagerSetups == chain.status = "Initialized" /\ chain.boxes # <<>>

Decommission_ ==
  /\ possiblyBrokenAuctionManagerSetups
  /\ Press
  /\ Set("mend", Start(decommAuctionManager(chain), "unwind"))
  /\ UNCHANGED <<chain, late, faults, skipped>>

upcomingAuctions == chain.auction = "Created" /\ chain.status \notin {"none", "Initialized"}

startAuctionManually ==
  /\ upcomingAuctions
  /\ Press
  /\ chain' = Execute(chain, setupStartAuction)
  /\ UNCHANGED <<tab, late, faults, skipped>>

-----------------------------------------------------------------------------

Sender(t) == Sign(t) \/ Refuse(t) \/ Finish(t) \/ Lands(t) \/ Refused(t) \/ Lost(t)
Notification == Unwind \/ Decommission_ \/ startAuctionManually

(* The creation is over and nothing is left to take back or to start.      *)
Settled ==
  /\ ~Creating
  /\ tab["mend"].pc = "idle"
  /\ ~ENABLED Notification
  /\ late = {}
  /\ UNCHANGED vars

Next ==
  \/ \E t \in Tabs : Sender(t)
  \/ \E tx \in late : LandsLate(tx)
  \/ Notification
  \/ Settled

Spec == Init /\ [][Next]_vars

(* The sender always goes on, and the seller presses a notification again  *)
(* as long as it is shown.                                                 *)
Fairness ==
  /\ \A t \in Tabs : WF_vars(Sender(t))
  /\ SF_vars(Unwind)
  /\ SF_vars(Decommission_)
  /\ SF_vars(startAuctionManually)

FairSpec == Spec /\ Fairness

-----------------------------------------------------------------------------
(* Properties.                                                             *)

(* The sale that opens is the sale that was put up, whatever was lost, sent *)
(* twice or taken back on the way (start_auction.rs, validate_safety_-     *)
(* deposit_box_v2.rs, and the packing of createAuctionManager.ts).         *)
OpensComplete == SaleComplete(chain)

(* A creation reported as done left a sale that is open or can be opened,  *)
(* unless a round threw after an earlier one had stopped.                  *)
CreatedIsReady ==
  tab["create"].pc = "created" /\ ~skipped => chain.status \in {"Validated", "Running"}

(* A creation that went wrong is mended: the sale opens in the end, or the *)
(* seller has every item back, for three items taken back after the        *)
(* creation was over (Notifications/index.tsx and its actions).            *)
ItemsComeBack == <>[](chain.status = "Running" \/ chain.stored = {} \/ hasty)

=============================================================================
