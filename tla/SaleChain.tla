------------------------------ MODULE SaleChain ------------------------------
(***************************************************************************)
(* The part of the chain that a sale is set up on: the token vault program *)
(* that holds the items, the auction program's auction and the metaplex    *)
(* program's auction manager, for one sale.  An instruction is a record;   *)
(* Allowed is what its handler checks, Do what it writes, and a            *)
(* transaction applies all of its instructions or none.                    *)
(***************************************************************************)
EXTENDS Naturals, Sequences, SequencesExt, FiniteSets

CONSTANTS
  Kind,     \* for each item put up for sale, its winning config type
  Foreign   \* items that the seller did not make and has not marked as sold

Kinds == {"FullRightsTransfer", "TokenOnlyTransfer", "PrintingV2", "Participation"}
Items == DOMAIN Kind
Parties == {"seller", "manager"}

ASSUME SaleAssumption ==
  /\ Kind \in Seq(Kinds)
  /\ Kind # <<>>
  /\ Foreign \subseteq {i \in Items : Kind[i] # "Participation"}

(* An item's place in the list of drafts is the order its config names.    *)
Chains == [
  price : BOOLEAN,                     \* the external price account
  sold : SUBSET Items,                 \* metadata marked: primary sale happened
  vault : {"none", "Inactive", "Active", "Combined", "Deactivated"},
  vaultAuthority : Parties,
  boxes : Seq(Items),                  \* safety deposit boxes in their order
  stored : SUBSET Items,               \* whose stores hold the token
  auction : {"none", "Created", "Started", "Ended"},
  auctionAuthority : Parties,
  status : {"none", "Initialized", "Validated", "Running", "Disbursing"},
  validated : Nat,                     \* safety_config_items_validated
  configs : SUBSET Items,              \* safety deposit configs made
  participation : BOOLEAN,             \* has_participation
  updater : [Items -> Parties] ]       \* the metadata's update authority

Genesis == [
  price |-> FALSE, sold |-> {}, vault |-> "none", vaultAuthority |-> "seller",
  boxes |-> <<>>, stored |-> {}, auction |-> "none", auctionAuthority |-> "seller",
  status |-> "none", validated |-> 0, configs |-> {}, participation |-> FALSE,
  updater |-> [i \in Items |-> "seller"] ]

-----------------------------------------------------------------------------
(* The instructions, by the functions that build them.                     *)

updatePrimarySaleHappenedViaToken(i) == [ix |-> "markSold", item |-> i]
updateExternalPriceAccount == [ix |-> "price"]
initVault == [ix |-> "initVault"]
addTokenToInactiveVault(i) == [ix |-> "addToken", item |-> i]
activateVault == [ix |-> "activate"]
combineVault == [ix |-> "combine"]
withdrawTokenFromSafetyDepositBox(i) == [ix |-> "withdraw", item |-> i]
setVaultAuthority == [ix |-> "vaultAuthority"]
createAuction == [ix |-> "createAuction"]
setAuctionAuthority == [ix |-> "auctionAuthority"]
initAuctionManagerV2 == [ix |-> "initManager"]
validateSafetyDepositBoxV2(i) == [ix |-> "validate", item |-> i]
startAuction == [ix |-> "start"]
decommissionAuctionManager == [ix |-> "decommission"]

Instructions ==
  {updateExternalPriceAccount, initVault, activateVault, combineVault, setVaultAuthority,
   createAuction, setAuctionAuthority, initAuctionManagerV2, startAuction,
   decommissionAuctionManager}
  \union UNION {{updatePrimarySaleHappenedViaToken(i), addTokenToInactiveVault(i),
                 withdrawTokenFromSafetyDepositBox(i), validateSafetyDepositBoxV2(i)} : i \in Items}

-----------------------------------------------------------------------------
(* What the handlers check.  The seller signs every instruction.           *)

MayAdd(c, i) == c.vault = "Inactive" /\ i \notin ToSet(c.boxes) /\ i \notin c.stored
MayWithdraw(c, i) ==
  c.vault = "Combined" /\ c.vaultAuthority = "seller" /\ i \in c.stored
MayInit(c) ==
  /\ c.status = "none"
  /\ c.auction = "Created"
  /\ c.vault = "Combined" /\ c.boxes # <<>>

(* A mutation of the next one: a box may be validated a second time.       *)
MayValidateAgain(c, i) ==
  /\ c.status # "none" /\ c.vaultAuthority = "manager" /\ i \in c.stored
  /\ Kind[i] = "FullRightsTransfer" => c.updater[i] = "seller"
  /\ Kind[i] = "Participation" => ~c.participation

(* The box is in the vault at the config's order and has its token; a sale *)
(* with full rights needs the update authority, and one item only may be   *)
(* the participation prize.                                                *)
MayValidate(c, i) ==
  /\ c.status # "none" /\ c.vaultAuthority = "manager"
  /\ i \notin c.configs
  /\ i \in DOMAIN c.boxes /\ c.boxes[i] = i /\ i \in c.stored
  /\ Kind[i] = "FullRightsTransfer" => c.updater[i] = "seller"
  /\ Kind[i] = "Participation" => ~c.participation

MayDecommission(c) ==
  /\ c.status = "Initialized"
  /\ c.auctionAuthority = "manager" /\ c.vaultAuthority = "manager"
  /\ c.auction \in {"Created", "Started"}

Allowed(c, x) ==
  CASE x.ix = "markSold"         -> x.item \notin c.stored
    [] x.ix = "price"            -> ~c.price
    [] x.ix = "initVault"        -> c.vault = "none" /\ c.price
    [] x.ix = "addToken"         -> MayAdd(c, x.item)
    [] x.ix = "activate"         -> c.vault = "Inactive" /\ c.vaultAuthority = "seller"
    [] x.ix = "combine"          -> c.vault = "Active" /\ c.vaultAuthority = "seller"
    [] x.ix = "withdraw"         -> MayWithdraw(c, x.item)
    [] x.ix = "vaultAuthority"   -> c.vaultAuthority = "seller" /\ c.status # "none"
    [] x.ix = "createAuction"    -> c.auction = "none"
    [] x.ix = "auctionAuthority" -> c.auctionAuthority = "seller" /\ c.status # "none"
    [] x.ix = "initManager"      -> MayInit(c)
    [] x.ix = "validate"         -> MayValidate(c, x.item)
    [] x.ix = "start"            -> c.status = "Validated" /\ c.auctionAuthority = "manager"
                                    /\ c.auction = "Created"
    [] x.ix = "decommission"     -> MayDecommission(c)

(* What they write.                                                        *)

(* The count that reaches zero is the only one written back.               *)
Withdraw(c, i) ==
  [c EXCEPT !.stored = @ \ {i},
            !.vault = IF Len(c.boxes) = 1 THEN "Deactivated" ELSE @]

Validate(c, i) ==
  [c EXCEPT !.configs = @ \union {i},
            !.validated = @ + 1,
            !.participation = @ \/ Kind[i] = "Participation",
            !.updater[i] = IF Kind[i] = "FullRightsTransfer" THEN "manager" ELSE @,
            !.status = IF c.validated + 1 = Len(c.boxes) THEN "Validated" ELSE @]

Decommission(c) ==
  [c EXCEPT !.auction = "Ended", !.vaultAuthority = "seller", !.status = "Disbursing"]

Do(c, x) ==
  CASE x.ix = "markSold"         -> [c EXCEPT !.sold = @ \union {x.item}]
    [] x.ix = "price"            -> [c EXCEPT !.price = TRUE]
    [] x.ix = "initVault"        -> [c EXCEPT !.vault = "Inactive"]
    [] x.ix = "addToken"         -> [c EXCEPT !.boxes = Append(@, x.item),
                                              !.stored = @ \union {x.item}]
    [] x.ix = "activate"         -> [c EXCEPT !.vault = "Active"]
    [] x.ix = "combine"          -> [c EXCEPT !.vault = "Combined"]
    [] x.ix = "withdraw"         -> Withdraw(c, x.item)
    [] x.ix = "vaultAuthority"   -> [c EXCEPT !.vaultAuthority = "manager"]
    [] x.ix = "createAuction"    -> [c EXCEPT !.auction = "Created"]
    [] x.ix = "auctionAuthority" -> [c EXCEPT !.auctionAuthority = "manager"]
    [] x.ix = "initManager"      -> [c EXCEPT !.status = "Initialized"]
    [] x.ix = "validate"         -> Validate(c, x.item)
    [] x.ix = "start"            -> [c EXCEPT !.status = "Running", !.auction = "Started"]
    [] x.ix = "decommission"     -> Decommission(c)

(* A transaction: the chain and whether it went through, after each of its *)
(* instructions.                                                           *)
Apply(c, tx) ==
  LET upTo[n \in 0..Len(tx)] ==
        IF n = 0 THEN [chain |-> c, ok |-> TRUE]
        ELSE LET r == upTo[n - 1]
             IN IF r.ok /\ Allowed(r.chain, tx[n])
                THEN [chain |-> Do(r.chain, tx[n]), ok |-> TRUE]
                ELSE [chain |-> c, ok |-> FALSE]
  IN upTo[Len(tx)]

Executable(c, tx) == Apply(c, tx).ok
Execute(c, tx) == Apply(c, tx).chain

-----------------------------------------------------------------------------
(* An auction that may be bid on offers what the seller put up: every box  *)
(* of the vault was validated once, at its own order, holds its token, and *)
(* is out of the seller's hands.                                           *)
SaleComplete(c) ==
  c.status \in {"Validated", "Running"} =>
    /\ c.configs = ToSet(c.boxes)
    /\ c.boxes = [i \in DOMAIN c.boxes |-> i]
    /\ c.configs \subseteq c.stored
    /\ c.vault = "Combined" /\ c.vaultAuthority = "manager"

=============================================================================
