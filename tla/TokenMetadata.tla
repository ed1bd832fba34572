----------------------------- MODULE TokenMetadata -----------------------------
(***************************************************************************)
(* Transactions over an artwork: the instructions that the builders of     *)
(* metadata.ts and account.ts put together, and what the token metadata    *)
(* program (external: the token program too) does with each of them.  A    *)
(* transaction runs all of its instructions or none.                       *)
(*                                                                         *)
(* A transaction sees an artwork and one mint: the mint it makes, or the   *)
(* mint of the artwork itself.                                             *)
(***************************************************************************)
EXTENDS Integers, Sequences, SequencesExt, FiniteSets, FiniteSetsExt, Functions

CONSTANTS Seller,     \* the wallet: update authority, owner and payer
          NoLimit     \* the maximum supply of an open edition

ASSUME NoLimitAssumption == NoLimit \notin Nat

(***************************************************************************)
(*                     The artwork and its creators                        *)
(***************************************************************************)
Creator(who, verified, share) == [who |-> who, verified |-> verified, share |-> share]

(* authority: who may mint more; account: the owner has a token account.   *)
NoMint == [made |-> FALSE, authority |-> "wallet", account |-> FALSE, tokens |-> 0]

(* The metadata, and the master edition with the numbers of its prints.    *)
NoArt == [made |-> FALSE, creators |-> <<>>, link |-> FALSE,
          master |-> FALSE, max |-> NoLimit, supply |-> 0, prints |-> <<>>]

Shares(creators) == FoldLeft(LAMBDA n, c : n + c.share, 0, creators)

Verified(creators, who) == \E i \in DOMAIN creators : creators[i].who = who /\ creators[i].verified

(***************************************************************************)
(*                        The instructions' builders                       *)
(***************************************************************************)
Op(op) == [op |-> op]

(* The price of the files and a memo with the hash of each.                *)
prepPayForFilesTxn == Op("pay")

createMint == Op("createMint")
createAssociatedTokenAccountInstruction == Op("createAccount")
createMintToInstruction == Op("mintTo")
createMetadata(creators) == [op |-> "createMetadata", creators |-> creators]
updateMetadata(creators) == [op |-> "updateMetadata", creators |-> creators]
createMasterEdition(max) == [op |-> "createMasterEdition", max |-> max]
signMetadata(who) == [op |-> "signMetadata", who |-> who]
mintNewEditionFromMasterEditionViaToken(n) == [op |-> "mintNewEdition", number |-> n]

createMintAndAccountWithOne ==
  <<createMint, createAssociatedTokenAccountInstruction, createMintToInstruction>>

(***************************************************************************)
(*                 What a program asks of an instruction                   *)
(***************************************************************************)
(* A mutation of the next one: an approval can be taken back by an update. *)
VerifiesOnly(new, old) == \A i \in DOMAIN new :
  new[i].who # Seller /\ new[i].verified => Verified(old, new[i].who)

(* Nobody but its owner changes whether a creator approved.                *)
KeepsApprovals(new, old) == \A i \in DOMAIN new :
  new[i].who # Seller => (new[i].verified <=> Verified(old, new[i].who))

assert_data_valid(new, old) ==
  /\ new # <<>>
  /\ \A i, j \in DOMAIN new : new[i].who = new[j].who => i = j
  /\ \E i \in DOMAIN new : new[i].who = Seller
  /\ KeepsApprovals(new, old)
  /\ Shares(new) = 100

SupplyAfter(art, n) == Max({n, art.supply})

(* By itself a mutation of the next one: the marker is not looked at.      *)
WithinSupply(art, n) == art.max # NoLimit => SupplyAfter(art, n) <= art.max

MayNumber(art, n) == n \notin ToSet(art.prints) /\ WithinSupply(art, n)

(* "mintTo" and what follows it hold of a mint that the wallet still rules.*)
Rules(s) == s.mint.made /\ s.mint.authority = "wallet"

MayProcess(s, i) ==
  CASE i.op = "pay" -> TRUE
    [] i.op = "createMint" -> ~s.mint.made
    [] i.op = "createAccount" -> s.mint.made /\ ~s.mint.account
    [] i.op = "mintTo" -> Rules(s) /\ s.mint.account
    [] i.op = "createMetadata" -> Rules(s) /\ ~s.art.made /\ assert_data_valid(i.creators, <<>>)
    [] i.op = "updateMetadata" -> s.art.made /\ assert_data_valid(i.creators, s.art.creators)
    [] i.op = "createMasterEdition" -> Rules(s) /\ s.art.made /\ ~s.art.master /\ s.mint.tokens = 1
    [] i.op = "signMetadata" -> \E j \in DOMAIN s.art.creators : s.art.creators[j].who = i.who
    [] i.op = "mintNewEdition" -> Rules(s) /\ s.art.master /\ s.mint.tokens = 1 /\ MayNumber(s.art, i.number)

(***************************************************************************)
(*                              What it does                               *)
(***************************************************************************)
process_sign_metadata(creators, who) ==
  [j \in DOMAIN creators |->
     IF creators[j].who = who /\ \A k \in 1..j - 1 : creators[k].who # who
     THEN [creators[j] EXCEPT !.verified = TRUE] ELSE creators[j]]

(* There will be no other token of an edition, master or print.            *)
transfer_mint_authority(s) == [s EXCEPT !.mint.authority = "edition"]

Processed(s, i) ==
  CASE i.op = "pay" -> s
    [] i.op = "createMint" -> [s EXCEPT !.mint.made = TRUE]
    [] i.op = "createAccount" -> [s EXCEPT !.mint.account = TRUE]
    [] i.op = "mintTo" -> [s EXCEPT !.mint.tokens = @ + 1]
    [] i.op = "createMetadata" -> [s EXCEPT !.art = [NoArt EXCEPT !.made = TRUE, !.creators = i.creators]]
    [] i.op = "updateMetadata" -> [s EXCEPT !.art.creators = i.creators, !.art.link = TRUE]
    [] i.op = "createMasterEdition" ->
         transfer_mint_authority([s EXCEPT !.art.master = TRUE, !.art.max = i.max])
    [] i.op = "signMetadata" -> [s EXCEPT !.art.creators = process_sign_metadata(@, i.who)]
    [] i.op = "mintNewEdition" ->
         transfer_mint_authority([s EXCEPT !.art.prints = Append(@, i.number),
                                           !.art.supply = SupplyAfter(s.art, i.number)])

(* An instruction that is refused takes the whole transaction with it.     *)
Run(s, i) == IF s.ok /\ MayProcess(s, i) THEN Processed(s, i) ELSE [s EXCEPT !.ok = FALSE]

Transact(art, mint, instructions) ==
  LET after[n \in 0..Len(instructions)] ==
        IF n = 0 THEN [ok |-> TRUE, art |-> art, mint |-> mint]
        ELSE Run(after[n - 1], instructions[n])
  IN after[Len(instructions)]
================================================================================
