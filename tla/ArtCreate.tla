------------------------------- MODULE ArtCreate -------------------------------
(***************************************************************************)
(* A seller makes an artwork and prints editions of it: the pages of       *)
(* artCreate/index.tsx, mintNFT of nft.tsx behind the waiting page, and    *)
(* the print dialog ArtMinting with mintEditionsToWallet, open in several  *)
(* tabs.  The other creators of an artwork approve it on their own pages   *)
(* (sendSignMetadata).                                                     *)
(*                                                                         *)
(* Names, texts, files' contents and costs are left out; the storage       *)
(* service gives a manifest or none.                                       *)
(***************************************************************************)
EXTENDS TokenMetadata

CONSTANTS
  Others,       \* the other creators that can be chosen
  Amounts,      \* the shares the seller may type
  Supplies,     \* the maximum supplies the seller may type
  Tabs,         \* the pages with the print dialog
  MaxArts,      \* bound on the artworks
  MaxPrints,    \* bound on the editions of one order, within one batch of ten
  MaxEdition,   \* bound on the numbers of editions
  MaxStrays     \* bound on the uses of the browser's buttons

ASSUME ArtCreateAssumption ==
  /\ Seller \notin Others
  /\ Amounts \subseteq 0..100 /\ Supplies \subseteq Nat
  /\ {MaxArts, MaxEdition, MaxStrays} \subseteq Nat /\ MaxPrints \in 1..10

VARIABLES
  step,        \* the step of the URL
  max,         \* attributes.properties.maxSupply
  creators,    \* attributes.creators
  royalties,   \* RoyaltiesStep's own state: who gets which share
  jobs,        \* the running calls of mintNFT
  arts,        \* the artworks on chain
  mints,       \* of each artwork: its mint
  tabs,        \* of each tab: the supply it read, the editions left to send
  strays

vars == <<step, max, creators, royalties, jobs, arts, mints, tabs, strays>>
page == <<step, max, creators, royalties>>

NoTab == [read |-> 0, todo |-> <<>>, failed |-> FALSE]

Init ==
  /\ step = 0 /\ max = NoLimit
  /\ creators = <<>> /\ royalties = <<>>
  /\ jobs = <<>> /\ arts = <<>> /\ mints = <<>> /\ tabs = [t \in Tabs |-> NoTab] /\ strays = 0

(***************************************************************************)
(*                                The pages                                *)
(***************************************************************************)
Split(people) == [i \in DOMAIN people |-> [who |-> people[i], share |-> 100 \div Len(people)]]

(* mintNFT is called with what the page holds.                             *)
Job == [pc |-> "pay", creators |-> creators, max |-> max, art |-> 0]

(* The page is left alone when no other artwork fits in the bound.         *)
Open == Len(jobs) < MaxArts

(* Step n comes up: the royalties page forgets its own state, the waiting  *)
(* page mints as it mounts.                                                *)
gotoStep(n) ==
  /\ n # step /\ Open
  /\ step' = n
  /\ royalties' = IF n = 3 THEN Split(<<Seller>>) ELSE royalties
  /\ jobs' = IF n = 5 THEN Append(jobs, Job) ELSE jobs
  /\ UNCHANGED <<arts, mints, tabs>>

CategoryStep == step = 0 /\ gotoStep(1) /\ UNCHANGED <<max, creators, strays>>

(* The files are in the uploader's state and in the job.                   *)
UploadStep == step = 1 /\ gotoStep(2) /\ UNCHANGED <<max, creators, strays>>

InfoStep(n) == step = 2 /\ gotoStep(3) /\ max' = n /\ UNCHANGED <<creators, strays>>

(* Choosing creators, the seller's own name among them, splits anew.       *)
UserSearch(people) ==
  /\ step = 3 /\ Open
  /\ royalties' = Split(<<Seller>> \o people)
  /\ UNCHANGED <<step, max, creators, jobs, arts, mints, tabs, strays>>

RoyaltiesSplitter(who, amount) ==
  /\ step = 3 /\ Open /\ \E i \in DOMAIN royalties : royalties[i].who = who
  /\ royalties' = [i \in DOMAIN royalties |->
                     IF royalties[i].who = who THEN [royalties[i] EXCEPT !.share = amount]
                                               ELSE royalties[i]]
  /\ UNCHANGED <<step, max, creators, jobs, arts, mints, tabs, strays>>

SharesFit == (\A i \in DOMAIN royalties : royalties[i].share # 0) /\ Shares(royalties) = 100

RoyaltiesStep ==
  /\ step = 3 /\ SharesFit /\ gotoStep(4)
  /\ creators' = [i \in DOMAIN royalties |->
                    Creator(royalties[i].who, royalties[i].who = Seller, royalties[i].share)]
  /\ UNCHANGED <<max, strays>>

LaunchStep == step = 4 /\ gotoStep(5) /\ UNCHANGED <<max, creators, strays>>

Back == step \in 1..4 /\ gotoStep(step - 1) /\ UNCHANGED <<max, creators, strays>>

(* The browser's buttons and the address line.                             *)
Browser(n) ==
  /\ strays < MaxStrays /\ gotoStep(n) /\ strays' = strays + 1
  /\ UNCHANGED <<max, creators>>

(***************************************************************************)
(*                                 mintNFT                                 *)
(***************************************************************************)
Mine(j, pc) == j \in DOMAIN jobs /\ jobs[j].pc = pc
Goes(j, pc) == jobs' = [jobs EXCEPT ![j].pc = pc]

(* A mutation of the next one: the token is minted at once.                *)
TokenFirst(j) ==
  <<prepPayForFilesTxn>> \o createMintAndAccountWithOne \o <<createMetadata(jobs[j].creators)>>

(* The two transactions of an artwork.  The link is blank in the first.    *)
FirstPack(j) ==
  <<prepPayForFilesTxn, createMint, createAssociatedTokenAccountInstruction,
    createMetadata(jobs[j].creators)>>

SecondPack(j) ==
  <<updateMetadata(jobs[j].creators), createMintToInstruction, createMasterEdition(jobs[j].max)>>

PayAndCreate(j) ==
  LET s == Transact(NoArt, NoMint, FirstPack(j))
  IN /\ Mine(j, "pay") /\ s.ok
     /\ arts' = Append(arts, s.art) /\ mints' = Append(mints, s.mint)
     /\ jobs' = [jobs EXCEPT ![j].pc = "upload", ![j].art = Len(arts) + 1]
     /\ UNCHANGED <<page, tabs, strays>>

(* An exception in a transaction or in the upload: the page waits on.      *)
Throws(j) ==
  /\ j \in DOMAIN jobs /\ jobs[j].pc \in {"pay", "upload", "update"}
  /\ Goes(j, "stuck")
  /\ UNCHANGED <<page, arts, mints, tabs, strays>>

uploadFile(j) ==
  /\ Mine(j, "upload")
  /\ \E manifest \in BOOLEAN : Goes(j, IF manifest THEN "update" ELSE "done")
  /\ UNCHANGED <<page, arts, mints, tabs, strays>>

(* The link, the token and the master edition.  The transaction may land   *)
(* after the page gave it up.                                              *)
Finish(j) ==
  LET a == jobs[j].art
      s == Transact(arts[a], mints[a], SecondPack(j))
  IN /\ Mine(j, "update") /\ s.ok
     /\ arts' = [arts EXCEPT ![a] = s.art] /\ mints' = [mints EXCEPT ![a] = s.mint]
     /\ Goes(j, "done") \/ Goes(j, "stuck")
     /\ UNCHANGED <<page, tabs, strays>>

(* The waiting page that called goes to the congratulations, with or       *)
(* without an artwork.                                                     *)
WaitingStep(j) ==
  /\ Mine(j, "done")
  /\ step' = 6
  /\ Goes(j, "shown")
  /\ UNCHANGED <<max, creators, royalties, arts, mints, tabs, strays>>

(* A chosen creator approves the artwork on the art page or from the       *)
(* notifications.                                                          *)
sendSignMetadata(a, who) ==
  LET s == Transact(arts[a], mints[a], <<signMetadata(who)>>)
  IN /\ ~Verified(arts[a].creators, who) /\ s.ok
     /\ arts' = [arts EXCEPT ![a] = s.art]
     /\ UNCHANGED <<page, jobs, mints, tabs, strays>>

(***************************************************************************)
(*                                Editions                                 *)
(***************************************************************************)
mintEditionsToWallet(t, n) == [i \in 1..n |-> tabs[t].read + i]

(* A tab orders n prints of the first artwork, numbered from the supply it *)
(* read when it was opened.                                                *)
ArtMinting(t, n) ==
  /\ arts # <<>> /\ arts[1].master /\ tabs[t].todo = <<>>
  /\ tabs[t].read + n <= MaxEdition
  /\ arts[1].max # NoLimit => tabs[t].read + n <= arts[1].max
  /\ tabs' = [tabs EXCEPT ![t].todo = mintEditionsToWallet(t, n), ![t].failed = FALSE]
  /\ UNCHANGED <<page, jobs, arts, mints, strays>>

(* The tab shows the artwork as it is on chain by now.                     *)
ReadArt(t) ==
  /\ arts # <<>> /\ tabs[t].todo = <<>> /\ tabs[t].read # arts[1].supply
  /\ tabs' = [tabs EXCEPT ![t].read = arts[1].supply]
  /\ UNCHANGED <<page, jobs, arts, mints, strays>>

setupMintEditionIntoWalletInstructions(n) ==
  Append(createMintAndAccountWithOne, mintNewEditionFromMasterEditionViaToken(n))

(* The next transaction of an order of one batch.  It prints or is refused *)
(* or lost, and one that prints may be given up for lost; the order stops  *)
(* at its second failure (sendTransactions with StopOnFailure).            *)
SendNext(t) ==
  LET s == Transact(arts[1], NoMint, setupMintEditionIntoWalletInstructions(Head(tabs[t].todo)))
      failed == [tabs EXCEPT ![t].todo = IF tabs[t].failed THEN <<>> ELSE Tail(@),
                             ![t].failed = TRUE]
  IN /\ tabs[t].todo # <<>>
     /\ \/ /\ s.ok /\ arts' = [arts EXCEPT ![1] = s.art]
           /\ tabs' \in {failed, [tabs EXCEPT ![t].todo = Tail(@)]}
        \/ tabs' = failed /\ UNCHANGED arts
     /\ UNCHANGED <<page, jobs, mints, strays>>

Candidates == {p \in SeqOf(Others \cup {Seller}, 2) : IsInjective(p)}

Next ==
  \/ CategoryStep \/ UploadStep
  \/ \E n \in Supplies \cup {NoLimit} : InfoStep(n)
  \/ \E people \in Candidates : UserSearch(people)
  \/ \E who \in Others \cup {Seller}, n \in Amounts : RoyaltiesSplitter(who, n)
  \/ RoyaltiesStep \/ LaunchStep \/ Back
  \/ \E n \in 0..6 : Browser(n)
  \/ \E j \in DOMAIN jobs :
       PayAndCreate(j) \/ Throws(j) \/ uploadFile(j) \/ Finish(j) \/ WaitingStep(j)
  \/ \E a \in DOMAIN arts, who \in Others : sendSignMetadata(a, who)
  \/ \E t \in Tabs : ReadArt(t) \/ SendNext(t)
  \/ \E t \in Tabs, n \in 1..MaxPrints : ArtMinting(t, n)

Spec == Init /\ [][Next]_vars

(***************************************************************************)
(*                               Properties                                *)
(***************************************************************************)
(* What a creator approved stays approved: the update with the link, which *)
(* was put together before the approval, never takes it back               *)
(* (assert_data_valid).                                                    *)
ApprovalsStay ==
  [][\A a \in DOMAIN arts, who \in Others :
       Verified(arts[a].creators, who) => Verified(arts'[a].creators, who)]_vars

(* However the orders of several tabs race, a number is printed once and   *)
(* the supply covers every number given, within the maximum.               *)
EditionsOnce ==
  \A a \in DOMAIN arts :
    /\ IsInjective(arts[a].prints)
    /\ \A i \in DOMAIN arts[a].prints : arts[a].prints[i] <= arts[a].supply
    /\ arts[a].max # NoLimit => arts[a].supply <= arts[a].max

(* Whatever is refused, given up for lost or approved in between, the      *)
(* wallet never holds the token of a half-made artwork: it has its link,   *)
(* its master edition, and no second token can come.                       *)
TokensAreWhole ==
  \A a \in DOMAIN arts : mints[a].tokens > 0 =>
    mints[a].tokens = 1 /\ mints[a].authority = "edition" /\ arts[a].link /\ arts[a].master
================================================================================
