------------------------------ MODULE SaleWizard ------------------------------
(***************************************************************************)
(* The pages on which a seller describes a sale and publishes it:          *)
(* AuctionCreateView of auctionCreate/index.tsx, with the tier table of    *)
(* TierTable.  The step is in the URL, so the browser's own buttons move   *)
(* between the pages too, and reloading keeps the step and forgets the     *)
(* answers.  The artworks are the drafts of useUserArts.                   *)
(*                                                                         *)
(* Prices, durations and ticks are one number, terms, that each change     *)
(* makes a new one; createAuction only translates them.  Of the dates it   *)
(* is told whether they are set.                                           *)
(***************************************************************************)
EXTENDS TierTable

CONSTANTS
  Winners,      \* the winner counts the seller may type
  Copies,       \* the numbers of copies the seller may type
  MaxTiers,     \* bound on the tiers of the table
  MaxEntries,   \* bound on the entries of the table
  MaxEdits,     \* bound on the changes of an answer or of an entry
  MaxMoves,     \* bound on page moves and changes together
  MaxStrays,    \* bound on the uses of the browser's buttons
  StrayEdits    \* bound on the changes where they are used

ASSUME WizardAssumption ==
  /\ Winners \subseteq 1..10      \* sort() orders spots as strings: below ten only
  /\ Copies \subseteq Nat \ {0}
  /\ {MaxTiers, MaxEntries, MaxEdits, MaxMoves, MaxStrays, StrayEdits} \subseteq Nat

VARIABLES
  ans,         \* attributes: category, items, editions, winnersCount, terms, ...
  table,       \* tieredAttributes and the boxes shown
  step,        \* the step of the URL
  modal,       \* the open ArtSelector: a page's, a cell <<tier, entry>>, or none
  phase,       \* what the initial phase shows: start now, list now
  visible,     \* stepsVisible
  tally,       \* history: presses of "Publish Auction" less sales published
  waiting,     \* the steps that running publications will go to
  published,   \* the calls of createAuctionManager
  edits, moves, strays

wizardVars == <<ans, table, step, modal, phase, visible, tally, waiting, published, edits, moves, strays>>

Pages == [
  Limited |-> <<"Category", "Copies", "SaleType", "Price", "Initial", "Ending",
                "Participation", "Review", "Publish", "Congrats">>,
  Single  |-> <<"Category", "Copies", "Price", "Initial", "Ending",
                "Participation", "Review", "Publish", "Congrats">>,
  Open    |-> <<"Category", "Copies", "Price", "Initial", "Ending",
                "Review", "Publish", "Congrats">>,
  Tiered  |-> <<"Category", "Winners", "Tiers", "Price", "Initial", "Ending",
                "Participation", "Review", "Publish", "Congrats">>]

(* A step beyond the category's pages shows nothing at all.                *)
PageAt(category, n) == IF n < Len(Pages[category]) THEN Pages[category][n + 1] ELSE "none"
Page == PageAt(ans.category, step)

NoAnswers == [category |-> "Open", sel |-> 0, editions |-> 0, winners |-> 1, terms |-> 0,
              part |-> 0, startSale |-> FALSE, startList |-> FALSE]

None == <<>>

(* The tally is kept while the seller uses the pages' own buttons, which   *)
(* is so again from a press made while no earlier publication is running.  *)
Tally(n) == [on |-> TRUE, owed |-> n]
NoTally == [on |-> FALSE, owed |-> 0]
Pressed == IF tally.on \/ waiting = <<>> THEN Tally(tally.owed + 1) ELSE NoTally

WizardInit ==
  /\ ans = NoAnswers /\ table = NewTable /\ step = 0 /\ modal = None
  /\ phase = [now |-> TRUE, listNow |-> TRUE] /\ visible = TRUE
  /\ tally = Tally(0) /\ waiting = <<>> /\ published = {}
  /\ edits = 0 /\ moves = 0 /\ strays = 0

(***************************************************************************)
(*                             createAuction                               *)
(***************************************************************************)
CopiesOr1(a) == IF a.editions = 0 THEN 1 ELSE a.editions

(* An existing item goes with its rights when the seller has them.         *)
SingleType(a) == IF Arts[a].edition = "none" THEN DraftType(a)
                 ELSE IF Arts[a].own THEN "FullRightsTransfer" ELSE "TokenOnlyTransfer"

Deposit(a, type, ranges) == [art |-> a, type |-> type, ranges |-> ranges]

(* What createAuctionManager is called with; 0 winners stand for no limit. *)
Sale(a, tt) ==
  CASE a.category = "Open" -> [winners |-> 0, items |-> <<>>, part |-> a.sel, terms |-> a.terms]
    [] a.category = "Limited" ->
         [winners |-> CopiesOr1(a), part |-> a.part, terms |-> a.terms,
          items |-> IF a.sel = 0 THEN <<>>
                    ELSE <<Deposit(a.sel, DraftType(a.sel), <<AmountRange(1, CopiesOr1(a))>>)>>]
    [] a.category = "Single" ->
         [winners |-> 1, part |-> a.part, terms |-> a.terms,
          items |-> IF a.sel = 0 THEN <<>>
                    ELSE <<Deposit(a.sel, SingleType(a.sel), <<AmountRange(1, 1)>>)>>]
    [] a.category = "Tiered" ->
         [winners |-> a.winners, part |-> a.part, terms |-> a.terms,
          items |-> [k \in DOMAIN tt.items |->
                       Deposit(tt.items[k], TypeNow(tt, k), RangesOf(tt, k))]]

(* Entries without an artwork are dropped from the table itself.           *)
Swept(a, tt) == IF a.category # "Tiered" THEN tt
                ELSE [tt EXCEPT !.tiers = [t \in DOMAIN @ |-> Typed(@[t])]]

(***************************************************************************)
(*                          Going from page to page                        *)
(***************************************************************************)
(* The initial phase always opens on "Immediately" and writes that back,   *)
(* but its two effects write over each other: with both dates set the      *)
(* start stays.                                                            *)
OpenInitial(a) == [a EXCEPT !.startSale = a.startSale /\ a.startList, !.startList = FALSE]

(* Step n comes up with answers a and table tt: WaitingStep publishes as   *)
(* it mounts and will go to the step after the one it was mounted at.      *)
Show(n, a, tt, count, wait) ==
  LET page == PageAt(a.category, n)
      moved == n # step \/ page # Page
      publish == moved /\ page = "Publish"
  IN /\ moves + edits < MaxMoves /\ moves' = moves + 1
     /\ step' = n
     /\ modal' = IF moved THEN None ELSE modal
     /\ phase' = IF moved THEN [now |-> TRUE, listNow |-> TRUE] ELSE phase
     /\ ans' = IF moved /\ page = "Initial" THEN OpenInitial(a) ELSE a
     /\ table' = IF publish THEN Swept(a, tt)
                 ELSE IF moved /\ page = "Tiers" THEN Remount(tt) ELSE tt
     /\ tally' = IF publish /\ count.on THEN Tally(count.owed - 1) ELSE count
     /\ waiting' = IF publish THEN Append(wait, n + 1) ELSE wait
     /\ published' = IF publish THEN published \cup {Sale(a, tt)} ELSE published

gotoNextStep == Show(step + 1, ans, table, tally, waiting)

Change ==
  /\ edits < (IF strays = 0 THEN MaxEdits ELSE StrayEdits)
  /\ edits' = edits + 1
Still  == UNCHANGED <<step, phase, visible, tally, waiting, published, moves, strays>>
Answer(a) == Change /\ ans' = a /\ UNCHANGED <<table, modal>> /\ Still

Continue ==
  /\ Page \in {"Copies", "Winners", "Tiers", "SaleType", "Price", "Initial", "Ending", "Participation"}
  /\ modal = None
  /\ gotoNextStep
  /\ UNCHANGED <<visible, edits, strays>>

Back ==
  /\ step > 0 /\ visible /\ modal = None
  /\ Show(step - 1, ans, table, tally, waiting)
  /\ UNCHANGED <<visible, edits, strays>>

CategoryStep(c) ==
  /\ Page = "Category"
  /\ Show(step + 1, [ans EXCEPT !.category = c], table, tally, waiting)
  /\ UNCHANGED <<visible, edits, strays>>

(* What the press sets: the dates left open are now.                       *)
Dated == [ans EXCEPT !.startSale = TRUE, !.startList = TRUE]

(* Faulty variant: the buttons stay.                                       *)
ReviewStepOpen ==
  /\ Page = "Review"
  /\ Show(step + 1, Dated, table, Pressed, waiting)
  /\ UNCHANGED <<visible, edits, strays>>

(* "Publish Auction": the buttons go and the waiting page comes up.        *)
ReviewStep ==
  /\ Page = "Review"
  /\ Show(step + 1, Dated, table, Pressed, waiting)
  /\ visible' = FALSE
  /\ UNCHANGED <<edits, strays>>

(* A publication is done and goes to the page it meant, wherever the       *)
(* seller is by now.                                                       *)
WaitingStep ==
  /\ waiting # <<>>
  /\ Show(Head(waiting), ans, table, tally, Tail(waiting))
  /\ UNCHANGED <<visible, edits, strays>>

(* createAuctionManager throws: nobody catches it and the page waits on.   *)
PublishFails ==
  /\ waiting # <<>>
  /\ waiting' = Tail(waiting)
  /\ UNCHANGED <<ans, table, step, modal, phase, visible, tally, published, edits, moves, strays>>

(* The browser's buttons, or another step typed into the URL.              *)
Browser(n) ==
  /\ strays < MaxStrays /\ edits <= StrayEdits /\ n # step
  /\ Show(n, ans, table, NoTally, waiting)
  /\ strays' = strays + 1
  /\ UNCHANGED <<visible, edits>>

Reload ==
  /\ strays < MaxStrays /\ edits <= StrayEdits /\ strays' = strays + 1
  /\ LET publish == PageAt(NoAnswers.category, step) = "Publish"
     IN /\ waiting' = IF publish THEN <<step + 1>> ELSE <<>>
        /\ published' = IF publish THEN published \cup {Sale(NoAnswers, NewTable)}
                        ELSE published
  /\ ans' = NoAnswers /\ table' = NewTable /\ modal' = None /\ visible' = TRUE
  /\ phase' = [now |-> TRUE, listNow |-> TRUE] /\ tally' = NoTally
  /\ UNCHANGED <<step, edits, moves>>

(***************************************************************************)
(*                               The answers                               *)
(***************************************************************************)
(* What CopiesStep offers: copies need a limited master edition, an open   *)
(* sale one without a limit.                                               *)
Offered(a) ==
  CASE ans.category = "Limited" -> Arts[a].edition # "none" /\ Arts[a].limited
    [] ans.category = "Open"    -> Arts[a].edition # "none" /\ ~Arts[a].limited
    [] OTHER -> TRUE

(* Opening a selector takes the choice back.                               *)
CopiesOpen ==
  /\ Page = "Copies" /\ modal = None
  /\ modal' = <<"copies">> /\ ans' = [ans EXCEPT !.sel = 0]
  /\ UNCHANGED <<table, edits>> /\ Still

CopiesSelect(a) ==
  /\ modal = <<"copies">> /\ Offered(a)
  /\ modal' = None /\ ans' = [ans EXCEPT !.sel = a]
  /\ Change /\ UNCHANGED table /\ Still

CopiesStep(n) == Page = "Copies" /\ ans.category = "Limited" /\ Answer([ans EXCEPT !.editions = n])

NumberOfWinnersStep(n) ==
  /\ Page = "Winners" /\ ans' = [ans EXCEPT !.winners = n]
  /\ UNCHANGED <<table, modal, edits>> /\ Still

(* The only type the page offers; the pages of a sale never come up.       *)
saleType == "auction"

(* Prices, ticks, the duration and the gap: any answer of these pages.     *)
PriceAuction == Answer([ans EXCEPT !.terms = @ + 1])
EndingPhaseAuction == Answer([ans EXCEPT !.terms = @ + 1])
PriceStep == Page = "Price" /\ saleType = "auction" /\ PriceAuction
EndingPhaseStep == Page = "Ending" /\ saleType = "auction" /\ EndingPhaseAuction

InitialPhaseStep ==
  /\ Page = "Initial"
  /\ phase' \in [now : BOOLEAN, listNow : BOOLEAN] /\ phase' # phase
  /\ \/ phase.now # phase'.now /\ phase'.listNow = (phase'.now \/ phase.listNow)
     \/ ~phase.now /\ phase'.now = phase.now
  /\ ans' = [ans EXCEPT !.startSale = ~phase'.now, !.startList = ~phase'.listNow]
  /\ Change
  /\ UNCHANGED <<table, modal, step, visible, tally, waiting, published, moves, strays>>

ParticipationOpen ==
  /\ Page = "Participation" /\ modal = None
  /\ modal' = <<"part">> /\ ans' = [ans EXCEPT !.part = 0]
  /\ UNCHANGED <<table, edits>> /\ Still

ParticipationStep(a) ==
  /\ modal = <<"part">> /\ Arts[a].edition # "none" /\ ~Arts[a].limited
  /\ modal' = None /\ ans' = [ans EXCEPT !.part = a]
  /\ Change /\ UNCHANGED table /\ Still

CloseModal ==
  /\ modal # None /\ modal' = None
  /\ UNCHANGED <<ans, table, edits>> /\ Still

(***************************************************************************)
(*                             The tier table                              *)
(***************************************************************************)
Cells == {c \in (1..Len(table.tiers)) \X (1..MaxEntries) : c[2] <= Len(table.tiers[c[1]].items)}
CellOf(tt, c) == IF c[1] <= Len(tt.tiers) /\ c[2] <= Len(tt.tiers[c[1]].items) THEN c ELSE None
Entries(tt) == FoldLeft(LAMBDA n, tier : n + Len(tier.items), 0, tt.tiers)

Rearrange(tt) == Page = "Tiers" /\ table' = tt /\ UNCHANGED <<ans, edits>> /\ Still
Edit(tt) == Page = "Tiers" /\ Change /\ table' = tt /\ UNCHANGED ans /\ Still

TierAdded == modal = None /\ Len(table.tiers) < MaxTiers /\ Rearrange(AddTier(table)) /\ UNCHANGED modal
EntryAdded ==
  \E t \in DOMAIN table.tiers :
    modal = None /\ Entries(table) < MaxEntries /\ Rearrange(AddEntry(table, t)) /\ UNCHANGED modal
SpotToggled ==
  \E t \in DOMAIN table.tiers, s \in 0..ans.winners - 1 :
    modal = None /\ Edit(Toggle(table, t, s)) /\ UNCHANGED modal

(* Opening a cell's selector clears the cell, and what is then in its      *)
(* place has the open selector.                                            *)
CellOpened ==
  \E c \in Cells :
    /\ modal = None /\ Rearrange(Clear(table, c[1], c[2]))
    /\ modal' = CellOf(table', c)
CellClosed ==
  \E c \in Cells : modal = None /\ Rearrange(Clear(table, c[1], c[2])) /\ UNCHANGED modal
CellSelected ==
  \E c \in Cells, a \in Works :
    modal = c /\ Edit(Pick(table, c[1], c[2], a)) /\ modal' = None
EntryOf(c) == table.tiers[c[1]].items[c[2]]

TypeSelected ==
  \E c \in Cells, type \in PrizeTypes :
    /\ modal = None /\ EntryOf(c).type \notin {"none", type}
    /\ Edit(Retype(table, c[1], c[2], type)) /\ UNCHANGED modal
AmountTyped ==
  \E c \in Cells, n \in Copies :
    /\ modal = None /\ EntryOf(c).type \in Printing
    /\ Edit(SetAmount(table, c[1], c[2], n)) /\ UNCHANGED modal

TierTableStep ==
  \/ TierAdded \/ EntryAdded \/ SpotToggled \/ CellOpened \/ CellClosed
  \/ CellSelected \/ TypeSelected \/ AmountTyped

WizardNext ==
  \/ Continue \/ Back \/ ReviewStep \/ WaitingStep \/ PublishFails \/ Reload
  \/ \E c \in DOMAIN Pages : CategoryStep(c)
  \/ \E n \in 0..9 : Browser(n)
  \/ CopiesOpen \/ ParticipationOpen \/ CloseModal
  \/ \E a \in Works : CopiesSelect(a) \/ ParticipationStep(a)
  \/ \E n \in Copies : CopiesStep(n)
  \/ \E n \in Winners : NumberOfWinnersStep(n)
  \/ PriceStep \/ EndingPhaseStep \/ InitialPhaseStep
  \/ TierTableStep

WizardSpec == WizardInit /\ [][WizardNext]_wizardVars

(***************************************************************************)
(*                               Properties                                *)
(***************************************************************************)
(* However entries, tiers and artworks come and go, each entry's number    *)
(* still names the artwork that was chosen for it, and no artwork is       *)
(* deposited twice.                                                        *)
EntriesNameTheirItem ==
  /\ \A t \in DOMAIN table.tiers : \A e \in DOMAIN table.tiers[t].items :
       LET x == table.tiers[t].items[e]
       IN x.item # 0 => x.item \in DOMAIN table.items /\ table.items[x.item] = x.art
  /\ IsInjective(table.items)

(* Merging the tiers' ranges gives each place the sum of what its tiers    *)
(* give it, when no tier has a gap before its second spot.                 *)
TierAmounts ==
  (\A t \in DOMAIN table.tiers : Packed(table.tiers[t].spots)) =>
    \A k \in DOMAIN table.items, place \in 0..2 * ans.winners :
      AmountAt(RangesOf(table, k), place) = Meant(table, k, place)

(* A press of "Publish Auction" publishes one sale and nothing else does,  *)
(* whatever pages the seller goes back to and whichever publications fail  *)
(* or finish late, until the browser's buttons or a reload are used; and   *)
(* again from a press after those, once nothing is running any more.       *)
OneSalePerPress == tally.on => tally.owed = 0
==============================================================================
