------------------------------ MODULE SaleProofs ------------------------------
(***************************************************************************)
(* Proofs about a sale on its way to the chain.                            *)
(*                                                                         *)
(* Module SaleWizard, for any artworks, answers, tiers and numbers of      *)
(* moves: a press publishes one sale, and entries name their artwork.      *)
(*                                                                         *)
(* Module SaleSetup, for any items, any of them foreign, and any number of *)
(* faults: the sale that opens is the one that was put up.                 *)
(***************************************************************************)
EXTENDS SaleWizard, SaleSetup, Recursion, FiniteSetTheorems, SequenceTheorems

-----------------------------------------------------------------------------
(* What is published                                                       *)

Categories == {"Limited", "Single", "Open", "Tiered"}

(* The step of the waiting page, which publishes as it mounts.             *)
PublishAt(c) == IF c = "Open" THEN 6 ELSE IF c = "Single" THEN 7 ELSE 8

(* The waiting page is one step past the review and comes nowhere else.    *)
LEMMA PublishFollowsReview ==
  ASSUME NEW c \in Categories, NEW n \in Nat
  PROVE  /\ PublishAt(c) \in Nat /\ PublishAt(c) > 1
         /\ PageAt(c, n) = "Publish" <=> n = PublishAt(c)
         /\ PageAt(c, n) = "Review" => n + 1 = PublishAt(c)
         /\ PageAt(c, n) = "Category" => n = 0
         /\ n + 1 >= PublishAt(c) =>
              PageAt(c, n) \in {"Review", "Publish", "Congrats", "none"}
<1>1. CASE c = "Open"
  <2>1. PublishAt(c) = 6
        /\ Pages[c] = <<"Category", "Copies", "Price", "Initial", "Ending",
                        "Review", "Publish", "Congrats">>
    BY <1>1 DEF Pages, PublishAt
  <2>2. PageAt(c, n) =
          IF n = 0 THEN "Category" ELSE IF n = 1 THEN "Copies" ELSE IF n = 2 THEN "Price"
          ELSE IF n = 3 THEN "Initial" ELSE IF n = 4 THEN "Ending" ELSE IF n = 5 THEN "Review"
          ELSE IF n = 6 THEN "Publish" ELSE IF n = 7 THEN "Congrats" ELSE "none"
    BY <2>1 DEF PageAt
  <2>3. QED
    BY <2>1, <2>2
<1>2. CASE c = "Single"
  <2>1. PublishAt(c) = 7
        /\ Pages[c] = <<"Category", "Copies", "Price", "Initial", "Ending",
                        "Participation", "Review", "Publish", "Congrats">>
    BY <1>2 DEF Pages, PublishAt
  <2>2. PageAt(c, n) =
          IF n = 0 THEN "Category" ELSE IF n = 1 THEN "Copies" ELSE IF n = 2 THEN "Price"
          ELSE IF n = 3 THEN "Initial" ELSE IF n = 4 THEN "Ending"
          ELSE IF n = 5 THEN "Participation" ELSE IF n = 6 THEN "Review"
          ELSE IF n = 7 THEN "Publish" ELSE IF n = 8 THEN "Congrats" ELSE "none"
    BY <2>1 DEF PageAt
  <2>3. QED
    BY <2>1, <2>2
<1>3. CASE c = "Limited"
  <2>1. PublishAt(c) = 8
        /\ Pages[c] = <<"Category", "Copies", "SaleType", "Price", "Initial", "Ending",
                        "Participation", "Review", "Publish", "Congrats">>
    BY <1>3 DEF Pages, PublishAt
  <2>2. PageAt(c, n) =
          IF n = 0 THEN "Category" ELSE IF n = 1 THEN "Copies" ELSE IF n = 2 THEN "SaleType"
          ELSE IF n = 3 THEN "Price" ELSE IF n = 4 THEN "Initial" ELSE IF n = 5 THEN "Ending"
          ELSE IF n = 6 THEN "Participation" ELSE IF n = 7 THEN "Review"
          ELSE IF n = 8 THEN "Publish" ELSE IF n = 9 THEN "Congrats" ELSE "none"
    BY <2>1 DEF PageAt
  <2>3. QED
    BY <2>1, <2>2
<1>4. CASE c = "Tiered"
  <2>1. PublishAt(c) = 8
        /\ Pages[c] = <<"Category", "Winners", "Tiers", "Price", "Initial", "Ending",
                        "Participation", "Review", "Publish", "Congrats">>
    BY <1>4 DEF Pages, PublishAt
  <2>2. PageAt(c, n) =
          IF n = 0 THEN "Category" ELSE IF n = 1 THEN "Winners" ELSE IF n = 2 THEN "Tiers"
          ELSE IF n = 3 THEN "Price" ELSE IF n = 4 THEN "Initial" ELSE IF n = 5 THEN "Ending"
          ELSE IF n = 6 THEN "Participation" ELSE IF n = 7 THEN "Review"
          ELSE IF n = 8 THEN "Publish" ELSE IF n = 9 THEN "Congrats" ELSE "none"
    BY <2>1 DEF PageAt
  <2>3. QED
    BY <2>1, <2>2
<1>5. QED
  BY <1>1, <1>2, <1>3, <1>4 DEF Categories

(* While the tally is kept, the buttons are there before the waiting page  *)
(* and gone from it on, where one publication at most is running and leads *)
(* away from it; and every press has published its sale.                   *)
Underway ==
  /\ visible => waiting = <<>> /\ step < PublishAt(ans.category)
  /\ ~visible => /\ step >= PublishAt(ans.category)
                 /\ waiting \in {<<>>, <<PublishAt(ans.category) + 1>>}
  /\ tally.owed = 0

HasCategory(a) == "category" \in DOMAIN a /\ a.category \in Categories
Tallies == {k \in [on : BOOLEAN, owed : Int] : k.on \/ k.owed = 0}

WizardInv ==
  /\ HasCategory(ans) /\ step \in Nat /\ waiting \in Seq(Nat) /\ tally \in Tallies
  /\ tally.on => Underway

(* A tally that is kept, and one that is not.                              *)
LEMMA TallyFields ==
  /\ \A n \in Int : Tally(n) \in Tallies /\ Tally(n).on /\ Tally(n).owed = n
  /\ NoTally \in Tallies /\ ~NoTally.on
BY DEF Tally, NoTally, Tallies

(* The wizard opens on the categories with nothing published.              *)
LEMMA TallyInit == WizardInit => WizardInv
BY DEF WizardInit, WizardInv, Underway, HasCategory, NoAnswers, Categories, PublishAt,
       Tallies, Tally

(* A page that comes up keeps the types and the category.                  *)
LEMMA ShowTyped ==
  ASSUME NEW n \in Nat, NEW a, HasCategory(a), NEW tt, NEW count \in Tallies,
         NEW wait \in Seq(Nat), Show(n, a, tt, count, wait)
  PROVE  /\ step' = n /\ HasCategory(ans') /\ ans'.category = a.category
         /\ waiting' \in Seq(Nat) /\ tally' \in Tallies /\ (tally'.on <=> count.on)
<1>1. step' = n /\ ans' \in {a, OpenInitial(a)}
  BY DEF Show
<1>2. waiting' \in {wait, Append(wait, n + 1)}
  BY DEF Show
<1>3. tally' = count \/ (count.on /\ tally' = Tally(count.owed - 1))
  BY Zenon DEF Show
<1>4. tally' \in Tallies /\ (tally'.on <=> count.on)
  <2>1. count.owed - 1 \in Int
    BY DEF Tallies
  <2>2. QED
    BY <1>3, <2>1, TallyFields, Zenon
<1>5. HasCategory(ans') /\ ans'.category = a.category
  BY <1>1 DEF HasCategory, OpenInitial
<1>6. QED
  BY <1>1, <1>2, <1>4, <1>5

(* Any page but the waiting page only comes up.                            *)
LEMMA ShowsElsewhere ==
  ASSUME NEW n \in Nat, NEW a, NEW tt, NEW count, NEW wait, Show(n, a, tt, count, wait),
         HasCategory(a), n # PublishAt(a.category)
  PROVE  waiting' = wait /\ tally' = count
<1>1. PageAt(a.category, n) # "Publish"
  BY PublishFollowsReview DEF HasCategory
<1>2. QED
  BY <1>1, Zenon DEF Show

(* The waiting page publishes as it comes up.                              *)
LEMMA ShowsPublish ==
  ASSUME NEW a, NEW tt, NEW count, NEW wait, HasCategory(a), step \in Nat,
         Show(step + 1, a, tt, count, wait), step + 1 = PublishAt(a.category), count.on
  PROVE  waiting' = Append(wait, step + 2) /\ tally' = Tally(count.owed - 1)
<1>1. PageAt(a.category, step + 1) = "Publish" /\ step + 1 # step /\ step + 1 + 1 = step + 2
  BY PublishFollowsReview DEF HasCategory
<1>2. waiting' = Append(wait, step + 1 + 1) /\ tally' = Tally(count.owed - 1)
  BY <1>1, Zenon DEF Show
<1>3. QED
  BY <1>1, <1>2

(* Every step keeps the invariant. *)
LEMMA TallyStep == WizardInv /\ [WizardNext]_wizardVars => WizardInv'
<1> SUFFICES ASSUME WizardInv, [WizardNext]_wizardVars PROVE WizardInv'
  OBVIOUS
<1>1. HasCategory(ans) /\ step \in Nat /\ waiting \in Seq(Nat) /\ tally \in Tallies
  BY DEF WizardInv
<1>2. CASE Reload
  <2>1. HasCategory(ans') /\ step' = step /\ waiting' \in {<<>>, <<step + 1>>} /\ tally' = NoTally
    BY <1>2 DEF Reload, HasCategory, NoAnswers, Categories
  <2>2. waiting' \in Seq(Nat) /\ step' \in Nat
    <3>1. step + 1 \in Nat
      BY <1>1
    <3>2. <<>> \in Seq(Nat) /\ <<step + 1>> \in Seq(Nat)
      BY <3>1
    <3>3. QED
      BY <1>1, <2>1, <3>2
  <2>3. tally' \in Tallies /\ ~tally'.on
    BY <2>1, TallyFields, Zenon
  <2>4. QED
    BY <2>1, <2>2, <2>3 DEF WizardInv
<1>3. ASSUME NEW n \in 0..9, Browser(n) PROVE WizardInv'
  <2>1. NoTally \in Tallies /\ ~NoTally.on
    BY TallyFields
  <2>2. Show(n, ans, table, NoTally, waiting)
    BY <1>3 DEF Browser
  <2>3. n \in Nat
    OBVIOUS
  <2>4. QED
    BY <1>1, <2>1, <2>2, <2>3, ShowTyped DEF WizardInv
<1>4. CASE Continue
  <2>1. visible' = visible /\ Show(step + 1, ans, table, tally, waiting)
    BY <1>4 DEF Continue, gotoNextStep
  <2>2. PageAt(ans.category, step) \notin {"Review", "Publish", "Congrats", "none"}
    BY <1>4 DEF Continue, Page
  <2>3. step + 1 < PublishAt(ans.category) /\ PublishAt(ans.category) \in Nat
    BY <1>1, <2>2, PublishFollowsReview DEF HasCategory
  <2>4. step + 1 \in Nat /\ step + 1 # PublishAt(ans.category)
    BY <1>1, <2>3
  <2>5. /\ step' = step + 1 /\ HasCategory(ans') /\ ans'.category = ans.category
        /\ waiting' \in Seq(Nat) /\ tally' \in Tallies
    BY <1>1, <2>1, <2>4, ShowTyped
  <2>6. waiting' = waiting /\ tally' = tally
    BY <1>1, <2>1, <2>4, ShowsElsewhere
  <2>7. QED
    BY <1>1, <2>1, <2>3, <2>5, <2>6 DEF WizardInv, Underway
<1>5. CASE Back
  <2>1. visible' = visible /\ visible /\ step - 1 \in Nat
        /\ Show(step - 1, ans, table, tally, waiting)
    BY <1>1, <1>5 DEF Back
  <2>2. /\ step' = step - 1 /\ HasCategory(ans') /\ ans'.category = ans.category
        /\ waiting' \in Seq(Nat) /\ tally' \in Tallies /\ (tally'.on <=> tally.on)
    BY <1>1, <2>1, ShowTyped
  <2>3. CASE ~tally.on
    BY <1>1, <2>1, <2>2, <2>3 DEF WizardInv
  <2>4. CASE tally.on
    <3>1. Underway /\ step < PublishAt(ans.category) /\ PublishAt(ans.category) \in Nat
      BY <1>1, <2>1, <2>4, PublishFollowsReview DEF WizardInv, Underway, HasCategory
    <3>2. step - 1 # PublishAt(ans.category)
      BY <1>1, <3>1
    <3>3. waiting' = waiting /\ tally' = tally
      BY <1>1, <2>1, <3>2, ShowsElsewhere
    <3>4. QED
      BY <1>1, <2>1, <2>2, <3>1, <3>3 DEF WizardInv, Underway
  <2>5. QED
    BY <2>3, <2>4
<1>6. ASSUME NEW c \in DOMAIN Pages, CategoryStep(c) PROVE WizardInv'
  <2> DEFINE a == [ans EXCEPT !.category = c]
  <2>1. /\ visible' = visible /\ PageAt(ans.category, step) = "Category"
        /\ Show(step + 1, a, table, tally, waiting)
    BY <1>6 DEF CategoryStep, Page
  <2>2. c \in Categories
    BY DEF Pages, Categories
  <2>3. HasCategory(a) /\ a.category = c
    BY <1>1, <2>2 DEF HasCategory
  <2> HIDE DEF a
  <2>4. step = 0 /\ PublishAt(c) \in Nat /\ PublishAt(c) > 1
        /\ PublishAt(ans.category) \in Nat /\ PublishAt(ans.category) > 1
    BY <1>1, <2>1, <2>2, PublishFollowsReview DEF HasCategory
  <2>5. step + 1 \in Nat /\ step + 1 # PublishAt(c)
    BY <2>4
  <2>6. /\ step' = step + 1 /\ HasCategory(ans') /\ ans'.category = c
        /\ waiting' \in Seq(Nat) /\ tally' \in Tallies
    BY <1>1, <2>1, <2>3, <2>5, ShowTyped
  <2>7. waiting' = waiting /\ tally' = tally
    BY <1>1, <2>1, <2>3, <2>5, ShowsElsewhere
  <2>8. QED
    BY <1>1, <2>1, <2>4, <2>6, <2>7 DEF WizardInv, Underway
<1>7. CASE ReviewStep
  <2>1. /\ visible' = FALSE /\ PageAt(ans.category, step) = "Review"
        /\ Show(step + 1, Dated, table, Pressed, waiting)
    BY <1>7 DEF ReviewStep, Page
  <2>2. HasCategory(Dated) /\ Dated.category = ans.category
    BY <1>1 DEF HasCategory, Dated
  <2>3. step + 1 \in Nat /\ step + 1 = PublishAt(ans.category)
    BY <1>1, <2>1, PublishFollowsReview DEF HasCategory
  <2>4. CASE tally.on \/ waiting = <<>>
    <3>1. tally.owed = 0 /\ waiting = <<>>
      BY <1>1, <2>3, <2>4 DEF WizardInv, Underway, Tallies
    <3>2. Pressed = Tally(1) /\ Pressed \in Tallies /\ Pressed.on /\ Pressed.owed = 1
      BY <2>4, <3>1, TallyFields DEF Pressed
    <3>3. /\ step' = step + 1 /\ HasCategory(ans') /\ ans'.category = ans.category
          /\ waiting' \in Seq(Nat) /\ tally' \in Tallies
      BY <1>1, <2>1, <2>2, <2>3, <3>2, ShowTyped
    <3>4. waiting' = Append(waiting, step + 2) /\ tally' = Tally(Pressed.owed - 1)
      BY <1>1, <2>1, <2>2, <2>3, <3>2, ShowsPublish
    <3>5. waiting' = <<step + 2>> /\ step + 2 = PublishAt(ans.category) + 1
      BY <1>1, <2>3, <3>1, <3>4
    <3>6. tally'.owed = 0
      BY <3>2, <3>4, TallyFields
    <3>7. QED
      BY <1>1, <2>1, <2>3, <3>3, <3>5, <3>6 DEF WizardInv, Underway
  <2>5. CASE ~(tally.on \/ waiting = <<>>)
    <3>1. Pressed \in Tallies /\ ~Pressed.on
      BY <2>5, TallyFields DEF Pressed
    <3>2. QED
      BY <1>1, <2>1, <2>2, <2>3, <3>1, ShowTyped DEF WizardInv
  <2>6. QED
    BY <2>4, <2>5
<1>8. CASE WaitingStep
  <2>1. /\ visible' = visible /\ waiting # <<>>
        /\ Show(Head(waiting), ans, table, tally, Tail(waiting))
    BY <1>8 DEF WaitingStep
  <2>2. Head(waiting) \in Nat /\ Tail(waiting) \in Seq(Nat)
    BY <1>1, <2>1
  <2>3. /\ step' = Head(waiting) /\ HasCategory(ans') /\ ans'.category = ans.category
        /\ waiting' \in Seq(Nat) /\ tally' \in Tallies /\ (tally'.on <=> tally.on)
    BY <1>1, <2>1, <2>2, ShowTyped
  <2>4. CASE ~tally.on
    BY <2>2, <2>3, <2>4 DEF WizardInv
  <2>5. CASE tally.on
    <3>1. Underway /\ ~visible /\ waiting = <<PublishAt(ans.category) + 1>>
          /\ PublishAt(ans.category) \in Nat
      BY <1>1, <2>1, <2>5, PublishFollowsReview DEF WizardInv, Underway, HasCategory
    <3>2. Head(waiting) = PublishAt(ans.category) + 1 /\ Tail(waiting) = <<>>
      BY <3>1
    <3>3. Head(waiting) # PublishAt(ans.category)
      BY <3>1, <3>2
    <3>4. waiting' = <<>> /\ tally' = tally
      BY <1>1, <2>1, <2>2, <3>2, <3>3, ShowsElsewhere
    <3>5. QED
      BY <1>1, <2>1, <2>3, <3>1, <3>2, <3>4 DEF WizardInv, Underway
  <2>6. QED
    BY <2>4, <2>5
<1>9. CASE PublishFails
  <2>1. /\ waiting # <<>> /\ waiting' = Tail(waiting)
        /\ UNCHANGED <<ans, step, visible, tally>>
    BY <1>9 DEF PublishFails
  <2>2. waiting' \in Seq(Nat)
    BY <1>1, <2>1
  <2>3. CASE ~tally.on
    BY <1>1, <2>1, <2>2, <2>3 DEF WizardInv
  <2>4. CASE tally.on
    <3>1. ~visible /\ waiting = <<PublishAt(ans.category) + 1>>
      BY <2>1, <2>4 DEF WizardInv, Underway
    <3>2. waiting' = <<>>
      BY <2>1, <3>1
    <3>3. QED
      BY <1>1, <2>1, <2>2, <3>1, <3>2 DEF WizardInv, Underway
  <2>5. QED
    BY <2>3, <2>4
<1>10. ASSUME UNCHANGED <<step, visible, waiting, tally>>,
              HasCategory(ans'), ans'.category = ans.category
       PROVE  WizardInv'
  BY <1>1, <1>10 DEF WizardInv, Underway
<1>11. CASE CopiesOpen \/ ParticipationOpen \/ CloseModal
  BY <1>1, <1>10, <1>11 DEF CopiesOpen, ParticipationOpen, CloseModal, Still, HasCategory
<1>12. ASSUME NEW a \in Works, CopiesSelect(a) \/ ParticipationStep(a) PROVE WizardInv'
  BY <1>1, <1>10, <1>12 DEF CopiesSelect, ParticipationStep, Still, HasCategory
<1>13. ASSUME NEW n, CopiesStep(n) \/ NumberOfWinnersStep(n) PROVE WizardInv'
  BY <1>1, <1>10, <1>13 DEF CopiesStep, NumberOfWinnersStep, Answer, Still, HasCategory
<1>14. CASE PriceStep \/ EndingPhaseStep
  BY <1>1, <1>10, <1>14
  DEF PriceStep, EndingPhaseStep, PriceAuction, EndingPhaseAuction, Answer, Still, HasCategory
<1>15. CASE InitialPhaseStep
  BY <1>1, <1>10, <1>15 DEF InitialPhaseStep, HasCategory
<1>16. CASE TierTableStep
  <2>1. UNCHANGED ans /\ Still
    BY <1>16 DEF TierTableStep, TierAdded, EntryAdded, SpotToggled, CellOpened, CellClosed,
                 CellSelected, TypeSelected, AmountTyped, Rearrange, Edit
  <2>2. QED
    BY <1>1, <1>10, <2>1 DEF Still
<1>17. CASE UNCHANGED wizardVars
  BY <1>1, <1>10, <1>17 DEF wizardVars
<1>18. QED
  BY <1>2, <1>3, <1>4, <1>5, <1>6, <1>7, <1>8, <1>9, <1>11, <1>12, <1>13, <1>14, <1>15, <1>16, <1>17
  DEF WizardNext

(* Each press of "Publish Auction" publishes one sale and nothing else     *)
(* publishes, whatever the category and the answers, however often the     *)
(* seller goes back, and whichever publication fails or ends late, until   *)
(* the browser's buttons are used; and again from a clean press on.        *)
THEOREM EachPressPublishesOnce == WizardSpec => []OneSalePerPress
<1>1. WizardInv => OneSalePerPress
  BY DEF WizardInv, Underway, OneSalePerPress
<1>2. QED
  BY <1>1, TallyInit, TallyStep, PTL DEF WizardSpec

-----------------------------------------------------------------------------
(* The table of tiers                                                      *)

(* A sequence without its i-th element.                                    *)
LEMMA RemovedAt ==
  ASSUME NEW S, NEW s \in Seq(S), NEW i \in 1..Len(s)
  PROVE  /\ RemoveAt(s, i) \in Seq(S) /\ Len(RemoveAt(s, i)) = Len(s) - 1
         /\ \A j \in 1..(Len(s) - 1) : RemoveAt(s, i)[j] = IF j < i THEN s[j] ELSE s[j + 1]
<1> DEFINE front == SubSeq(s, 1, i - 1)
           back == SubSeq(s, i + 1, Len(s))
<1>1. Len(s) \in Nat /\ i \in 1..Len(s)
  OBVIOUS
<1>2. front \in Seq(S) /\ Len(front) = i - 1 /\ \A j \in 1..(i - 1) : front[j] = s[j]
  BY <1>1
<1>3. /\ back \in Seq(S) /\ Len(back) = Len(s) - i
      /\ \A j \in 1..(Len(s) - i) : back[j] = s[i + j]
  BY <1>1
<1> HIDE DEF front, back
<1>4. RemoveAt(s, i) = front \o back
  BY DEF RemoveAt, front, back
<1>5. front \o back \in Seq(S) /\ Len(front \o back) = Len(s) - 1
  <2>1. front \o back \in Seq(S) /\ Len(front \o back) = Len(front) + Len(back)
    BY <1>2, <1>3, ConcatProperties
  <2>2. QED
    BY <2>1, <1>1, <1>2, <1>3
<1>6. ASSUME NEW j \in 1..(Len(s) - 1)
      PROVE  (front \o back)[j] = IF j < i THEN s[j] ELSE s[j + 1]
  <2>1. (front \o back)[j] = IF j <= Len(front) THEN front[j] ELSE back[j - Len(front)]
    BY <1>1, <1>2, <1>3, <1>5, ConcatProperties
  <2>2. CASE j < i
    BY <2>1, <2>2, <1>1, <1>2
  <2>3. CASE ~(j < i)
    <3>1. j - (i - 1) \in 1..(Len(s) - i) /\ i + (j - (i - 1)) = j + 1
      BY <2>3, <1>1
    <3>2. QED
      BY <2>1, <2>3, <3>1, <1>1, <1>2, <1>3
  <2>4. QED
    BY <2>2, <2>3
<1>7. QED
  BY <1>4, <1>5, <1>6

(* The table's parts.                                                      *)
EntryType == [item : Nat, art : Nat, type : {"none"} \cup PrizeTypes, amount : Nat]
Tier == [items : Seq(EntryType), spots : SUBSET Places]
Tables == [items : Seq(Nat), tiers : Seq(Tier), boxes : Seq(SUBSET Places)]

(* An entry's number names its artwork.                                    *)
Names(items, x) == x.item # 0 => x.item \in DOMAIN items /\ items[x.item] = x.art

TableInv(tt) ==
  /\ tt \in Tables /\ Len(tt.boxes) = Len(tt.tiers)
  /\ \A t \in DOMAIN tt.tiers : \A e \in DOMAIN tt.tiers[t].items :
       Names(tt.items, tt.tiers[t].items[e])
  /\ IsInjective(tt.items)

(* The answers of the pages.                                               *)
Asked == [category : Categories, sel : Nat, editions : Nat, winners : 1..10, terms : Nat,
          part : Nat, startSale : BOOLEAN, startList : BOOLEAN]

TableNamed == TableInv(table) /\ ans \in Asked

(* What the types are good for.                                            *)
LEMMA TableTypes ==
  ASSUME NEW tt, TableInv(tt)
  PROVE  /\ tt.items \in Seq(Nat) /\ Len(tt.items) \in Nat /\ DOMAIN tt.items = 1..Len(tt.items)
         /\ tt.tiers \in Seq(Tier) /\ Len(tt.tiers) \in Nat /\ DOMAIN tt.tiers = 1..Len(tt.tiers)
         /\ tt.boxes \in Seq(SUBSET Places) /\ Len(tt.boxes) = Len(tt.tiers)
         /\ \A t \in DOMAIN tt.tiers :
              /\ tt.tiers[t] \in Tier
              /\ tt.tiers[t].items \in Seq(EntryType) /\ Len(tt.tiers[t].items) \in Nat
              /\ DOMAIN tt.tiers[t].items = 1..Len(tt.tiers[t].items)
              /\ \A e \in DOMAIN tt.tiers[t].items :
                   tt.tiers[t].items[e] \in EntryType /\ Names(tt.items, tt.tiers[t].items[e])
<1>1. tt \in Tables /\ Len(tt.boxes) = Len(tt.tiers)
  BY DEF TableInv
<1>2. tt.items \in Seq(Nat) /\ tt.tiers \in Seq(Tier) /\ tt.boxes \in Seq(SUBSET Places)
  BY <1>1 DEF Tables
<1>3. Len(tt.items) \in Nat /\ DOMAIN tt.items = 1..Len(tt.items)
  BY <1>2
<1>4. Len(tt.tiers) \in Nat /\ DOMAIN tt.tiers = 1..Len(tt.tiers)
  BY <1>2
<1>5. \A t \in DOMAIN tt.tiers : tt.tiers[t] \in Tier
  BY <1>2, <1>4, ElementOfSeq
<1>6. \A t \in DOMAIN tt.tiers : tt.tiers[t].items \in Seq(EntryType)
  BY <1>5 DEF Tier
<1>7. ASSUME NEW t \in DOMAIN tt.tiers
      PROVE  /\ tt.tiers[t].items \in Seq(EntryType) /\ Len(tt.tiers[t].items) \in Nat
             /\ DOMAIN tt.tiers[t].items = 1..Len(tt.tiers[t].items)
             /\ \A e \in DOMAIN tt.tiers[t].items :
                  tt.tiers[t].items[e] \in EntryType /\ Names(tt.items, tt.tiers[t].items[e])
  <2>1. /\ tt.tiers[t].items \in Seq(EntryType) /\ Len(tt.tiers[t].items) \in Nat
        /\ DOMAIN tt.tiers[t].items = 1..Len(tt.tiers[t].items)
    BY <1>6
  <2>2. \A e \in DOMAIN tt.tiers[t].items : tt.tiers[t].items[e] \in EntryType
    BY <2>1, ElementOfSeq
  <2>3. QED
    BY <2>1, <2>2 DEF TableInv
<1>8. QED
  BY <1>1, <1>2, <1>3, <1>4, <1>5, <1>7

(* Tiers and boxes of the same number, with the same artworks.             *)
LEMMA TiersKept ==
  ASSUME NEW tt, TableInv(tt), NEW tiers \in Seq(Tier), NEW boxes \in Seq(SUBSET Places),
         Len(boxes) = Len(tiers),
         \A t \in DOMAIN tiers : \A e \in DOMAIN tiers[t].items : Names(tt.items, tiers[t].items[e]),
         NEW uu, uu = [items |-> tt.items, tiers |-> tiers, boxes |-> boxes]
  PROVE  TableInv(uu)
BY DEF TableInv, Tables

(* The form of a change of one field of a table.                           *)
LEMMA TableReset ==
  ASSUME NEW tt, TableInv(tt), NEW x
  PROVE  /\ [tt EXCEPT !.tiers = x] = [items |-> tt.items, tiers |-> x, boxes |-> tt.boxes]
         /\ [tt EXCEPT !.boxes = x] = [items |-> tt.items, tiers |-> tt.tiers, boxes |-> x]
<1>1. tt \in [items : Seq(Nat), tiers : Seq(Tier), boxes : Seq(SUBSET Places)]
  BY DEF TableInv, Tables
<1>2. [tt EXCEPT !.tiers = x] = [items |-> tt.items, tiers |-> x, boxes |-> tt.boxes]
  BY SMTT(30), <1>1
<1>3. [tt EXCEPT !.boxes = x] = [items |-> tt.items, tiers |-> tt.tiers, boxes |-> x]
  BY <1>1
<1>4. QED
  BY <1>2, <1>3

(* A new tier has no entry.                                                *)
LEMMA AddTierKeeps == ASSUME NEW tt, TableInv(tt) PROVE TableInv(AddTier(tt))
<1> DEFINE none == [items |-> <<>>, spots |-> {}]
           tiers == Append(tt.tiers, none)
           boxes == Append(tt.boxes, {})
<1>1. none \in Tier /\ none.items = <<>>
  BY EmptySeq DEF Tier
<1>2. AddTier(tt) = [items |-> tt.items, tiers |-> tiers, boxes |-> boxes]
  BY DEF AddTier
<1>3. {} \in SUBSET Places
  OBVIOUS
<1> HIDE DEF none
<1>4. /\ tiers \in Seq(Tier) /\ Len(tiers) = Len(tt.tiers) + 1 /\ DOMAIN tiers = 1..(Len(tt.tiers) + 1)
      /\ tiers[Len(tt.tiers) + 1] = none /\ \A t \in 1..Len(tt.tiers) : tiers[t] = tt.tiers[t]
  BY <1>1, TableTypes
<1>5. boxes \in Seq(SUBSET Places) /\ Len(boxes) = Len(tiers)
  <2>1. boxes \in Seq(SUBSET Places) /\ Len(boxes) = Len(tt.boxes) + 1
    BY <1>3, TableTypes, AppendProperties
  <2>2. QED
    BY <2>1, <1>4, TableTypes
<1> HIDE DEF tiers, boxes
<1>6. \A t \in DOMAIN tiers : \A e \in DOMAIN tiers[t].items : Names(tt.items, tiers[t].items[e])
  <2>1. SUFFICES ASSUME NEW t \in DOMAIN tiers, NEW e \in DOMAIN tiers[t].items
                 PROVE  Names(tt.items, tiers[t].items[e])
    OBVIOUS
  <2>2. t \in 1..Len(tt.tiers)
    BY <1>1, <1>4, TableTypes
  <2>3. QED
    BY <2>2, <1>4, TableTypes
<1>7. QED
  BY <1>2, <1>4, <1>5, <1>6, TiersKept

(* A tier that changes, its entries naming their artworks.                 *)
LEMMA TierSetKeeps ==
  ASSUME NEW tt, TableInv(tt), NEW t \in DOMAIN tt.tiers, NEW x \in Tier,
         \A e \in DOMAIN x.items : Names(tt.items, x.items[e]),
         NEW boxes \in Seq(SUBSET Places), Len(boxes) = Len(tt.tiers)
  PROVE  TableInv([items |-> tt.items, tiers |-> [tt.tiers EXCEPT ![t] = x], boxes |-> boxes])
<1> DEFINE tiers == [tt.tiers EXCEPT ![t] = x]
<1>1. /\ tiers \in Seq(Tier) /\ Len(tiers) = Len(tt.tiers) /\ DOMAIN tiers = DOMAIN tt.tiers
      /\ \A u \in DOMAIN tt.tiers : tiers[u] = IF u = t THEN x ELSE tt.tiers[u]
  BY TableTypes
<1> HIDE DEF tiers
<1>2. \A u \in DOMAIN tiers : \A e \in DOMAIN tiers[u].items : Names(tt.items, tiers[u].items[e])
  BY <1>1, TableTypes
<1> DEFINE uu == [items |-> tt.items, tiers |-> tiers, boxes |-> boxes]
<1>3. TableInv(uu)
  BY <1>1, <1>2, TiersKept
<1>4. QED
  BY <1>3 DEF tiers

(* The form of a change of one tier.                                       *)
LEMMA TierForm ==
  ASSUME NEW tt, TableInv(tt), NEW t \in DOMAIN tt.tiers, NEW x
  PROVE  /\ [tt.tiers[t] EXCEPT !.items = x] = [items |-> x, spots |-> tt.tiers[t].spots]
         /\ [tt.tiers[t] EXCEPT !.spots = x] = [items |-> tt.tiers[t].items, spots |-> x]
         /\ [tt EXCEPT !.tiers[t].items = x]
              = [items |-> tt.items,
                 tiers |-> [tt.tiers EXCEPT ![t] = [items |-> x, spots |-> tt.tiers[t].spots]],
                 boxes |-> tt.boxes]
<1>1. tt.tiers[t] \in [items : Seq(EntryType), spots : SUBSET Places]
  BY TableTypes DEF Tier
<1>2. /\ [tt.tiers[t] EXCEPT !.items = x] = [items |-> x, spots |-> tt.tiers[t].spots]
      /\ [tt.tiers[t] EXCEPT !.spots = x] = [items |-> tt.tiers[t].items, spots |-> x]
  BY <1>1
<1>3. [tt EXCEPT !.tiers[t].items = x]
        = [tt EXCEPT !.tiers = [tt.tiers EXCEPT ![t] = [tt.tiers[t] EXCEPT !.items = x]]]
  BY Zenon
<1>4. [tt EXCEPT !.tiers[t].items = x]
        = [items |-> tt.items,
           tiers |-> [tt.tiers EXCEPT ![t] = [tt.tiers[t] EXCEPT !.items = x]],
           boxes |-> tt.boxes]
  BY <1>3, TableReset, Zenon
<1>5. QED
  BY <1>2, <1>4, Zenon

(* A tier with no entry that is not blank or that names its artwork.       *)
LEMMA AddEntryKeeps ==
  ASSUME NEW tt, TableInv(tt), NEW t \in DOMAIN tt.tiers
  PROVE  TableInv(AddEntry(tt, t))
<1> DEFINE old == tt.tiers[t].items
           new == Append(old, NoEntry)
           x == [items |-> new, spots |-> tt.tiers[t].spots]
<1>1. NoEntry \in EntryType /\ NoEntry.item = 0
  BY DEF NoEntry, EntryType
<1>2. old \in Seq(EntryType) /\ Len(old) \in Nat /\ \A e \in 1..Len(old) : Names(tt.items, old[e])
  BY TableTypes
<1>3. /\ new \in Seq(EntryType) /\ DOMAIN new = 1..(Len(old) + 1)
      /\ new[Len(old) + 1] = NoEntry /\ \A e \in 1..Len(old) : new[e] = old[e]
  BY <1>1, <1>2
<1> HIDE DEF new
<1>4. \A e \in DOMAIN new : Names(tt.items, new[e])
  <2>1. Names(tt.items, NoEntry)
    BY <1>1 DEF Names
  <2>2. QED
    BY <1>2, <1>3, <2>1
<1>5. x \in Tier /\ x.items = new
  BY <1>3, TableTypes DEF Tier
<1>6. AddEntry(tt, t) = [items |-> tt.items, tiers |-> [tt.tiers EXCEPT ![t] = x], boxes |-> tt.boxes]
  BY TierForm, Zenon DEF AddEntry, new
<1> HIDE DEF x
<1>7. QED
  BY <1>4, <1>5, <1>6, TierSetKeeps, TableTypes

(* A tick changes the spots of a tier and the boxes of its row.            *)
LEMMA ToggleKeeps ==
  ASSUME NEW tt, TableInv(tt), NEW t \in DOMAIN tt.tiers, NEW s \in Places
  PROVE  TableInv(Toggle(tt, t, s))
<1> DEFINE shown == IF s \in tt.boxes[t] THEN tt.boxes[t] \ {s} ELSE tt.boxes[t] \cup {s}
           x == [items |-> tt.tiers[t].items, spots |-> shown]
           boxes == [tt.boxes EXCEPT ![t] = shown]
<1>1. shown \in SUBSET Places
  <2>1. tt.boxes[t] \in SUBSET Places
    BY TableTypes, ElementOfSeq
  <2>2. QED
    BY <2>1
<1>2. Toggle(tt, t, s) = [items |-> tt.items, tiers |-> [tt.tiers EXCEPT ![t] = x], boxes |-> boxes]
  <2> DEFINE y == [tt.tiers EXCEPT ![t].spots = shown]
  <2>1. Toggle(tt, t, s) = [items |-> tt.items, tiers |-> y, boxes |-> boxes]
    BY Zenon DEF Toggle
  <2> HIDE DEF shown
  <2>2. [tt.tiers[t] EXCEPT !.spots = shown] = x
    <3>1. tt.tiers[t] \in [items : Seq(EntryType), spots : SUBSET Places]
      BY TableTypes DEF Tier
    <3>2. QED
      BY <3>1
  <2>3. y = [tt.tiers EXCEPT ![t] = [tt.tiers[t] EXCEPT !.spots = shown]]
    BY Zenon
  <2>4. y = [tt.tiers EXCEPT ![t] = x]
    <3> HIDE DEF x, y
    <3>1. QED
      BY <2>2, <2>3, Zenon
  <2> HIDE DEF x, y, boxes
  <2>5. QED
    BY <2>1, <2>4, Zenon
<1> HIDE DEF shown
<1>3. x \in Tier /\ x.items = tt.tiers[t].items
  BY <1>1, TableTypes DEF Tier
<1>4. boxes \in Seq(SUBSET Places) /\ Len(boxes) = Len(tt.tiers)
  BY <1>1, TableTypes
<1> HIDE DEF x, boxes
<1>5. QED
  BY <1>2, <1>3, <1>4, TierSetKeeps, TableTypes

(* The page comes up with no box ticked.                                   *)
LEMMA RemountKeeps == ASSUME NEW tt, TableInv(tt) PROVE TableInv(Remount(tt))
<1> DEFINE boxes == [t \in DOMAIN tt.boxes |-> {}]
<1>1. Remount(tt) = [items |-> tt.items, tiers |-> tt.tiers, boxes |-> boxes]
  BY TableReset, Zenon DEF Remount
<1>2. boxes \in Seq(SUBSET Places) /\ Len(boxes) = Len(tt.tiers)
  BY TableTypes
<1> HIDE DEF boxes
<1>3. QED
  BY <1>1, <1>2, TiersKept, TableTypes


(* What Clear leaves.                                                      *)
LEMMA ClearKeeps ==
  ASSUME NEW tt, TableInv(tt), NEW t \in DOMAIN tt.tiers, NEW e \in DOMAIN tt.tiers[t].items
  PROVE  TableInv(Clear(tt, t, e))
<1> DEFINE old == tt.tiers[t].items
           k == old[e].item
           left == RemoveAt(old, e)
           x == [items |-> left, spots |-> tt.tiers[t].spots]
           tiers == IF left = <<>> THEN RemoveAt(tt.tiers, t) ELSE [tt.tiers EXCEPT ![t] = x]
           boxes == SubSeq(tt.boxes, 1, Len(tiers))
<1>1. SUFFICES ASSUME k # 0 PROVE TableInv(Clear(tt, t, e))
  <2>1. k = 0 => Clear(tt, t, e) = tt
    BY Zenon DEF Clear
  <2>2. QED
    BY <2>1
<1>2. Clear(tt, t, e) =
        [items |-> IF Used(tiers, k) THEN tt.items ELSE RemoveAt(tt.items, k),
         tiers |-> IF Used(tiers, k) THEN tiers ELSE Renumber(tiers, k),
         boxes |-> boxes]
  <2> DEFINE y == [tt.tiers EXCEPT ![t].items = left]
             same == IF left = <<>> THEN RemoveAt(tt.tiers, t) ELSE y
  <2>1. Clear(tt, t, e) =
          [items |-> IF Used(same, k) THEN tt.items ELSE RemoveAt(tt.items, k),
           tiers |-> IF Used(same, k) THEN same ELSE Renumber(same, k),
           boxes |-> SubSeq(tt.boxes, 1, Len(same))]
    BY <1>1, Zenon DEF Clear
  <2>2. y = [tt.tiers EXCEPT ![t] = x]
    <3> HIDE DEF left
    <3>1. [tt.tiers[t] EXCEPT !.items = left] = x
      <4>1. tt.tiers[t] \in [items : Seq(EntryType), spots : SUBSET Places]
        BY TableTypes DEF Tier
      <4>2. QED
        BY <4>1
    <3>2. y = [tt.tiers EXCEPT ![t] = [tt.tiers[t] EXCEPT !.items = left]]
      BY Zenon
    <3> HIDE DEF x, y
    <3>3. QED
      BY <3>1, <3>2, Zenon
  <2>3. same = tiers
    <3> HIDE DEF x, y, left
    <3>1. QED
      BY <2>2, Zenon
  <2> HIDE DEF same, tiers
  <2>4. QED
    BY <2>1, <2>3, Zenon
<1>3. /\ left \in Seq(EntryType) /\ DOMAIN left = 1..Len(left)
      /\ \A f \in DOMAIN left : Names(tt.items, left[f])
  <2>1. /\ old \in Seq(EntryType) /\ Len(old) \in Nat /\ e \in 1..Len(old)
        /\ \A f \in 1..Len(old) : Names(tt.items, old[f])
    BY TableTypes
  <2>2. /\ left \in Seq(EntryType) /\ Len(left) = Len(old) - 1
        /\ \A f \in 1..(Len(old) - 1) : left[f] = IF f < e THEN old[f] ELSE old[f + 1]
    BY <2>1, RemovedAt
  <2> HIDE DEF old, left
  <2>3. DOMAIN left = 1..Len(left)
    BY <2>2
  <2>4. \A f \in DOMAIN left : Names(tt.items, left[f])
    BY <2>1, <2>2, <2>3
  <2>5. QED
    BY <2>2, <2>3, <2>4
<1>4. k \in DOMAIN tt.items
  BY <1>1, TableTypes DEF Names
<1> HIDE DEF left, k
<1>5. /\ tiers \in Seq(Tier) /\ Len(tiers) \in 0..Len(tt.tiers) /\ DOMAIN tiers = 1..Len(tiers)
      /\ \A u \in DOMAIN tiers : \A f \in DOMAIN tiers[u].items : Names(tt.items, tiers[u].items[f])
  <2>1. tt.tiers \in Seq(Tier) /\ Len(tt.tiers) \in Nat /\ t \in 1..Len(tt.tiers)
        /\ \A u \in 1..Len(tt.tiers) : \A f \in DOMAIN tt.tiers[u].items :
             Names(tt.items, tt.tiers[u].items[f])
    BY TableTypes
  <2>2. CASE left = <<>>
    <3>1. tiers = RemoveAt(tt.tiers, t)
      BY <2>2, Zenon
    <3>2. /\ tiers \in Seq(Tier) /\ Len(tiers) = Len(tt.tiers) - 1
          /\ \A u \in 1..(Len(tt.tiers) - 1) : tiers[u] = IF u < t THEN tt.tiers[u] ELSE tt.tiers[u + 1]
      <4> HIDE DEF tiers
      <4>1. /\ RemoveAt(tt.tiers, t) \in Seq(Tier) /\ Len(RemoveAt(tt.tiers, t)) = Len(tt.tiers) - 1
            /\ \A u \in 1..(Len(tt.tiers) - 1) :
                 RemoveAt(tt.tiers, t)[u] = IF u < t THEN tt.tiers[u] ELSE tt.tiers[u + 1]
        BY <2>1, RemovedAt, Zenon
      <4>2. QED
        BY <4>1, <3>1, Zenon
    <3> HIDE DEF tiers
    <3>3. DOMAIN tiers = 1..(Len(tt.tiers) - 1)
      BY <3>2
    <3>4. Len(tiers) \in 0..Len(tt.tiers) /\ DOMAIN tiers = 1..Len(tiers)
      BY <2>1, <3>2, <3>3
    <3>5. \A u \in DOMAIN tiers : \E v \in 1..Len(tt.tiers) : tiers[u] = tt.tiers[v]
      <4> SUFFICES ASSUME NEW u \in DOMAIN tiers
                   PROVE  \E v \in 1..Len(tt.tiers) : tiers[u] = tt.tiers[v]
        OBVIOUS
      <4>1. u \in 1..Len(tt.tiers) /\ u + 1 \in 1..Len(tt.tiers)
        BY <2>1, <3>3
      <4>2. tiers[u] \in {tt.tiers[u], tt.tiers[u + 1]}
        BY <3>2, <3>3
      <4>3. QED
        BY <4>1, <4>2
    <3>6. \A u \in DOMAIN tiers : \A f \in DOMAIN tiers[u].items :
            Names(tt.items, tiers[u].items[f])
      BY <2>1, <3>5
    <3>7. QED
      BY <3>2, <3>4, <3>6
  <2>3. CASE left # <<>>
    <3>1. tiers = [tt.tiers EXCEPT ![t] = x]
      BY <2>3, Zenon
    <3>2. x \in Tier /\ x.items = left
      BY <1>3, TableTypes DEF Tier
    <3> HIDE DEF tiers, x
    <3>3. /\ tiers \in Seq(Tier) /\ Len(tiers) = Len(tt.tiers) /\ DOMAIN tiers = 1..Len(tt.tiers)
          /\ \A u \in 1..Len(tt.tiers) : tiers[u] = IF u = t THEN x ELSE tt.tiers[u]
      BY <2>1, <3>1, <3>2
    <3>4. Len(tiers) \in 0..Len(tt.tiers) /\ DOMAIN tiers = 1..Len(tiers)
      BY <2>1, <3>3
    <3>5. \A f \in DOMAIN left : Names(tt.items, left[f])
      BY <1>3
    <3>6. \A u \in DOMAIN tiers : \A f \in DOMAIN tiers[u].items :
            Names(tt.items, tiers[u].items[f])
      <4> SUFFICES ASSUME NEW u \in DOMAIN tiers, NEW f \in DOMAIN tiers[u].items
                   PROVE  Names(tt.items, tiers[u].items[f])
        OBVIOUS
      <4>1. u \in 1..Len(tt.tiers)
        BY <3>3
      <4>2. CASE u = t
        <5>1. tiers[u].items = left
          BY <4>1, <4>2, <3>2, <3>3
        <5>2. QED
          BY <5>1, <3>5
      <4>3. CASE u # t
        <5>1. tiers[u] = tt.tiers[u]
          BY <4>1, <4>3, <3>3
        <5>2. QED
          BY <5>1, <4>1, <2>1
      <4>4. QED
        BY <4>2, <4>3
    <3>7. QED
      BY <3>3, <3>4, <3>6
  <2>4. QED
    BY <2>2, <2>3
<1> HIDE DEF tiers
<1>6. boxes \in Seq(SUBSET Places) /\ Len(boxes) = Len(tiers)
  <2>1. tt.boxes \in Seq(SUBSET Places) /\ Len(tt.boxes) \in Nat /\ Len(tiers) \in 0..Len(tt.boxes)
    BY <1>5, TableTypes
  <2>2. QED
    BY <2>1
<1> HIDE DEF boxes
<1>7. CASE Used(tiers, k)
  <2>1. Clear(tt, t, e) = [items |-> tt.items, tiers |-> tiers, boxes |-> boxes]
    BY <1>2, <1>7, Zenon
  <2>2. QED
    BY <2>1, <1>5, <1>6, TiersKept
<1>8. CASE ~Used(tiers, k)
  <2> DEFINE items == RemoveAt(tt.items, k)
             new == Renumber(tiers, k)
             uu == [items |-> items, tiers |-> new, boxes |-> boxes]
  <2>1. Clear(tt, t, e) = uu
    BY <1>2, <1>8, Zenon
  <2>2. /\ items \in Seq(Nat) /\ Len(items) = Len(tt.items) - 1 /\ DOMAIN items = 1..Len(items)
        /\ \A j \in 1..(Len(tt.items) - 1) : items[j] = IF j < k THEN tt.items[j] ELSE tt.items[j + 1]
    <3>1. tt.items \in Seq(Nat) /\ Len(tt.items) \in Nat /\ k \in 1..Len(tt.items)
      BY <1>4, TableTypes
    <3>2. /\ items \in Seq(Nat) /\ Len(items) = Len(tt.items) - 1
          /\ \A j \in 1..(Len(tt.items) - 1) : items[j] = IF j < k THEN tt.items[j] ELSE tt.items[j + 1]
      BY <3>1, RemovedAt
    <3> HIDE DEF items
    <3>3. DOMAIN items = 1..Len(items)
      BY <3>2
    <3>4. QED
      BY <3>2, <3>3
  <2> HIDE DEF items
  <2>3. Len(tt.items) \in Nat /\ k \in 1..Len(tt.items) /\ IsInjective(tt.items)
        /\ DOMAIN tt.items = 1..Len(tt.items)
    BY <1>4, TableTypes DEF TableInv
  <2>4. IsInjective(items)
    <3>1. SUFFICES ASSUME NEW a \in 1..(Len(tt.items) - 1), NEW b \in 1..(Len(tt.items) - 1),
                          items[a] = items[b]
                   PROVE  a = b
      BY <2>2, <2>3 DEF IsInjective
    <3> DEFINE from(i) == IF i < k THEN i ELSE i + 1
    <3>2. /\ from(a) \in 1..Len(tt.items) /\ from(b) \in 1..Len(tt.items)
          /\ from(a) = from(b) => a = b
      BY <2>3
    <3>3. items[a] = tt.items[from(a)] /\ items[b] = tt.items[from(b)]
      BY <2>2
    <3> HIDE DEF from
    <3>4. from(a) = from(b)
      BY <3>1, <3>2, <3>3, <2>3 DEF IsInjective
    <3>5. QED
      BY <3>2, <3>4
  <2> DEFINE Less(y) == IF y.item > k THEN [y EXCEPT !.item = @ - 1] ELSE y
  <2>5. ASSUME NEW y \in EntryType, y.item # k, Names(tt.items, y)
        PROVE  Less(y) \in EntryType /\ Names(items, Less(y))
    <3>1. y.item \in Nat
      BY DEF EntryType
    <3>2. CASE y.item > k
      <4> DEFINE z == [y EXCEPT !.item = y.item - 1]
      <4>1. Less(y) = z
        BY <3>2, Zenon
      <4>2. y.item - 1 \in Nat
        BY <3>1, <3>2, <2>3
      <4>3. z \in EntryType /\ z.item = y.item - 1 /\ z.art = y.art
        BY <4>2 DEF EntryType
      <4> HIDE DEF z
      <4>4. Names(items, z)
        BY SMTT(30), <4>3, <3>1, <3>2, <2>2, <2>3, <2>5 DEF Names
      <4>5. QED
        BY <4>1, <4>3, <4>4, Zenon
    <3>3. CASE ~(y.item > k)
      <4>1. Less(y) = y
        BY <3>3, Zenon
      <4>2. Names(items, y)
        <5>1. SUFFICES ASSUME y.item # 0
                       PROVE  y.item \in 1..(Len(tt.items) - 1) /\ items[y.item] = y.art
          BY <2>2 DEF Names
        <5>2. y.item \in 1..Len(tt.items) /\ tt.items[y.item] = y.art
          BY <5>1, <2>3, <2>5 DEF Names
        <5>3. y.item < k
          BY <3>1, <3>3, <2>3, <2>5
        <5>4. y.item \in 1..(Len(tt.items) - 1)
          BY <5>2, <5>3, <2>3
        <5>5. items[y.item] = IF y.item < k THEN tt.items[y.item] ELSE tt.items[y.item + 1]
          BY <5>4, <2>2
        <5>6. QED
          BY <5>2, <5>3, <5>4, <5>5
      <4>3. QED
        BY <4>1, <4>2, <2>5, Zenon
    <3>4. QED
      BY <3>2, <3>3
  <2>6. new = [u \in DOMAIN tiers |->
                 [tiers[u] EXCEPT !.items = [f \in DOMAIN tiers[u].items |-> Less(tiers[u].items[f])]]]
    BY Zenon DEF Renumber
  <2>7. ASSUME NEW u \in DOMAIN tiers
        PROVE  LET v == [tiers[u] EXCEPT !.items = [f \in DOMAIN tiers[u].items |-> Less(tiers[u].items[f])]]
               IN v \in Tier /\ \A f \in DOMAIN v.items : Names(items, v.items[f])
    <3> DEFINE w == tiers[u].items
               r == [f \in DOMAIN w |-> Less(w[f])]
               v == [tiers[u] EXCEPT !.items = r]
    <3>1. tiers[u] \in Tier
      BY <1>5, ElementOfSeq
    <3>2. w \in Seq(EntryType)
      BY <3>1 DEF Tier
    <3>3. DOMAIN w = 1..Len(w) /\ Len(w) \in Nat /\ \A f \in DOMAIN w : w[f] \in EntryType
      <4> HIDE DEF w
      <4>1. QED
        BY <3>2, ElementOfSeq
    <3>4. \A f \in DOMAIN w : w[f].item # k /\ Names(tt.items, w[f])
      BY <1>5, <1>8 DEF Used
    <3> HIDE DEF w
    <3>5. \A f \in DOMAIN w : Less(w[f]) \in EntryType /\ Names(items, Less(w[f]))
      <4> HIDE DEF Less
      <4>1. QED
        BY <3>3, <3>4, <2>5
    <3> HIDE DEF Less
    <3>6. r \in Seq(EntryType) /\ DOMAIN r = DOMAIN w /\ \A f \in DOMAIN r : Names(items, r[f])
      BY <3>3, <3>5
    <3> HIDE DEF r
    <3>7. v \in Tier /\ v.items = r
      BY <3>1, <3>6 DEF Tier
    <3> HIDE DEF v
    <3>8. v \in Tier /\ \A f \in DOMAIN v.items : Names(items, v.items[f])
      BY <3>6, <3>7
    <3>9. QED
      BY <3>8 DEF v, r, w
  <2> DEFINE V(u) == [tiers[u] EXCEPT !.items = [f \in DOMAIN tiers[u].items |-> Less(tiers[u].items[f])]]
  <2>8. \A u \in DOMAIN tiers : V(u) \in Tier /\ \A f \in DOMAIN V(u).items : Names(items, V(u).items[f])
    BY <2>7, Zenon
  <2>9. new = [u \in DOMAIN tiers |-> V(u)]
    BY <2>6, Zenon
  <2> HIDE DEF V, Less, new
  <2>10. /\ new \in Seq(Tier) /\ Len(new) = Len(tiers) /\ DOMAIN new = DOMAIN tiers
         /\ \A u \in DOMAIN new : \A f \in DOMAIN new[u].items : Names(items, new[u].items[f])
    BY <2>8, <2>9, <1>5
  <2>11. TableInv(uu)
    <3>1. uu.items = items /\ uu.tiers = new /\ uu.boxes = boxes
      OBVIOUS
    <3>2. uu \in Tables
      BY <2>2, <2>10, <1>6 DEF Tables
    <3> HIDE DEF uu
    <3>3. QED
      BY <3>1, <3>2, <2>4, <2>10, <1>6 DEF TableInv
  <2>12. QED
    BY <2>1, <2>11
<1>9. QED
  BY <1>7, <1>8

(* An entry that changes and names its artwork.                            *)
LEMMA EntrySetKeeps ==
  ASSUME NEW tt, TableInv(tt), NEW t \in DOMAIN tt.tiers, NEW e \in DOMAIN tt.tiers[t].items,
         NEW y \in EntryType, Names(tt.items, y)
  PROVE  TableInv([items |-> tt.items, tiers |-> [tt.tiers EXCEPT ![t].items[e] = y],
                   boxes |-> tt.boxes])
<1> DEFINE old == tt.tiers[t].items
           new == [old EXCEPT ![e] = y]
           x == [items |-> new, spots |-> tt.tiers[t].spots]
           changed == [tt.tiers EXCEPT ![t].items[e] = y]
<1>1. /\ new \in Seq(EntryType) /\ DOMAIN new = DOMAIN old
      /\ \A f \in DOMAIN old : new[f] = IF f = e THEN y ELSE old[f]
  BY TableTypes
<1>2. changed = [tt.tiers EXCEPT ![t] = x]
  <2>1. tt.tiers[t] \in [items : Seq(EntryType), spots : SUBSET Places]
    BY TableTypes DEF Tier
  <2> HIDE DEF new
  <2>2. [tt.tiers[t] EXCEPT !.items = new] = x
    BY <2>1
  <2>3. changed = [tt.tiers EXCEPT ![t] = [tt.tiers[t] EXCEPT !.items = new]]
    BY Zenon DEF new
  <2> HIDE DEF x, changed
  <2>4. QED
    BY <2>2, <2>3, Zenon
<1> HIDE DEF new
<1>3. \A f \in DOMAIN new : Names(tt.items, new[f])
  BY <1>1, TableTypes
<1>4. x \in Tier /\ x.items = new
  BY <1>1, TableTypes DEF Tier
<1> HIDE DEF x, changed
<1>5. TableInv([items |-> tt.items, tiers |-> [tt.tiers EXCEPT ![t] = x], boxes |-> tt.boxes])
  BY <1>3, <1>4, TierSetKeeps, TableTypes
<1>6. TableInv([items |-> tt.items, tiers |-> changed, boxes |-> tt.boxes])
  BY <1>2, <1>5, Zenon
<1>7. QED
  BY <1>6 DEF changed

(* The type of an entry follows from its artwork.                          *)
LEMMA TypeOfArt == ASSUME NEW a PROVE TypeOf(a) \in PrizeTypes
BY DEF TypeOf, PrizeTypes, Printing

(* An artwork that is chosen is at its place, the last one if it is new.   *)
LEMMA ChooseKeeps ==
  ASSUME NEW tt, TableInv(tt), NEW t \in DOMAIN tt.tiers, NEW e \in DOMAIN tt.tiers[t].items,
         NEW a \in Nat
  PROVE  TableInv(Choose(tt, t, e, a))
<1> DEFINE items == IF \E k \in DOMAIN tt.items : tt.items[k] = a
                    THEN tt.items ELSE Append(tt.items, a)
           n == CHOOSE k \in DOMAIN items : items[k] = a
           y == [item |-> n, art |-> a, type |-> TypeOf(a), amount |-> 1]
           uu == [items |-> items, tiers |-> tt.tiers, boxes |-> tt.boxes]
<1>1. Choose(tt, t, e, a) =
        [items |-> items, tiers |-> [tt.tiers EXCEPT ![t].items[e] = y], boxes |-> tt.boxes]
  BY Zenon DEF Choose
<1>2. tt.items \in Seq(Nat) /\ Len(tt.items) \in Nat /\ DOMAIN tt.items = 1..Len(tt.items)
      /\ IsInjective(tt.items)
  BY TableTypes DEF TableInv
<1>3. /\ items \in Seq(Nat) /\ IsInjective(items)
      /\ \A k \in DOMAIN tt.items : k \in DOMAIN items /\ items[k] = tt.items[k]
      /\ \E k \in DOMAIN items : items[k] = a
  <2>1. CASE \E k \in DOMAIN tt.items : tt.items[k] = a
    BY <2>1, <1>2
  <2>2. CASE ~ \E k \in DOMAIN tt.items : tt.items[k] = a
    <3>1. items = Append(tt.items, a)
      BY <2>2, Zenon
    <3> HIDE DEF items
    <3>2. /\ items \in Seq(Nat) /\ Len(items) = Len(tt.items) + 1
          /\ DOMAIN items = 1..(Len(tt.items) + 1) /\ items[Len(tt.items) + 1] = a
          /\ \A k \in 1..Len(tt.items) : items[k] = tt.items[k]
      BY <3>1, <1>2
    <3>3. ASSUME NEW j \in DOMAIN items, NEW k \in DOMAIN items, items[j] = items[k]
          PROVE  j = k
      <4>1. j \in 1..(Len(tt.items) + 1) /\ k \in 1..(Len(tt.items) + 1)
        BY <3>2
      <4>2. CASE j \in 1..Len(tt.items) /\ k \in 1..Len(tt.items)
        BY <4>2, <3>2, <3>3, <1>2 DEF IsInjective
      <4>3. CASE ~(j \in 1..Len(tt.items) /\ k \in 1..Len(tt.items))
        <5>1. j = k \/ \E l \in 1..Len(tt.items) : items[l] = a
          <6>1. \A l \in {j, k} : l = Len(tt.items) + 1 \/ l \in 1..Len(tt.items)
            BY <4>1, <1>2
          <6>2. items[j] = items[k] /\ items[Len(tt.items) + 1] = a
            BY <3>2, <3>3
          <6> HIDE DEF items
          <6>3. QED
            BY <4>3, <6>1, <6>2
        <5>2. ~ \E l \in 1..Len(tt.items) : items[l] = a
          BY <3>2, <2>2, <1>2
        <5>3. QED
          BY <5>1, <5>2
      <4>4. QED
        BY <4>2, <4>3
    <3>4. Len(tt.items) + 1 \in DOMAIN items
      BY <3>2, <1>2
    <3>5. \A k \in DOMAIN tt.items : k \in DOMAIN items /\ items[k] = tt.items[k]
      BY <3>2, <1>2
    <3>6. IsInjective(items)
      BY <3>3 DEF IsInjective
    <3>7. QED
      BY <3>2, <3>4, <3>5, <3>6
  <2>3. QED
    BY <2>1, <2>2
<1> HIDE DEF items
<1>4. n \in DOMAIN items /\ items[n] = a
  BY <1>3, Zenon
<1>5. n \in Nat
  BY <1>3, <1>4
<1> HIDE DEF n
<1>6. y \in EntryType /\ Names(items, y)
  BY <1>4, <1>5, TypeOfArt DEF EntryType, Names
<1> HIDE DEF y
<1>7. TableInv(uu)
  <2>1. uu.items = items /\ uu.tiers = tt.tiers /\ uu.boxes = tt.boxes
    OBVIOUS
  <2>2. uu \in Tables
    BY <1>3, TableTypes DEF Tables
  <2> HIDE DEF uu
  <2>3. \A u \in DOMAIN uu.tiers : \A f \in DOMAIN uu.tiers[u].items : Names(uu.items, uu.tiers[u].items[f])
    <3>1. SUFFICES ASSUME NEW u \in DOMAIN tt.tiers, NEW f \in DOMAIN tt.tiers[u].items
                   PROVE  Names(items, tt.tiers[u].items[f])
      BY <2>1
    <3>2. Names(tt.items, tt.tiers[u].items[f])
      BY TableTypes
    <3>3. QED
      BY <3>2, <1>3 DEF Names
  <2>4. QED
    BY <2>1, <2>2, <2>3, <1>3, TableTypes DEF TableInv
<1>8. uu.items = items /\ uu.tiers = tt.tiers /\ uu.boxes = tt.boxes
  OBVIOUS
<1> HIDE DEF uu
<1>9. TableInv([items |-> uu.items, tiers |-> [uu.tiers EXCEPT ![t].items[e] = y], boxes |-> uu.boxes])
  BY <1>6, <1>7, <1>8, EntrySetKeeps
<1>10. QED
  BY <1>1, <1>8, <1>9, Zenon

(* What the selector gives is chosen or cleared.                           *)
LEMMA PickKeeps ==
  ASSUME NEW tt, TableInv(tt), NEW t \in DOMAIN tt.tiers, NEW e \in DOMAIN tt.tiers[t].items,
         NEW a \in Nat
  PROVE  TableInv(Pick(tt, t, e, a))
<1> DEFINE art == tt.tiers[t].items[e].art
           had == {art} \ {0}
           chosen == IF a \in had THEN had \ {a} ELSE had \cup {a}
<1>1. Pick(tt, t, e, a) = IF chosen = {} THEN Clear(tt, t, e) ELSE Choose(tt, t, e, Min(chosen))
  BY Zenon DEF Pick
<1>2. art \in Nat
  BY TableTypes DEF EntryType
<1>3. ASSUME chosen # {} PROVE Min(chosen) \in Nat
  <2>1. \E m \in chosen : \A n \in chosen : m <= n
    <3>1. chosen \in SUBSET {a, art}
      OBVIOUS
    <3> HIDE DEF chosen
    <3>2. CASE art \in chosen /\ a \in chosen
      BY <1>2, <3>1, <3>2
    <3>3. CASE art \notin chosen \/ a \notin chosen
      <4>1. PICK m \in chosen : TRUE
        BY <1>3
      <4>2. \A x \in chosen : x = m
        BY <3>1, <3>3, <4>1
      <4>3. m \in Nat
        BY <1>2, <3>1, <4>1
      <4>4. QED
        BY <4>2, <4>3
    <3>4. QED
      BY <3>2, <3>3
  <2>2. chosen \subseteq Nat
    BY <1>2
  <2> HIDE DEF chosen
  <2>3. Min(chosen) \in chosen
    BY <2>1, Zenon DEF Min
  <2>4. QED
    BY <2>2, <2>3
<1> HIDE DEF chosen
<1>4. QED
  BY <1>1, <1>3, ClearKeeps, ChooseKeeps

(* An entry keeps its artwork when its type or its amount changes.         *)
LEMMA RetypeKeeps ==
  ASSUME NEW tt, TableInv(tt), NEW t \in DOMAIN tt.tiers, NEW e \in DOMAIN tt.tiers[t].items
  PROVE  /\ \A type \in PrizeTypes : TableInv(Retype(tt, t, e, type))
         /\ \A n \in Nat : TableInv(SetAmount(tt, t, e, n))
<1> DEFINE y == tt.tiers[t].items[e]
<1>1. y \in [item : Nat, art : Nat, type : {"none"} \cup PrizeTypes, amount : Nat] /\ Names(tt.items, y)
  BY TableTypes DEF EntryType
<1> HIDE DEF y
<1>2. ASSUME NEW x \in EntryType, x.item = y.item, x.art = y.art
      PROVE  TableInv([tt EXCEPT !.tiers[t].items[e] = x])
  <2>1. Names(tt.items, x)
    BY <1>1, <1>2 DEF Names
  <2> DEFINE z == [tt.tiers EXCEPT ![t].items[e] = x]
  <2>2. TableInv([items |-> tt.items, tiers |-> z, boxes |-> tt.boxes])
    BY <2>1, EntrySetKeeps
  <2>3. [tt EXCEPT !.tiers[t].items[e] = x] = [tt EXCEPT !.tiers = z]
    BY Zenon
  <2> HIDE DEF z
  <2>4. QED
    BY <2>2, <2>3, TableReset
<1>3. ASSUME NEW type \in PrizeTypes PROVE TableInv([tt EXCEPT !.tiers[t].items[e].type = type])
  <2> DEFINE x == [y EXCEPT !.type = type]
  <2>1. x \in EntryType /\ x.item = y.item /\ x.art = y.art
    BY <1>1 DEF EntryType
  <2>2. [tt EXCEPT !.tiers[t].items[e].type = type] = [tt EXCEPT !.tiers[t].items[e] = x]
    BY Zenon DEF y
  <2> HIDE DEF x
  <2>3. QED
    BY <2>1, <2>2, <1>2
<1>4. ASSUME NEW n \in Nat PROVE TableInv(SetAmount(tt, t, e, n))
  <2> DEFINE x == [y EXCEPT !.amount = n]
  <2>1. x \in EntryType /\ x.item = y.item /\ x.art = y.art
    BY <1>1 DEF EntryType
  <2>2. SetAmount(tt, t, e, n) = [tt EXCEPT !.tiers[t].items[e] = x]
    BY Zenon DEF y, SetAmount
  <2> HIDE DEF x
  <2>3. QED
    BY <2>1, <2>2, <1>2
<1>5. ASSUME NEW type \in PrizeTypes PROVE TableInv(Retype(tt, t, e, type))
  <2>1. PICK u \in PrizeTypes : Retype(tt, t, e, type) = [tt EXCEPT !.tiers[t].items[e].type = u]
    <3>1. "PrintingV1" \in PrizeTypes
      BY DEF PrizeTypes, Printing
    <3> DEFINE u == IF type = "PrintingV2" /\ tt.tiers[t].items[e].item > 1
                       /\ Arts[tt.items[tt.tiers[t].items[e].item]].edition = "V1"
                    THEN "PrintingV1" ELSE type
    <3>2. Retype(tt, t, e, type) = [tt EXCEPT !.tiers[t].items[e].type = u]
      BY Zenon DEF Retype
    <3>3. u \in PrizeTypes
      BY <3>1
    <3> HIDE DEF u
    <3>4. QED
      BY <3>2, <3>3, Zenon
  <2>2. QED
    BY <2>1, <1>3
<1>6. QED
  BY <1>4, <1>5

(* The entries that have a type, in their order.                           *)
LEMMA TypedTier ==
  ASSUME NEW x \in Tier
  PROVE  /\ Typed(x) \in Tier
         /\ \A f \in DOMAIN Typed(x).items : \E e \in DOMAIN x.items : Typed(x).items[f] = x.items[e]
<1> DEFINE s == x.items
           n == Len(s)
           S == {s[e] : e \in DOMAIN s}
           T == Seq(S)
           go == [i \in 1..n |-> [k \in T |-> IF s[i].type = "none" THEN k ELSE Append(k, s[i])]]
           IsKept(f) == f = [i \in 0..n |-> IF i = 0 THEN <<>>
                                            ELSE IF s[i].type = "none" THEN f[i - 1]
                                            ELSE Append(f[i - 1], s[i])]
           kept == CHOOSE f : IsKept(f)
<1>1. s \in Seq(EntryType) /\ n \in Nat /\ DOMAIN s = 1..n
  BY DEF Tier
<1>2. <<>> \in T /\ \A i \in 1..n : s[i] \in S
  BY <1>1, EmptySeq
<1> HIDE DEF S
<1>3. go \in [1..n -> [T -> T]]
  BY <1>2, AppendProperties
<1>4. PICK f : Stepping(f, n, T, <<>>, go)
  <2> HIDE DEF go, T, n
  <2>1. QED
    BY <1>1, <1>2, <1>3, StepFunction
<1>5. f \in [0..n -> T] /\ f = [i \in 0..n |-> IF i = 0 THEN <<>> ELSE go[i][f[i - 1]]]
  <2> HIDE DEF go, T, n
  <2>1. QED
    BY <1>4, Zenon DEF Stepping
<1>6. IsKept(f) /\ f \in [0..n -> T]
  <2>1. \A i \in 1..n : f[i - 1] \in T
    <3> HIDE DEF go, T, n
    <3>1. \A i \in 1..n : i - 1 \in 0..n
      BY <1>1
    <3>2. f \in [0..n -> T]
      BY <1>5
    <3>3. QED
      BY <3>1, <3>2, Zenon
  <2>2. \A i \in 1..n : go[i][f[i - 1]] = IF s[i].type = "none" THEN f[i - 1] ELSE Append(f[i - 1], s[i])
    BY <2>1, Zenon
  <2> HIDE DEF go
  <2>3. \A i \in 0..n : (IF i = 0 THEN <<>> ELSE go[i][f[i - 1]])
                         = IF i = 0 THEN <<>> ELSE IF s[i].type = "none" THEN f[i - 1]
                                                   ELSE Append(f[i - 1], s[i])
    BY <2>2, <1>1
  <2>4. IsKept(f)
    BY <1>5, <2>3, Zenon
  <2>5. QED
    BY <1>5, <2>4
<1>7. IsKept(kept)
  <2> HIDE DEF IsKept
  <2>1. QED
    BY <1>6, Zenon DEF kept
<1>8. Typed(x) = [x EXCEPT !.items = kept[n]]
  BY Zenon DEF Typed
<1> HIDE DEF kept
<1>9. kept[n] \in T
  <2> DEFINE G == {i \in 0..n : kept[i] \in T}
  <2> HIDE DEF n, T
  <2>1. kept[0] = <<>> /\ \A i \in 1..n : kept[i] = IF s[i].type = "none" THEN kept[i - 1]
                                                    ELSE Append(kept[i - 1], s[i])
    <3> DEFINE V(i) == IF i = 0 THEN <<>> ELSE IF s[i].type = "none" THEN kept[i - 1]
                       ELSE Append(kept[i - 1], s[i])
    <3>1. kept = [i \in 0..n |-> V(i)]
      BY <1>7, Zenon
    <3>2. \A i \in 0..n : kept[i] = V(i)
      <4> HIDE DEF V
      <4>1. QED
        BY <3>1
    <3>3. 0 \in 0..n /\ \A i \in 1..n : i \in 0..n /\ i # 0
      BY <1>1
    <3>4. QED
      BY <3>2, <3>3, Zenon
  <2>2. 0 \in G
    BY <1>1, <1>2, <2>1
  <2>3. \A i \in 1..n : i - 1 \in G => i \in G
    <3>1. SUFFICES ASSUME NEW i \in 1..n, kept[i - 1] \in T PROVE kept[i] \in T
      BY <1>1
    <3>2. Append(kept[i - 1], s[i]) \in T
      BY <3>1, <1>2, AppendProperties DEF T
    <3>3. QED
      BY <3>1, <3>2, <2>1
  <2> HIDE DEF G
  <2>4. n \in G
    BY <1>1, <2>2, <2>3, StepByStep
  <2>5. QED
    BY <2>4 DEF G
<1> DEFINE k == kept[n]
<1>10. k \in Seq(S)
  BY <1>9
<1> HIDE DEF k, T
<1>11. S \subseteq EntryType
  BY <1>1, ElementOfSeq DEF S
<1>12. k \in Seq(EntryType) /\ \A i \in DOMAIN k : k[i] \in S
  BY <1>10, <1>11, ElementOfSeq
<1>13. Typed(x) \in Tier /\ Typed(x).items = k
  BY <1>8, <1>12 DEF Tier, k
<1>14. QED
  BY <1>12, <1>13 DEF S

(* Dropping the entries without a type leaves the others as they are.      *)
LEMMA SweptKeeps == ASSUME NEW tt, TableInv(tt), NEW a PROVE TableInv(Swept(a, tt))
<1> DEFINE tiers == [t \in DOMAIN tt.tiers |-> Typed(tt.tiers[t])]
<1>1. Swept(a, tt) = IF a.category # "Tiered" THEN tt ELSE [tt EXCEPT !.tiers = tiers]
  BY Zenon DEF Swept
<1>2. ASSUME NEW t \in DOMAIN tt.tiers
      PROVE  /\ Typed(tt.tiers[t]) \in Tier
             /\ \A f \in DOMAIN Typed(tt.tiers[t]).items : Names(tt.items, Typed(tt.tiers[t]).items[f])
  <2>1. tt.tiers[t] \in Tier /\ \A e \in DOMAIN tt.tiers[t].items : Names(tt.items, tt.tiers[t].items[e])
    BY TableTypes
  <2>2. QED
    BY <2>1, TypedTier
<1>3. /\ tiers \in Seq(Tier) /\ Len(tiers) = Len(tt.tiers) /\ DOMAIN tiers = DOMAIN tt.tiers
      /\ \A t \in DOMAIN tiers : tiers[t] = Typed(tt.tiers[t])
  BY <1>2, TableTypes
<1> HIDE DEF tiers
<1>4. \A t \in DOMAIN tiers : \A f \in DOMAIN tiers[t].items : Names(tt.items, tiers[t].items[f])
  BY <1>2, <1>3
<1>5. TableInv([items |-> tt.items, tiers |-> tiers, boxes |-> tt.boxes])
  BY <1>3, <1>4, TiersKept, TableTypes
<1>6. [tt EXCEPT !.tiers = tiers] = [items |-> tt.items, tiers |-> tiers, boxes |-> tt.boxes]
  BY TableReset
<1>7. QED
  BY <1>1, <1>5, <1>6

(* A new table has nothing to name.                                        *)
LEMMA NewTableKeeps == TableInv(NewTable)
<1>1. NewTable \in Tables /\ NewTable.items = <<>> /\ NewTable.tiers = <<>> /\ NewTable.boxes = <<>>
  BY EmptySeq DEF NewTable, Tables
<1>2. QED
  BY <1>1 DEF TableInv, IsInjective

(* The page that comes up.                                                 *)
LEMMA ShowKeeps ==
  ASSUME TableInv(table), NEW n, NEW a, NEW count, NEW wait, Show(n, a, table, count, wait)
  PROVE  TableInv(table')
<1>1. table' \in {table, Swept(a, table), Remount(table)}
  BY Zenon DEF Show
<1>2. QED
  BY <1>1, SweptKeeps, RemountKeeps

(* Every step keeps the table's numbers.                                   *)
LEMMA TableStep == TableNamed /\ [WizardNext]_wizardVars => TableInv(table')
<1> SUFFICES ASSUME TableNamed, [WizardNext]_wizardVars PROVE TableInv(table')
  OBVIOUS
<1> TableInv(table)
  BY DEF TableNamed
<1>1. CASE Continue \/ Back \/ ReviewStep \/ WaitingStep
  BY <1>1, ShowKeeps DEF Continue, gotoNextStep, Back, ReviewStep, WaitingStep
<1>2. ASSUME NEW c \in DOMAIN Pages, CategoryStep(c) PROVE TableInv(table')
  BY <1>2, ShowKeeps DEF CategoryStep
<1>3. ASSUME NEW n \in 0..9, Browser(n) PROVE TableInv(table')
  BY <1>3, ShowKeeps DEF Browser
<1>4. CASE Reload
  BY <1>4, NewTableKeeps DEF Reload
<1>5. ASSUME table' = table PROVE TableInv(table')
  BY <1>5
<1>6. CASE PublishFails \/ CopiesOpen \/ ParticipationOpen \/ CloseModal
  BY <1>5, <1>6 DEF PublishFails, CopiesOpen, ParticipationOpen, CloseModal
<1>7. ASSUME NEW a \in Works, CopiesSelect(a) \/ ParticipationStep(a) PROVE TableInv(table')
  BY <1>5, <1>7 DEF CopiesSelect, ParticipationStep
<1>8. ASSUME NEW n, CopiesStep(n) \/ NumberOfWinnersStep(n) PROVE TableInv(table')
  BY <1>5, <1>8 DEF CopiesStep, NumberOfWinnersStep, Answer
<1>9. CASE PriceStep \/ EndingPhaseStep \/ InitialPhaseStep
  BY <1>5, <1>9 DEF PriceStep, EndingPhaseStep, InitialPhaseStep, PriceAuction,
                    EndingPhaseAuction, Answer
<1>10. CASE TierTableStep
  <2>1. CASE TierAdded
    BY <2>1, AddTierKeeps DEF TierAdded, Rearrange
  <2>2. CASE EntryAdded
    BY <2>2, AddEntryKeeps DEF EntryAdded, Rearrange
  <2>3. CASE SpotToggled
    <3>1. PICK t \in DOMAIN table.tiers, s \in 0..ans.winners - 1 : table' = Toggle(table, t, s)
      BY <2>3 DEF SpotToggled, Edit
    <3>2. s \in Places
      <4>1. ans.winners \in 1..10
        BY DEF TableNamed, Asked
      <4>2. s \in 0..9
        BY <4>1
      <4>3. Places = 0..9
        BY DEF Places, MaxSpots
      <4>4. QED
        BY <4>2, <4>3
    <3>3. QED
      BY <3>1, <3>2, ToggleKeeps
  <2>4. \A c \in Cells : c[1] \in DOMAIN table.tiers /\ c[2] \in DOMAIN table.tiers[c[1]].items
    <3>1. SUFFICES ASSUME NEW c \in Cells
                   PROVE  c[1] \in DOMAIN table.tiers /\ c[2] \in DOMAIN table.tiers[c[1]].items
      OBVIOUS
    <3>2. /\ c[1] \in 1..Len(table.tiers) /\ c[2] \in 1..MaxEntries
          /\ c[2] <= Len(table.tiers[c[1]].items)
      BY DEF Cells
    <3>3. c[1] \in DOMAIN table.tiers /\ MaxEntries \in Nat
      BY <3>2, TableTypes, WizardAssumption
    <3>4. Len(table.tiers[c[1]].items) \in Nat
          /\ DOMAIN table.tiers[c[1]].items = 1..Len(table.tiers[c[1]].items)
      BY <3>3, TableTypes
    <3>5. QED
      BY <3>2, <3>3, <3>4
  <2>5. CASE CellOpened \/ CellClosed
    BY <2>4, <2>5, ClearKeeps DEF CellOpened, CellClosed, Rearrange
  <2>6. CASE CellSelected
    <3>1. Works \subseteq Nat
      <4>1. Arts \in Seq([edition : {"none", "V1", "V2"}, limited : BOOLEAN, own : BOOLEAN])
        BY ArtsAssumption
      <4>2. QED
        BY <4>1 DEF Works
    <3>2. QED
      BY <2>4, <2>6, <3>1, PickKeeps DEF CellSelected, Edit
  <2>7. CASE TypeSelected
    BY <2>4, <2>7, RetypeKeeps DEF TypeSelected, Edit
  <2>8. CASE AmountTyped
    BY <2>4, <2>8, RetypeKeeps, WizardAssumption DEF AmountTyped, Edit
  <2>9. QED
    BY <1>10, <2>1, <2>2, <2>3, <2>5, <2>6, <2>7, <2>8 DEF TierTableStep
<1>11. CASE UNCHANGED wizardVars
  BY <1>11 DEF wizardVars
<1>12. QED
  BY <1>1, <1>2, <1>3, <1>4, <1>6, <1>7, <1>8, <1>9, <1>10, <1>11 DEF WizardNext

(* The page that comes up keeps the answers' types.                        *)
LEMMA ShowAsks ==
  ASSUME NEW n, NEW a \in Asked, NEW tt, NEW count, NEW wait, Show(n, a, tt, count, wait)
  PROVE  ans' \in Asked
<1>1. ans' \in {a, OpenInitial(a)}
  BY Zenon DEF Show
<1>2. OpenInitial(a) \in Asked
  <2> DEFINE both == a.startSale /\ a.startList
  <2>1. both \in BOOLEAN /\ FALSE \in BOOLEAN
    OBVIOUS
  <2>2. OpenInitial(a) = [a EXCEPT !.startSale = both, !.startList = FALSE]
    BY Zenon DEF OpenInitial
  <2> HIDE DEF both
  <2>3. QED
    BY <2>1, <2>2 DEF Asked
<1>3. QED
  BY <1>1, <1>2

(* Every step keeps the answers' types: ten winners at most.               *)
LEMMA AnswersStep == ans \in Asked /\ [WizardNext]_wizardVars => ans' \in Asked
<1> SUFFICES ASSUME ans \in Asked, [WizardNext]_wizardVars PROVE ans' \in Asked
  OBVIOUS
<1>1. CASE Continue \/ Back \/ WaitingStep
  BY <1>1, ShowAsks DEF Continue, gotoNextStep, Back, WaitingStep
<1>2. ASSUME NEW c \in DOMAIN Pages, CategoryStep(c) PROVE ans' \in Asked
  <2>1. c \in Categories
    BY DEF Pages, Categories
  <2>2. [ans EXCEPT !.category = c] \in Asked
    BY <2>1 DEF Asked
  <2>3. QED
    BY <1>2, <2>2, ShowAsks DEF CategoryStep
<1>3. ASSUME NEW n \in 0..9, Browser(n) PROVE ans' \in Asked
  BY <1>3, ShowAsks DEF Browser
<1>4. CASE ReviewStep
  <2>1. Dated \in Asked
    BY DEF Dated, Asked
  <2>2. QED
    BY <1>4, <2>1, ShowAsks DEF ReviewStep
<1>5. CASE Reload
  BY <1>5 DEF Reload, NoAnswers, Asked, Categories
<1>6. Works \subseteq Nat /\ Copies \subseteq Nat /\ Winners \subseteq 1..10
  <2>1. Arts \in Seq([edition : {"none", "V1", "V2"}, limited : BOOLEAN, own : BOOLEAN])
    BY ArtsAssumption
  <2>2. QED
    BY <2>1, WizardAssumption DEF Works
<1>7. CASE PublishFails \/ CloseModal
  BY <1>7 DEF PublishFails, CloseModal
<1>8. CASE CopiesOpen \/ ParticipationOpen
  BY <1>8 DEF CopiesOpen, ParticipationOpen, Asked
<1>9. ASSUME NEW a \in Works, CopiesSelect(a) \/ ParticipationStep(a) PROVE ans' \in Asked
  BY <1>6, <1>9 DEF CopiesSelect, ParticipationStep, Asked
<1>10. ASSUME NEW n \in Copies, CopiesStep(n) PROVE ans' \in Asked
  BY <1>6, <1>10 DEF CopiesStep, Answer, Asked
<1>11. ASSUME NEW n \in Winners, NumberOfWinnersStep(n) PROVE ans' \in Asked
  BY <1>6, <1>11 DEF NumberOfWinnersStep, Asked
<1>12. CASE PriceStep \/ EndingPhaseStep
  BY <1>12 DEF PriceStep, EndingPhaseStep, PriceAuction, EndingPhaseAuction, Answer, Asked
<1>13. CASE InitialPhaseStep
  <2>1. phase' \in [now : BOOLEAN, listNow : BOOLEAN]
        /\ ans' = [ans EXCEPT !.startSale = ~phase'.now, !.startList = ~phase'.listNow]
    BY <1>13 DEF InitialPhaseStep
  <2> DEFINE x == ~phase'.now
             y == ~phase'.listNow
  <2>2. x \in BOOLEAN /\ y \in BOOLEAN
    BY Zenon
  <2>3. ans' = [ans EXCEPT !.startSale = x, !.startList = y]
    BY <2>1, Zenon
  <2> HIDE DEF x, y
  <2>4. QED
    BY <2>2, <2>3 DEF Asked
<1>14. CASE TierTableStep
  BY <1>14 DEF TierTableStep, TierAdded, EntryAdded, SpotToggled, CellOpened, CellClosed,
               CellSelected, TypeSelected, AmountTyped, Rearrange, Edit
<1>15. CASE UNCHANGED wizardVars
  BY <1>15 DEF wizardVars
<1>16. QED
  BY <1>1, <1>2, <1>3, <1>4, <1>5, <1>7, <1>8, <1>9, <1>10, <1>11, <1>12, <1>13, <1>14, <1>15
     DEF WizardNext

(* The table and the answers stay as they should, whatever the step.       *)
LEMMA TableStays == WizardSpec => []TableNamed
<1>1. WizardInit => TableNamed
  BY NewTableKeeps DEF WizardInit, TableNamed, NoAnswers, Asked, Categories
<1>2. TableNamed /\ [WizardNext]_wizardVars => TableNamed'
  BY TableStep, AnswersStep DEF TableNamed
<1>3. QED
  BY <1>1, <1>2, PTL DEF WizardSpec

(* Whatever the seller does on the pages and with the browser's buttons,   *)
(* for any artworks, tiers and entries: an entry's number names the        *)
(* artwork chosen for it, and no artwork is deposited twice (the handlers  *)
(* of TierTableStep that renumber the entries).                            *)
THEOREM EntriesKeepTheirItem == WizardSpec => []EntriesNameTheirItem
<1>1. TableNamed => EntriesNameTheirItem
  BY Zenon DEF TableNamed, TableInv, EntriesNameTheirItem, Names
<1>2. QED
  BY <1>1, TableStays, PTL

-----------------------------------------------------------------------------
(* The amounts of the tiers                                                *)

(* Ranges of amounts, and the place after the last of them.                *)
Ranges == Seq([amount : Nat, length : Nat])
End(r) == Ends(r)[Len(r)]

(* What the type of ranges is good for.                                    *)
LEMMA RangeTypes ==
  ASSUME NEW r \in Ranges
  PROVE  /\ Len(r) \in Nat /\ DOMAIN r = 1..Len(r)
         /\ \A i \in 1..Len(r) : r[i].amount \in Nat /\ r[i].length \in Nat
<1>1. r \in Seq([amount : Nat, length : Nat])
  BY DEF Ranges
<1>2. Len(r) \in Nat /\ DOMAIN r = 1..Len(r)
  BY <1>1
<1>3. \A i \in 1..Len(r) : r[i] \in [amount : Nat, length : Nat]
  BY <1>1, <1>2, ElementOfSeq
<1>4. QED
  BY <1>2, <1>3

(* Each range ends its length after the one before.                        *)
LEMMA EndsSteps ==
  ASSUME NEW r \in Ranges
  PROVE  /\ Ends(r)[0] = 0
         /\ \A i \in 1..Len(r) : Ends(r)[i] = Ends(r)[i - 1] + r[i].length
         /\ \A i \in 0..Len(r) : Ends(r)[i] \in Nat
<1> DEFINE n == Len(r)
           size == [i \in 1..n |-> r[i].length]
           go == [i \in 1..n |-> [k \in Nat |-> k + size[i]]]
           Value(f, i) == IF i = 0 THEN 0 ELSE f[i - 1] + r[i].length
           IsEnd(f) == f = [i \in 0..n |-> Value(f, i)]
           end == CHOOSE f : IsEnd(f)
<1>1. n \in Nat /\ \A i \in 1..n : r[i].length \in Nat
  BY RangeTypes
<1>2. size \in [1..n -> Nat] /\ \A i \in 1..n : size[i] = r[i].length
  BY <1>1
<1> HIDE DEF n, size
<1>3. go \in [1..n -> [Nat -> Nat]]
  BY <1>2
<1>4. PICK f : Stepping(f, n, Nat, 0, go)
  <2> HIDE DEF go
  <2>1. QED
    BY <1>1, <1>3, StepFunction
<1>5. f \in [0..n -> Nat] /\ f = [i \in 0..n |-> IF i = 0 THEN 0 ELSE go[i][f[i - 1]]]
  <2> HIDE DEF go
  <2>1. QED
    BY <1>4, Zenon DEF Stepping
<1>6. IsEnd(f)
  <2>1. \A i \in 1..n : f[i - 1] \in Nat
    <3> HIDE DEF go
    <3>1. f \in [0..n -> Nat] /\ \A i \in 1..n : i - 1 \in 0..n
      BY <1>1, <1>5
    <3>2. QED
      BY <3>1
  <2>2. \A i \in 1..n : go[i][f[i - 1]] = f[i - 1] + r[i].length
    BY <2>1, <1>2
  <2> HIDE DEF go
  <2>3. \A i \in 0..n : (IF i = 0 THEN 0 ELSE go[i][f[i - 1]]) = Value(f, i)
    BY <2>2, <1>1
  <2>4. QED
    BY <1>5, <2>3, Zenon
<1>7. IsEnd(end)
  <2> HIDE DEF IsEnd
  <2>1. QED
    BY <1>6, Zenon DEF end
<1>8. Ends(r) = end
  BY Zenon DEF Ends, n
<1> HIDE DEF end
<1>9. \A i \in 0..n : end[i] = Value(end, i)
  <2> HIDE DEF Value
  <2>1. QED
    BY <1>7
<1>10. end[0] = 0 /\ \A i \in 1..n : end[i] = end[i - 1] + r[i].length
  BY <1>1, <1>9
<1>11. \A k \in 0..n : end[k] \in Nat
  <2> DEFINE G == {i \in 0..n : end[i] \in Nat}
  <2>1. 0 \in G /\ \A i \in 1..n : i - 1 \in G => i \in G
    BY <1>1, <1>10
  <2> HIDE DEF G
  <2>2. SUFFICES ASSUME NEW k \in 0..n PROVE k \in G
    BY DEF G
  <2>3. k \in Nat /\ \A i \in 1..k : i \in 1..n
    BY <1>1
  <2>4. QED
    BY <2>1, <2>3, StepByStep
<1>12. QED
  BY <1>8, <1>10, <1>11 DEF n

(* Ends are told by their steps.                                           *)
LEMMA EndsAre ==
  ASSUME NEW r \in Ranges, NEW n \in 0..Len(r), NEW f,
         f[0] = 0, \A i \in 1..n : f[i] = f[i - 1] + r[i].length
  PROVE  Ends(r)[n] = f[n]
<1> DEFINE G == {i \in 0..n : Ends(r)[i] = f[i]}
<1>1. Len(r) \in Nat /\ n \in Nat
  BY RangeTypes
<1>2. 0 \in G
  BY <1>1, EndsSteps
<1>3. \A i \in 1..n : i - 1 \in G => i \in G
  <2>1. SUFFICES ASSUME NEW i \in 1..n, Ends(r)[i - 1] = f[i - 1] PROVE Ends(r)[i] = f[i]
    BY <1>1
  <2>2. i \in 1..Len(r)
    BY <1>1
  <2>3. QED
    BY <2>1, <2>2, EndsSteps
<1> HIDE DEF G
<1>4. n \in G
  BY <1>1, <1>2, <1>3, StepByStep
<1>5. QED
  BY <1>4 DEF G

(* Ends never come back.                                                   *)
LEMMA EndsGrow ==
  ASSUME NEW r \in Ranges, NEW j \in 0..Len(r), NEW i \in 0..j
  PROVE  Ends(r)[i] <= Ends(r)[j]
<1> DEFINE G == {k \in 0..(j - i) : Ends(r)[i] <= Ends(r)[i + k]}
           n == j - i
<1>1. Len(r) \in Nat /\ n \in Nat /\ i \in Nat /\ \A k \in 0..n : i + k \in 0..Len(r)
  BY RangeTypes
<1>2. \A k \in 0..n : Ends(r)[i + k] \in Nat
  BY <1>1, EndsSteps
<1>3. 0 \in G
  <2>1. 0 \in 0..n /\ i + 0 = i /\ i \in 0..Len(r)
    BY <1>1
  <2>2. Ends(r)[i] \in Nat
    BY <2>1, EndsSteps
  <2>3. QED
    BY <2>1, <2>2
<1>4. \A k \in 1..n : k - 1 \in G => k \in G
  <2>1. SUFFICES ASSUME NEW k \in 1..n, k - 1 \in G PROVE k \in G
    OBVIOUS
  <2>2. i + k \in 1..Len(r) /\ i + (k - 1) = (i + k) - 1 /\ k \in 0..n /\ k - 1 \in 0..n
    BY <1>1
  <2>3. Ends(r)[i + k] = Ends(r)[i + (k - 1)] + r[i + k].length /\ r[i + k].length \in Nat
    BY <2>2, EndsSteps, RangeTypes
  <2> DEFINE a == Ends(r)[i]
             b == Ends(r)[i + (k - 1)]
             c == Ends(r)[i + k]
             d == r[i + k].length
  <2>4. a \in Nat /\ b \in Nat /\ c \in Nat /\ d \in Nat /\ a <= b /\ c = b + d
    BY <2>1, <2>2, <2>3, <1>1, <1>2, EndsSteps
  <2> HIDE DEF a, b, c, d
  <2>5. a <= c
    BY <2>4
  <2>6. QED
    BY <2>2, <2>5 DEF a, c
<1> HIDE DEF G
<1>5. n \in G
  BY <1>1, <1>3, <1>4, StepByStep
<1>6. i + n = j
  BY <1>1
<1>7. QED
  BY <1>5, <1>6 DEF G

(* A place belongs to one range at most.                                   *)
LEMMA AmountHere ==
  ASSUME NEW r \in Ranges, NEW i \in 1..Len(r), NEW p \in Nat,
         Ends(r)[i - 1] <= p, p < Ends(r)[i]
  PROVE  AmountAt(r, p) = r[i].amount
<1> DEFINE at == {j \in DOMAIN r : Ends(r)[j - 1] <= p /\ p < Ends(r)[j]}
<1>1. Len(r) \in Nat /\ DOMAIN r = 1..Len(r)
  BY RangeTypes
<1>2. \A j \in at : j = i
  <2>1. SUFFICES ASSUME NEW j \in at, j # i PROVE FALSE
    OBVIOUS
  <2>2. j \in 1..Len(r) /\ Ends(r)[j - 1] <= p /\ p < Ends(r)[j]
    BY <1>1
  <2>3. /\ Ends(r)[i] \in Nat /\ Ends(r)[i - 1] \in Nat
        /\ Ends(r)[j] \in Nat /\ Ends(r)[j - 1] \in Nat
    BY <2>2, <1>1, EndsSteps
  <2>4. CASE j < i
    <3>1. j \in 0..(i - 1) /\ i - 1 \in 0..Len(r)
      BY <2>2, <2>4, <1>1
    <3>2. Ends(r)[j] <= Ends(r)[i - 1]
      BY <3>1, EndsGrow
    <3>3. QED
      BY <3>2, <2>2, <2>3
  <2>5. CASE i < j
    <3>1. i \in 0..(j - 1) /\ j - 1 \in 0..Len(r)
      BY <2>2, <2>5, <1>1
    <3>2. Ends(r)[i] <= Ends(r)[j - 1]
      BY <3>1, EndsGrow
    <3>3. QED
      BY <3>2, <2>2, <2>3
  <2>6. QED
    BY <2>1, <2>2, <2>4, <2>5, <1>1
<1>3. i \in at
  BY <1>1
<1>4. AmountAt(r, p) = IF at = {} THEN 0 ELSE r[CHOOSE j \in at : TRUE].amount
  BY Zenon DEF AmountAt
<1> HIDE DEF at
<1>5. (CHOOSE j \in at : TRUE) \in at
  BY <1>3, Zenon
<1>6. QED
  BY <1>2, <1>3, <1>4, <1>5, Zenon

(* Every place before the end belongs to a range.                          *)
LEMMA RangeAt ==
  ASSUME NEW r \in Ranges, NEW p \in Nat, p < End(r)
  PROVE  \E i \in 1..Len(r) : Ends(r)[i - 1] <= p /\ p < Ends(r)[i]
<1> DEFINE n == Len(r)
           Here(i) == Ends(r)[i - 1] <= p /\ p < Ends(r)[i]
           G == {i \in 0..n : p < Ends(r)[i] => \E j \in 1..n : Here(j)}
<1>1. n \in Nat
  BY RangeTypes
<1>2. 0 \in G
  BY <1>1, EndsSteps
<1>3. \A i \in 1..n : i - 1 \in G => i \in G
  <2>1. SUFFICES ASSUME NEW i \in 1..n, i - 1 \in G, p < Ends(r)[i]
                 PROVE  \E j \in 1..n : Here(j)
    BY <1>1
  <2>2. Ends(r)[i - 1] \in Nat
    BY <1>1, EndsSteps
  <2>3. CASE p < Ends(r)[i - 1]
    BY <2>1, <2>3
  <2>4. CASE ~(p < Ends(r)[i - 1])
    <3>1. Here(i)
      BY <2>1, <2>2, <2>4
    <3> HIDE DEF Here
    <3>2. QED
      BY <3>1
  <2>5. QED
    BY <2>3, <2>4
<1> HIDE DEF G, Here
<1>4. n \in G
  BY <1>1, <1>2, <1>3, StepByStep
<1>5. QED
  BY <1>4 DEF G, End, Here

(* Beyond the end there is nothing.                                        *)
LEMMA AmountBeyond ==
  ASSUME NEW r \in Ranges, NEW p \in Nat, End(r) <= p
  PROVE  AmountAt(r, p) = 0
<1> DEFINE at == {j \in DOMAIN r : Ends(r)[j - 1] <= p /\ p < Ends(r)[j]}
<1>1. Len(r) \in Nat /\ DOMAIN r = 1..Len(r)
  BY RangeTypes
<1>2. at = {}
  <2>1. SUFFICES ASSUME NEW j \in 1..Len(r), p < Ends(r)[j] PROVE FALSE
    BY <1>1
  <2>2. j \in 0..Len(r) /\ Len(r) \in 0..Len(r)
    BY <1>1
  <2>3. Ends(r)[j] <= End(r)
    BY <2>2, EndsGrow DEF End
  <2>4. Ends(r)[j] \in Nat /\ End(r) \in Nat
    BY <2>2, EndsSteps DEF End
  <2>5. QED
    BY <2>1, <2>3, <2>4
<1>3. AmountAt(r, p) = IF at = {} THEN 0 ELSE r[CHOOSE j \in at : TRUE].amount
  BY Zenon DEF AmountAt
<1>4. QED
  BY <1>2, <1>3, Zenon

(* A range after the others takes the places after them.                   *)
LEMMA AmountOfAppend ==
  ASSUME NEW r \in Ranges, NEW x \in [amount : Nat, length : Nat]
  PROVE  /\ Append(r, x) \in Ranges
         /\ End(Append(r, x)) = End(r) + x.length
         /\ \A p \in Nat :
              AmountAt(Append(r, x), p) = IF p < End(r) THEN AmountAt(r, p)
                                          ELSE IF p < End(r) + x.length THEN x.amount ELSE 0
<1> DEFINE s == Append(r, x)
           n == Len(r)
<1>1. n \in Nat /\ \A i \in 0..n : Ends(r)[i] \in Nat
  BY RangeTypes, EndsSteps
<1>2. s \in Ranges /\ Len(s) = n + 1 /\ (\A i \in 1..n : s[i] = r[i]) /\ s[n + 1] = x
  BY AppendProperties DEF Ranges
<1>3. x.length \in Nat /\ x.amount \in Nat
  OBVIOUS
<1> HIDE DEF s, n
<1>4. \A i \in 0..n : Ends(r)[i] = Ends(s)[i]
  <2>1. SUFFICES ASSUME NEW i \in 0..n PROVE Ends(r)[i] = Ends(s)[i]
    OBVIOUS
  <2>2. i \in 0..Len(r) /\ \A k \in 1..i : k \in 1..n /\ k \in 1..Len(s)
    BY <1>1, <1>2 DEF n
  <2>3. Ends(s)[0] = 0 /\ \A k \in 1..i : Ends(s)[k] = Ends(s)[k - 1] + r[k].length
    BY <2>2, <1>2, EndsSteps
  <2>4. QED
    BY <2>2, <2>3, EndsAre
<1>5. Ends(s)[n] = End(r) /\ End(r) \in Nat
  BY <1>1, <1>4 DEF End, n
<1>6. End(s) = End(r) + x.length
  <2>1. n + 1 \in 1..Len(s) /\ (n + 1) - 1 = n
    <3>1. n \in Nat /\ Len(s) = n + 1
      BY <1>1, <1>2
    <3>2. QED
      BY <3>1
  <2>2. Ends(s)[n + 1] = Ends(s)[n] + s[n + 1].length
    BY <2>1, <1>2, EndsSteps
  <2>3. QED
    BY <2>2, <1>2, <1>5 DEF End
<1>7. ASSUME NEW p \in Nat
      PROVE  AmountAt(s, p) = IF p < End(r) THEN AmountAt(r, p)
                              ELSE IF p < End(r) + x.length THEN x.amount ELSE 0
  <2>1. CASE p < End(r)
    <3>1. PICK i \in 1..Len(r) : Ends(r)[i - 1] <= p /\ p < Ends(r)[i]
      BY <2>1, RangeAt
    <3>2. AmountAt(r, p) = r[i].amount
      BY <3>1, AmountHere
    <3>3. i \in 1..n /\ i \in 0..n /\ i - 1 \in 0..n /\ i \in 1..Len(s)
      BY <1>1, <1>2 DEF n
    <3>4. Ends(s)[i - 1] <= p /\ p < Ends(s)[i]
      BY <3>1, <3>3, <1>4
    <3>5. AmountAt(s, p) = s[i].amount
      BY <3>3, <3>4, <1>2, AmountHere
    <3>6. QED
      BY <2>1, <3>2, <3>3, <3>5, <1>2
  <2>2. CASE ~(p < End(r)) /\ p < End(r) + x.length
    <3>1. n + 1 \in 1..Len(s) /\ (n + 1) - 1 = n
      BY <1>1, <1>2
    <3>2. Ends(s)[n] <= p /\ p < Ends(s)[n + 1]
      <4>1. Ends(s)[n + 1] = End(r) + x.length
        BY <1>2, <1>6 DEF End
      <4>2. QED
        BY <4>1, <2>2, <1>5
    <3>3. AmountAt(s, p) = s[n + 1].amount
      BY <3>1, <3>2, <1>2, AmountHere
    <3>4. QED
      BY <2>2, <3>3, <1>2
  <2>3. CASE ~(p < End(r)) /\ ~(p < End(r) + x.length)
    <3>1. End(s) <= p
      BY <2>3, <1>3, <1>5, <1>6
    <3>2. AmountAt(s, p) = 0
      BY <3>1, <1>2, AmountBeyond
    <3>3. QED
      BY <2>3, <3>2
  <2>4. QED
    BY <2>1, <2>2, <2>3
<1>8. QED
  BY <1>2, <1>6, <1>7 DEF s

(* The first range takes the first places, the others come after it.       *)
LEMMA AmountOfTail ==
  ASSUME NEW r \in Ranges, r # <<>>
  PROVE  /\ Tail(r) \in Ranges /\ Len(Tail(r)) = Len(r) - 1 /\ Len(r) \in Nat \ {0}
         /\ Head(r) \in [amount : Nat, length : Nat]
         /\ End(r) = Head(r).length + End(Tail(r))
         /\ \A p \in Nat :
              AmountAt(r, p) = IF p < Head(r).length THEN Head(r).amount
                               ELSE AmountAt(Tail(r), p - Head(r).length)
<1> DEFINE s == Tail(r)
           n == Len(s)
           h == Head(r).length
<1>1. /\ s \in Ranges /\ Len(r) \in Nat \ {0} /\ n = Len(r) - 1 /\ n \in Nat
      /\ Head(r) \in [amount : Nat, length : Nat] /\ Head(r) = r[1]
      /\ \A i \in 1..n : s[i] = r[i + 1]
  <2>1. r \in Seq([amount : Nat, length : Nat])
    BY DEF Ranges
  <2>2. s \in Ranges /\ n = Len(r) - 1 /\ \A i \in 1..n : s[i] = r[i + 1]
    BY <2>1, HeadTailProperties DEF Ranges
  <2>3. Len(r) \in Nat \ {0}
    BY <2>1, EmptySeq
  <2>4. Head(r) \in [amount : Nat, length : Nat]
    BY <2>1, HeadTailProperties
  <2>5. Head(r) = r[1]
    BY <2>1
  <2> HIDE DEF s, n
  <2>6. QED
    BY <2>2, <2>3, <2>4, <2>5
<1>2. h \in Nat
  BY <1>1
<1> HIDE DEF s, n, h
<1>3. \A i \in 0..n : Ends(r)[i + 1] = h + Ends(s)[i]
  <2> DEFINE f == [k \in 0..n |-> Ends(r)[k + 1] - h]
  <2>1. SUFFICES ASSUME NEW i \in 0..n PROVE Ends(r)[i + 1] = h + Ends(s)[i]
    OBVIOUS
  <2>2. Ends(r)[1] = h
    <3>1. 1 \in 1..Len(r) /\ 1 - 1 = 0
      BY <1>1
    <3>2. Ends(r)[1] = Ends(r)[0] + r[1].length /\ Ends(r)[0] = 0
      BY <3>1, EndsSteps
    <3>3. QED
      BY <3>2, <1>1, <1>2 DEF h
  <2>3. f[0] = 0 /\ f[i] = Ends(r)[i + 1] - h
    BY <2>2, <1>1, <1>2
  <2>4. ASSUME NEW k \in 1..i PROVE f[k] = f[k - 1] + s[k].length
    <3>1. /\ k \in 0..n /\ k - 1 \in 0..n /\ (k - 1) + 1 = k /\ k + 1 \in 1..Len(r)
          /\ (k + 1) - 1 = k /\ k \in 1..n /\ k \in 0..Len(r) /\ k + 1 \in 0..Len(r)
      BY <1>1
    <3>2. Ends(r)[k + 1] = Ends(r)[k] + s[k].length
      BY <3>1, <1>1, EndsSteps
    <3>3. Ends(r)[k] \in Nat /\ s[k].length \in Nat
      BY <3>1, EndsSteps, <1>1, RangeTypes DEF n
    <3>4. f[k] = Ends(r)[k + 1] - h /\ f[k - 1] = Ends(r)[k] - h
      BY <3>1
    <3> HIDE DEF f
    <3>5. QED
      BY <3>2, <3>3, <3>4, <1>2
  <2> HIDE DEF f
  <2>5. i \in 0..Len(s)
    BY DEF n
  <2>6. Ends(s)[i] = f[i]
    BY <2>3, <2>4, <2>5, <1>1, EndsAre
  <2>7. Ends(r)[i + 1] \in Nat
    <3>1. i + 1 \in 0..Len(r)
      BY <1>1
    <3>2. QED
      BY <3>1, EndsSteps
  <2>8. QED
    BY <2>3, <2>6, <2>7, <1>2
<1>4. \A i \in 0..n : Ends(s)[i] \in Nat
  BY <1>1, EndsSteps DEF n
<1>5. End(r) = h + End(s)
  <2>1. n \in 0..n /\ n + 1 = Len(r)
    BY <1>1
  <2>2. QED
    BY <2>1, <1>3 DEF End, n
<1>6. ASSUME NEW p \in Nat
      PROVE  AmountAt(r, p) = IF p < h THEN Head(r).amount ELSE AmountAt(s, p - h)
  <2>1. CASE p < h
    <3>1. 1 \in 1..Len(r) /\ 1 - 1 = 0 /\ 0 \in 0..n /\ 0 + 1 = 1
      BY <1>1
    <3>2. Ends(r)[0] = 0 /\ Ends(s)[0] = 0
      BY <1>1, EndsSteps
    <3>3. Ends(r)[1] = h
      BY <3>1, <3>2, <1>2, <1>3
    <3>4. Ends(r)[1 - 1] <= p /\ p < Ends(r)[1]
      BY <3>1, <3>2, <3>3, <2>1
    <3>5. AmountAt(r, p) = r[1].amount
      BY <3>1, <3>4, AmountHere
    <3>6. QED
      BY <2>1, <3>5, <1>1
  <2>2. CASE ~(p < h)
    <3> DEFINE q == p - h
    <3>1. q \in Nat /\ p = h + q
      BY <2>2, <1>2
    <3> HIDE DEF q
    <3>2. CASE q < End(s)
      <4>1. PICK i \in 1..Len(s) : Ends(s)[i - 1] <= q /\ q < Ends(s)[i]
        BY <3>1, <3>2, <1>1, RangeAt
      <4>2. AmountAt(s, q) = s[i].amount
        BY <4>1, <3>1, <1>1, AmountHere
      <4>3. /\ i \in 1..n /\ i + 1 \in 1..Len(r) /\ (i + 1) - 1 = i
            /\ i - 1 \in 0..n /\ (i - 1) + 1 = i /\ i \in 0..n
        BY <1>1 DEF n
      <4>4. Ends(r)[i + 1] = h + Ends(s)[i] /\ Ends(r)[i] = h + Ends(s)[i - 1]
        BY <4>3, <1>3
      <4>5. Ends(s)[i] \in Nat /\ Ends(s)[i - 1] \in Nat
        BY <4>3, <1>4
      <4>6. Ends(r)[i] <= p /\ p < Ends(r)[i + 1]
        BY <4>1, <4>4, <4>5, <3>1, <1>2
      <4>7. AmountAt(r, p) = r[i + 1].amount
        BY <4>3, <4>6, AmountHere
      <4>8. QED
        BY <2>2, <4>2, <4>3, <4>7, <1>1 DEF q
    <3>3. CASE ~(q < End(s))
      <4>1. End(s) \in Nat
        <5>1. n \in 0..n
          BY <1>1
        <5>2. QED
          BY <5>1, <1>4 DEF End, n
      <4>2. End(s) <= q /\ End(r) <= p
        BY <4>1, <3>1, <3>3, <1>2, <1>5
      <4>3. AmountAt(s, q) = 0 /\ AmountAt(r, p) = 0
        BY <4>2, <3>1, <1>1, AmountBeyond
      <4>4. QED
        BY <4>3, <2>2 DEF q
    <3>4. QED
      BY <3>2, <3>3
  <2>3. QED
    BY <2>1, <2>2
<1>7. QED
  BY <1>1, <1>5, <1>6 DEF s, n, h

(* No ranges say nothing.                                                  *)
LEMMA NoRanges == <<>> \in Ranges /\ End(<<>>) = 0 /\ \A p \in Nat : AmountAt(<<>>, p) = 0
<1>1. <<>> \in Ranges /\ Len(<<>>) = 0
  BY EmptySeq DEF Ranges
<1>2. End(<<>>) = 0
  BY <1>1, EndsSteps DEF End
<1>3. QED
  BY <1>1, <1>2, AmountBeyond

(* An amount is a number.                                                  *)
LEMMA AmountIsNat == ASSUME NEW r \in Ranges, NEW p \in Nat PROVE AmountAt(r, p) \in Nat
<1>1. End(r) \in Nat
  <2>1. Len(r) \in 0..Len(r)
    BY RangeTypes
  <2>2. QED
    BY <2>1, EndsSteps DEF End
<1>2. CASE p < End(r)
  <2>1. PICK i \in 1..Len(r) : Ends(r)[i - 1] <= p /\ p < Ends(r)[i]
    BY <1>2, RangeAt
  <2>2. AmountAt(r, p) = r[i].amount
    BY <2>1, AmountHere
  <2>3. QED
    BY <2>2, RangeTypes
<1>3. CASE End(r) <= p
  BY <1>3, AmountBeyond
<1>4. QED
  BY <1>1, <1>2, <1>3

(* A range in front of the others.                                         *)
LEMMA InFront ==
  ASSUME NEW x \in [amount : Nat, length : Nat], NEW r \in Ranges
  PROVE  LET s == <<x>> \o r
         IN s \in Ranges /\ s # <<>> /\ Len(s) = Len(r) + 1 /\ Head(s) = x /\ Tail(s) = r
<1> DEFINE T == [amount : Nat, length : Nat]
           s == <<x>> \o r
<1>1. <<x>> \in Seq(T) /\ Len(<<x>>) = 1 /\ <<x>>[1] = x /\ r \in Seq(T) /\ Len(r) \in Nat
  BY RangeTypes DEF Ranges
<1>2. /\ s \in Seq(T) /\ Len(s) = 1 + Len(r)
      /\ \A i \in 1..(1 + Len(r)) : s[i] = IF i <= 1 THEN <<x>>[i] ELSE r[i - 1]
  <2> HIDE DEF T
  <2>1. QED
    BY <1>1, ConcatProperties
<1> HIDE DEF s, T
<1>3. s # <<>> /\ Head(s) = s[1] /\ s[1] = x
  <2>1. s # <<>>
    BY <1>1, <1>2, EmptySeq
  <2>2. s[1] = x
    BY <1>1, <1>2
  <2>3. QED
    BY <2>1, <2>2, <1>2
<1>4. Tail(s) = r
  <2>1. /\ Tail(s) \in Seq(T) /\ Len(Tail(s)) = Len(r)
        /\ \A i \in 1..Len(Tail(s)) : Tail(s)[i] = s[i + 1]
    BY <1>1, <1>2, <1>3, HeadTailProperties
  <2>2. \A i \in 1..Len(r) : Tail(s)[i] = r[i]
    BY <2>1, <1>1, <1>2
  <2>3. QED
    BY <2>1, <2>2, <1>1, SeqEqual
<1>5. s \in Ranges
  BY <1>2 DEF Ranges, T
<1>6. Len(s) = Len(r) + 1
  BY <1>1, <1>2
<1>7. QED
  BY <1>3, <1>4, <1>5, <1>6, Zenon DEF s

(* What is left after the first n places.                                  *)
LEMMA AmountOfRest ==
  ASSUME NEW r \in Ranges, r # <<>>, NEW n \in Nat, n <= Head(r).length
  PROVE  /\ Shorten(r, n) \in Ranges
         /\ Len(Shorten(r, n)) = IF Head(r).length = n THEN Len(r) - 1 ELSE Len(r)
         /\ \A p \in Nat : AmountAt(Shorten(r, n), p) = AmountAt(r, p + n)
<1> DEFINE h == Head(r)
           t == Tail(r)
           x == AmountRange(h.amount, h.length - n)
           s == <<x>> \o t
<1>1. /\ t \in Ranges /\ Len(t) = Len(r) - 1 /\ Len(r) \in Nat \ {0}
      /\ h \in [amount : Nat, length : Nat]
      /\ \A p \in Nat : AmountAt(r, p) = IF p < h.length THEN h.amount
                                           ELSE AmountAt(t, p - h.length)
  BY AmountOfTail
<1>2. h.length \in Nat /\ h.amount \in Nat
  BY <1>1
<1>3. Shorten(r, n) = IF h.length = n THEN t ELSE s
  BY Zenon DEF Shorten
<1> HIDE DEF h, t
<1>4. n <= h.length
  BY DEF h
<1>5. CASE h.length = n
  <2>1. \A p \in Nat : p + n \in Nat /\ ~(p + n < h.length) /\ (p + n) - h.length = p
    BY <1>5
  <2>2. \A p \in Nat : AmountAt(t, p) = AmountAt(r, p + n)
    BY <2>1, <1>1
  <2>3. QED
    BY <2>2, <1>1, <1>3, <1>5 DEF h
<1>6. CASE h.length # n
  <2>1. /\ x \in [amount : Nat, length : Nat]
        /\ x.amount = h.amount /\ x.length = h.length - n /\ x.length \in Nat
    BY <1>2, <1>4 DEF AmountRange
  <2> HIDE DEF x
  <2>2. s \in Ranges /\ s # <<>> /\ Len(s) = Len(t) + 1 /\ Head(s) = x /\ Tail(s) = t
    BY <2>1, <1>1, InFront
  <2> HIDE DEF s
  <2>3. \A p \in Nat : AmountAt(s, p) = IF p < x.length THEN x.amount ELSE AmountAt(t, p - x.length)
    BY <2>2, AmountOfTail
  <2>4. ASSUME NEW p \in Nat PROVE AmountAt(s, p) = AmountAt(r, p + n)
    <3>1. /\ p + n \in Nat /\ (p < x.length <=> p + n < h.length)
          /\ p - x.length = (p + n) - h.length
      BY <2>1, <1>2
    <3>2. AmountAt(r, p + n) = IF p + n < h.length THEN h.amount ELSE AmountAt(t, (p + n) - h.length)
      BY <3>1, <1>1
    <3>3. QED
      BY <3>1, <3>2, <2>1, <2>3
  <2>5. QED
    BY <2>2, <2>4, <1>1, <1>3, <1>6 DEF h
<1>7. QED
  BY <1>5, <1>6

(* Two sequences of ranges on their way into one, and what the three of    *)
(* them say of a place.                                                    *)
Merges == [old : Ranges, tier : Ranges, out : Ranges]
Together(a, b, p) == AmountAt(a, p) + AmountAt(b, p)
Said(m, p) == IF p < End(m.out) THEN AmountAt(m.out, p)
              ELSE Together(m.old, m.tier, p - End(m.out))

(* A range for out that says what the others said together, and others    *)
(* left to say the rest.                                                   *)
LEMMA OneRange ==
  ASSUME NEW m \in Merges, NEW l \in Merges, NEW x \in [amount : Nat, length : Nat],
         l.out = Append(m.out, x),
         \A q \in Nat : q < x.length => Together(m.old, m.tier, q) = x.amount,
         \A q \in Nat : Together(l.old, l.tier, q) = Together(m.old, m.tier, q + x.length)
  PROVE  \A p \in Nat : Said(l, p) = Said(m, p)
<1> DEFINE e == End(m.out)
           d == x.length
<1>1. m.out \in Ranges /\ d \in Nat
  BY DEF Merges
<1>2. e \in Nat
  <2>1. Len(m.out) \in 0..Len(m.out)
    BY <1>1, RangeTypes
  <2>2. QED
    BY <1>1, <2>1, EndsSteps DEF End
<1>3. /\ End(l.out) = e + d
      /\ \A p \in Nat : AmountAt(l.out, p) = IF p < e THEN AmountAt(m.out, p)
                                             ELSE IF p < e + d THEN x.amount ELSE 0
  <2> DEFINE o == m.out
  <2>1. o \in Ranges /\ l.out = Append(o, x)
    BY <1>1
  <2> HIDE DEF o
  <2>2. /\ End(Append(o, x)) = End(o) + x.length
        /\ \A p \in Nat : AmountAt(Append(o, x), p) = IF p < End(o) THEN AmountAt(o, p)
                                                       ELSE IF p < End(o) + x.length THEN x.amount ELSE 0
    BY <2>1, AmountOfAppend
  <2>3. QED
    BY <2>1, <2>2, Zenon DEF o
<1> HIDE DEF e, d
<1>4. SUFFICES ASSUME NEW p \in Nat PROVE Said(l, p) = Said(m, p)
  OBVIOUS
<1>5. /\ Said(l, p) = IF p < e + d THEN AmountAt(l.out, p)
                      ELSE Together(l.old, l.tier, p - (e + d))
      /\ Said(m, p) = IF p < e THEN AmountAt(m.out, p) ELSE Together(m.old, m.tier, p - e)
  BY <1>3, Zenon DEF Said, e
<1>6. CASE p < e
  <2>1. p < e + d
    BY <1>1, <1>2, <1>6
  <2>2. QED
    BY <2>1, <1>3, <1>5, <1>6
<1>7. CASE ~(p < e) /\ p < e + d
  <2>1. p - e \in Nat /\ p - e < d
    BY <1>1, <1>2, <1>7
  <2>2. Together(m.old, m.tier, p - e) = x.amount
    BY <2>1 DEF d
  <2>3. QED
    BY <2>2, <1>3, <1>5, <1>7
<1>8. CASE ~(p < e) /\ ~(p < e + d)
  <2>1. p - (e + d) \in Nat /\ (p - (e + d)) + d = p - e
    BY <1>1, <1>2, <1>8
  <2>2. Together(l.old, l.tier, p - (e + d)) = Together(m.old, m.tier, p - e)
    BY <2>1 DEF d
  <2>3. QED
    BY <2>2, <1>5, <1>8
<1>9. QED
  BY <1>6, <1>7, <1>8

(* The smaller of two.                                                     *)
LEMMA MinOfTwo ==
  ASSUME NEW a \in Nat, NEW b \in Nat
  PROVE  Min({a, b}) = IF a <= b THEN a ELSE b
<1>1. Min({a, b}) = CHOOSE x \in {a, b} : \A y \in {a, b} : x <= y
  BY Zenon DEF Min
<1>2. \E x \in {a, b} : \A y \in {a, b} : x <= y
  BY SMT
<1>3. Min({a, b}) \in {a, b} /\ \A y \in {a, b} : Min({a, b}) <= y
  BY <1>1, <1>2, Zenon
<1>4. QED
  BY <1>3

(* A round of the merge moves a range without changing what is said.       *)
LEMMA MergeRound ==
  ASSUME NEW m \in Merges, ~(m.old = <<>> /\ m.tier = <<>>)
  PROVE  /\ MergeStep(m) \in Merges
         /\ Len(MergeStep(m).old) + Len(MergeStep(m).tier) < Len(m.old) + Len(m.tier)
         /\ \A p \in Nat : Said(MergeStep(m), p) = Said(m, p)
<1> DEFINE l == MergeStep(m)
<1>1. m.old \in Ranges /\ m.tier \in Ranges /\ m.out \in Ranges
  BY DEF Merges
<1>2. /\ \A p \in Nat : AmountAt(m.old, p) \in Nat /\ AmountAt(m.tier, p) \in Nat
      /\ \A p \in Nat : AmountAt(<<>>, p) = 0
      /\ Len(<<>>) = 0 /\ Len(m.old) \in Nat /\ Len(m.tier) \in Nat
  BY <1>1, NoRanges, AmountIsNat, RangeTypes
<1>3. CASE m.old = <<>>
  <2> DEFINE x == Head(m.tier)
             t == Tail(m.tier)
             out == Append(m.out, x)
  <2>1. m.tier # <<>>
    BY <1>3
  <2>2. /\ t \in Ranges /\ Len(t) = Len(m.tier) - 1 /\ Len(m.tier) \in Nat \ {0}
        /\ x \in [amount : Nat, length : Nat]
        /\ \A p \in Nat : AmountAt(m.tier, p) = IF p < x.length THEN x.amount
                                                ELSE AmountAt(t, p - x.length)
    BY <1>1, <2>1, AmountOfTail
  <2>3. l = [m EXCEPT !.out = out, !.tier = t]
    BY <1>3, Zenon DEF MergeStep
  <2> HIDE DEF x, t
  <2>4. out \in Ranges
    BY <1>1, <2>2, AmountOfAppend
  <2> HIDE DEF out
  <2>5. l \in Merges /\ l.old = <<>> /\ l.tier = t /\ l.out = out
    BY <2>2, <2>3, <2>4, <1>3 DEF Merges
  <2> HIDE DEF l
  <2>6. x.length \in Nat /\ x.amount \in Nat
    BY <2>2
  <2>7. \A q \in Nat : q < x.length => Together(m.old, m.tier, q) = x.amount
    <3>1. SUFFICES ASSUME NEW q \in Nat, q < x.length PROVE Together(m.old, m.tier, q) = x.amount
      OBVIOUS
    <3>2. AmountAt(m.old, q) = 0 /\ AmountAt(m.tier, q) = x.amount
      BY <3>1, <2>2, <1>2, <1>3
    <3>3. QED
      BY <3>2, <2>6 DEF Together
  <2>8. \A q \in Nat : Together(l.old, l.tier, q) = Together(m.old, m.tier, q + x.length)
    <3>1. SUFFICES ASSUME NEW q \in Nat
                   PROVE  Together(l.old, l.tier, q) = Together(m.old, m.tier, q + x.length)
      OBVIOUS
    <3>2. q + x.length \in Nat /\ ~(q + x.length < x.length) /\ (q + x.length) - x.length = q
      BY <2>6
    <3>3. AmountAt(l.old, q) = 0 /\ AmountAt(m.old, q + x.length) = 0
      BY <3>2, <2>5, <1>2, <1>3
    <3>4. AmountAt(m.tier, q + x.length) = AmountAt(l.tier, q)
      BY <3>2, <2>2, <2>5
    <3>5. QED
      BY <3>3, <3>4, Zenon DEF Together
  <2>9. \A p \in Nat : Said(l, p) = Said(m, p)
    BY <2>2, <2>5, <2>7, <2>8, OneRange DEF out
  <2>10. Len(l.old) + Len(l.tier) < Len(m.old) + Len(m.tier)
    <3>1. Len(l.old) = 0 /\ Len(m.old) = 0
      BY <2>5, <1>2, <1>3
    <3>2. Len(l.tier) = Len(m.tier) - 1
      BY <2>2, <2>5
    <3>3. QED
      BY <3>1, <3>2, <1>2
  <2>11. QED
    BY <2>5, <2>9, <2>10 DEF l
<1>4. CASE m.old # <<>> /\ m.tier = <<>>
  <2> DEFINE x == Head(m.old)
             t == Tail(m.old)
             out == Append(m.out, x)
  <2>2. /\ t \in Ranges /\ Len(t) = Len(m.old) - 1 /\ Len(m.old) \in Nat \ {0}
        /\ x \in [amount : Nat, length : Nat]
        /\ \A p \in Nat : AmountAt(m.old, p) = IF p < x.length THEN x.amount
                                               ELSE AmountAt(t, p - x.length)
    BY <1>1, <1>4, AmountOfTail
  <2>3. l = [m EXCEPT !.out = out, !.old = t]
    BY <1>4, Zenon DEF MergeStep
  <2> HIDE DEF x, t
  <2>4. out \in Ranges
    BY <1>1, <2>2, AmountOfAppend
  <2> HIDE DEF out
  <2>5. l \in Merges /\ l.tier = <<>> /\ l.old = t /\ l.out = out
    BY <2>2, <2>3, <2>4, <1>4 DEF Merges
  <2> HIDE DEF l
  <2>6. x.length \in Nat /\ x.amount \in Nat
    BY <2>2
  <2>7. \A q \in Nat : q < x.length => Together(m.old, m.tier, q) = x.amount
    <3>1. SUFFICES ASSUME NEW q \in Nat, q < x.length PROVE Together(m.old, m.tier, q) = x.amount
      OBVIOUS
    <3>2. AmountAt(m.tier, q) = 0 /\ AmountAt(m.old, q) = x.amount
      BY <3>1, <2>2, <1>2, <1>4
    <3>3. QED
      BY <3>2, <2>6 DEF Together
  <2>8. \A q \in Nat : Together(l.old, l.tier, q) = Together(m.old, m.tier, q + x.length)
    <3>1. SUFFICES ASSUME NEW q \in Nat
                   PROVE  Together(l.old, l.tier, q) = Together(m.old, m.tier, q + x.length)
      OBVIOUS
    <3>2. q + x.length \in Nat /\ ~(q + x.length < x.length) /\ (q + x.length) - x.length = q
      BY <2>6
    <3>3. AmountAt(l.tier, q) = 0 /\ AmountAt(m.tier, q + x.length) = 0
      BY <3>2, <2>5, <1>2, <1>4
    <3>4. AmountAt(m.old, q + x.length) = AmountAt(l.old, q)
      BY <3>2, <2>2, <2>5
    <3>5. QED
      BY <3>3, <3>4, Zenon DEF Together
  <2>9. \A p \in Nat : Said(l, p) = Said(m, p)
    BY <2>2, <2>5, <2>7, <2>8, OneRange DEF out
  <2>10. Len(l.old) + Len(l.tier) < Len(m.old) + Len(m.tier)
    <3>1. Len(l.tier) = 0 /\ Len(m.tier) = 0
      BY <2>5, <1>2, <1>4
    <3>2. Len(l.old) = Len(m.old) - 1
      BY <2>2, <2>5
    <3>3. QED
      BY <3>1, <3>2, <1>2
  <2>11. QED
    BY <2>5, <2>9, <2>10 DEF l
<1>5. CASE m.old # <<>> /\ m.tier # <<>>
  <2> DEFINE o == Head(m.old)
             t == Head(m.tier)
             n == Min({o.length, t.length})
             x == AmountRange(o.amount + t.amount, n)
             old == Shorten(m.old, n)
             tier == Shorten(m.tier, n)
             out == Append(m.out, x)
  <2>1. /\ o \in [amount : Nat, length : Nat] /\ t \in [amount : Nat, length : Nat]
        /\ \A p \in Nat : p < o.length => AmountAt(m.old, p) = o.amount
        /\ \A p \in Nat : p < t.length => AmountAt(m.tier, p) = t.amount
    <3>1. o \in [amount : Nat, length : Nat] /\ t \in [amount : Nat, length : Nat]
      BY <1>1, <1>5, AmountOfTail
    <3>2. \A p \in Nat : p < o.length => AmountAt(m.old, p) = o.amount
      BY <1>1, <1>5, AmountOfTail
    <3>3. \A p \in Nat : p < t.length => AmountAt(m.tier, p) = t.amount
      BY <1>1, <1>5, AmountOfTail
    <3>4. QED
      BY <3>1, <3>2, <3>3
  <2>2. o.length \in Nat /\ o.amount \in Nat /\ t.length \in Nat /\ t.amount \in Nat
    BY <2>1
  <2>3. n = IF o.length <= t.length THEN o.length ELSE t.length
    <3> HIDE DEF o, t
    <3>1. QED
      BY <2>2, MinOfTwo
  <2>4. n \in Nat /\ n <= o.length /\ n <= t.length /\ (n = o.length \/ n = t.length)
    <3> HIDE DEF n, o, t
    <3>1. QED
      BY <2>2, <2>3
  <2>5. l = [old |-> old, tier |-> tier, out |-> out]
    BY <1>5, Zenon DEF MergeStep
  <2> HIDE DEF n
  <2>6. /\ old \in Ranges /\ Len(old) = IF o.length = n THEN Len(m.old) - 1 ELSE Len(m.old)
        /\ \A p \in Nat : AmountAt(old, p) = AmountAt(m.old, p + n)
    BY <1>1, <1>5, <2>4, AmountOfRest
  <2>7. /\ tier \in Ranges /\ Len(tier) = IF t.length = n THEN Len(m.tier) - 1 ELSE Len(m.tier)
        /\ \A p \in Nat : AmountAt(tier, p) = AmountAt(m.tier, p + n)
    BY <1>1, <1>5, <2>4, AmountOfRest
  <2> HIDE DEF o, t
  <2>8. x \in [amount : Nat, length : Nat] /\ x.length = n /\ x.amount = o.amount + t.amount
    BY <2>2, <2>4 DEF AmountRange
  <2> HIDE DEF x, old, tier
  <2>9. out \in Ranges
    BY <1>1, <2>8, AmountOfAppend
  <2> HIDE DEF out
  <2>10. l \in Merges /\ l.old = old /\ l.tier = tier /\ l.out = out
    BY <2>5, <2>6, <2>7, <2>9 DEF Merges
  <2> HIDE DEF l
  <2>11. \A q \in Nat : q < x.length => Together(m.old, m.tier, q) = x.amount
    <3>1. SUFFICES ASSUME NEW q \in Nat, q < n
                   PROVE  Together(m.old, m.tier, q) = o.amount + t.amount
      BY <2>8
    <3>2. q < o.length /\ q < t.length
      BY <3>1, <2>2, <2>4
    <3>3. AmountAt(m.old, q) = o.amount /\ AmountAt(m.tier, q) = t.amount
      BY <3>2, <2>1
    <3>4. QED
      BY <3>3, Zenon DEF Together
  <2>12. \A q \in Nat : Together(l.old, l.tier, q) = Together(m.old, m.tier, q + x.length)
    <3>1. SUFFICES ASSUME NEW q \in Nat
                   PROVE  Together(old, tier, q) = Together(m.old, m.tier, q + n)
      BY <2>8, <2>10
    <3>2. QED
      BY <2>6, <2>7, Zenon DEF Together
  <2>13. \A p \in Nat : Said(l, p) = Said(m, p)
    BY <2>8, <2>10, <2>11, <2>12, OneRange DEF out
  <2>14. Len(l.old) + Len(l.tier) < Len(m.old) + Len(m.tier)
    <3> DEFINE a == Len(m.old)
               b == Len(m.tier)
               c == Len(l.old)
               d == Len(l.tier)
    <3>1. a \in Nat /\ b \in Nat
      BY <1>2
    <3>2. c = (IF o.length = n THEN a - 1 ELSE a) /\ d = IF t.length = n THEN b - 1 ELSE b
      BY <2>6, <2>7, <2>10
    <3> HIDE DEF a, b, c, d
    <3>3. c + d < a + b
      BY <3>1, <3>2, <2>4
    <3>4. QED
      BY <3>3 DEF a, b, c, d
  <2>15. QED
    BY <2>10, <2>13, <2>14 DEF l
<1>6. QED
  BY <1>3, <1>4, <1>5

(* The merge of two sequences of ranges says the sum of what they say.     *)
LEMMA AmountOfMerge ==
  ASSUME NEW a \in Ranges, NEW b \in Ranges
  PROVE  Merge(a, b) \in Ranges /\ \A p \in Nat : AmountAt(Merge(a, b), p) = Together(a, b, p)
<1> DEFINE n == Len(a) + Len(b)
           base == [old |-> a, tier |-> b, out |-> <<>>]
           Round(x) == IF x.old = <<>> /\ x.tier = <<>> THEN x ELSE MergeStep(x)
           go == [i \in 1..n |-> [x \in Merges |-> Round(x)]]
           Value(f, i) == IF i = 0 THEN base
                          ELSE IF f[i - 1].old = <<>> /\ f[i - 1].tier = <<>> THEN f[i - 1]
                          ELSE MergeStep(f[i - 1])
           IsMerge(f) == f = [i \in 0..n |-> Value(f, i)]
           m == CHOOSE f : IsMerge(f)
<1>1. n \in Nat
  BY RangeTypes
<1>2. base \in Merges /\ base.old = a /\ base.tier = b /\ base.out = <<>>
  BY NoRanges DEF Merges
<1>3. \A x \in Merges : Round(x) \in Merges
  BY MergeRound
<1> HIDE DEF n, base, Round
<1>4. go \in [1..n -> [Merges -> Merges]]
  BY <1>3
<1>5. PICK f : Stepping(f, n, Merges, base, go)
  <2> HIDE DEF go
  <2>1. QED
    BY <1>1, <1>2, <1>4, StepFunction
<1>6. f \in [0..n -> Merges] /\ f = [i \in 0..n |-> IF i = 0 THEN base ELSE go[i][f[i - 1]]]
  <2> HIDE DEF go
  <2>1. QED
    BY <1>5, Zenon DEF Stepping
<1>7. IsMerge(f)
  <2>1. \A i \in 1..n : f[i - 1] \in Merges
    <3> HIDE DEF go
    <3>1. f \in [0..n -> Merges] /\ \A i \in 1..n : i - 1 \in 0..n
      BY <1>1, <1>6
    <3>2. QED
      BY <3>1
  <2>2. \A i \in 1..n : go[i][f[i - 1]] = Round(f[i - 1])
    BY <2>1
  <2> HIDE DEF go
  <2>3. \A i \in 1..n : i # 0 /\ Value(f, i) = Round(f[i - 1])
    <3>1. \A i \in 1..n : i # 0
      BY <1>1
    <3>2. QED
      BY <3>1, Zenon DEF Round
  <2>4. \A i \in 0..n : i = 0 \/ i \in 1..n
    BY <1>1
  <2>5. Value(f, 0) = base
    OBVIOUS
  <2> HIDE DEF Value
  <2>6. \A i \in 0..n : (IF i = 0 THEN base ELSE go[i][f[i - 1]]) = Value(f, i)
    BY <2>2, <2>3, <2>4, <2>5, Zenon
  <2>7. QED
    BY <1>6, <2>6, Zenon
<1>8. IsMerge(m)
  <2> HIDE DEF IsMerge
  <2>1. QED
    BY <1>7, Zenon DEF m
<1>9. Merge(a, b) = m[n].out
  BY Zenon DEF Merge, n, base
<1> HIDE DEF m
<1>10. \A i \in 0..n : m[i] = Value(m, i)
  <2> HIDE DEF Value
  <2>1. QED
    BY <1>8
<1>11. m[0] = base /\ \A i \in 1..n : m[i] = Round(m[i - 1])
  <2>1. 0 \in 0..n /\ \A i \in 1..n : i \in 0..n /\ i # 0
    BY <1>1
  <2>2. QED
    BY <2>1, <1>10, Zenon DEF Round
<1> HIDE DEF IsMerge
<1> DEFINE Left(x) == Len(x.old) + Len(x.tier)
           G == {i \in 0..n : /\ m[i] \in Merges /\ Left(m[i]) <= n - i
                              /\ \A p \in Nat : Said(m[i], p) = Together(a, b, p)}
<1>12. 0 \in G
  <2>1. Left(base) = n
    BY <1>2, Zenon DEF n
  <2>2. ASSUME NEW p \in Nat PROVE Said(base, p) = Together(a, b, p)
    <3>1. End(base.out) = 0 /\ ~(p < 0) /\ p - 0 = p
      BY <1>2, NoRanges
    <3>2. QED
      BY <3>1, <1>2, Zenon DEF Said
  <2> HIDE DEF Left
  <2>3. QED
    BY <2>1, <2>2, <1>1, <1>2, <1>11
<1>13. \A i \in 1..n : i - 1 \in G => i \in G
  <2>1. SUFFICES ASSUME NEW i \in 1..n, i - 1 \in G PROVE i \in G
    OBVIOUS
  <2> DEFINE x == m[i - 1]
  <2>2. /\ x \in Merges /\ Left(x) <= n - (i - 1)
        /\ \A p \in Nat : Said(x, p) = Together(a, b, p)
    BY <2>1
  <2>3. m[i] = Round(x) /\ i \in 0..n
    BY <1>1, <1>11
  <2> HIDE DEF x
  <2>4. Len(x.old) \in Nat /\ Len(x.tier) \in Nat
    BY <2>2, RangeTypes DEF Merges
  <2>5. CASE x.old = <<>> /\ x.tier = <<>>
    <3>1. m[i] = x
      BY <2>3, <2>5 DEF Round
    <3>2. Left(x) = 0
      <4>1. Len(x.old) = 0 /\ Len(x.tier) = 0
        BY <2>5, EmptySeq
      <4>2. QED
        BY <4>1
    <3> HIDE DEF Left
    <3>3. Left(m[i]) <= n - i
      BY <3>1, <3>2, <1>1
    <3>4. QED
      BY <3>1, <3>3, <2>2, <2>3
  <2>6. CASE ~(x.old = <<>> /\ x.tier = <<>>)
    <3>1. m[i] = MergeStep(x)
      BY <2>3, <2>6 DEF Round
    <3>2. /\ MergeStep(x) \in Merges /\ Left(MergeStep(x)) < Left(x)
          /\ \A p \in Nat : Said(MergeStep(x), p) = Said(x, p)
      BY <2>2, <2>6, MergeRound
    <3>3. Left(x) \in Nat /\ Left(MergeStep(x)) \in Nat
      <4>1. Len(MergeStep(x).old) \in Nat /\ Len(MergeStep(x).tier) \in Nat
        BY <3>2, RangeTypes DEF Merges
      <4>2. \A u, v \in Nat : u + v \in Nat
        OBVIOUS
      <4>3. QED
        BY <4>1, <4>2, <2>4, Zenon
    <3> HIDE DEF Left
    <3>4. Left(m[i]) <= n - i
      BY <3>1, <3>2, <3>3, <2>2, <1>1
    <3>5. \A p \in Nat : Said(m[i], p) = Together(a, b, p)
      BY <3>1, <3>2, <2>2
    <3>6. QED
      BY <3>1, <3>2, <3>4, <3>5, <2>3
  <2>7. QED
    BY <2>5, <2>6
<1>14. n \in G
  <2> HIDE DEF G
  <2>1. QED
    BY <1>1, <1>12, <1>13, StepByStep
<1> DEFINE x == m[n]
<1>15. /\ x \in Merges /\ Left(x) <= 0 /\ \A p \in Nat : Said(x, p) = Together(a, b, p)
  <2>1. n - n = 0
    BY <1>1
  <2>2. QED
    BY <1>14, <2>1
<1> HIDE DEF x
<1>16. x.old = <<>> /\ x.tier = <<>> /\ x.out \in Ranges
  <2>1. x.old \in Ranges /\ x.tier \in Ranges /\ x.out \in Ranges
    BY <1>15 DEF Merges
  <2>2. Len(x.old) = 0 /\ Len(x.tier) = 0
    <3>1. Len(x.old) \in Nat /\ Len(x.tier) \in Nat
      BY <2>1, RangeTypes
    <3>2. \A u, v \in Nat : u + v <= 0 => u = 0 /\ v = 0
      OBVIOUS
    <3>3. QED
      BY <3>1, <3>2, <1>15, Zenon
  <2>3. QED
    BY <2>1, <2>2, EmptySeq DEF Ranges
<1>17. ASSUME NEW p \in Nat PROVE AmountAt(x.out, p) = Together(a, b, p)
  <2>1. End(x.out) \in Nat
    <3>1. Len(x.out) \in 0..Len(x.out)
      BY <1>16, RangeTypes
    <3>2. QED
      BY <3>1, <1>16, EndsSteps DEF End
  <2>2. Said(x, p) = Together(a, b, p)
    BY <1>15
  <2>3. CASE p < End(x.out)
    BY <2>2, <2>3 DEF Said
  <2>4. CASE ~(p < End(x.out))
    <3>1. AmountAt(x.out, p) = 0
      BY <2>1, <2>4, <1>16, AmountBeyond
    <3>2. p - End(x.out) \in Nat
      BY <2>1, <2>4
    <3>3. Together(x.old, x.tier, p - End(x.out)) = 0
      BY <3>2, <1>16, NoRanges DEF Together
    <3>4. QED
      BY <3>1, <3>3, <2>2, <2>4 DEF Said
  <2>5. QED
    BY <2>3, <2>4
<1>18. QED
  BY <1>9, <1>16, <1>17 DEF x

(* The last range made longer by one takes the place after the end.        *)
LEMMA AmountOfLonger ==
  ASSUME NEW r \in Ranges, r # <<>>
  PROVE  LET s == [r EXCEPT ![Len(r)].length = @ + 1]
         IN /\ s \in Ranges /\ s # <<>> /\ Len(s) = Len(r) /\ End(s) = End(r) + 1
            /\ s[Len(s)].amount = r[Len(r)].amount
            /\ \A p \in Nat : AmountAt(s, p) = IF p < End(r) THEN AmountAt(r, p)
                                               ELSE IF p = End(r) THEN r[Len(r)].amount ELSE 0
<1> DEFINE T == [amount : Nat, length : Nat]
           n == Len(r)
           x == [r[n] EXCEPT !.length = @ + 1]
           s == [r EXCEPT ![n] = x]
<1>1. r \in Seq(T) /\ n \in Nat \ {0} /\ r[n] \in T
  <2>1. r \in Seq(T) /\ n \in Nat \ {0}
    BY EmptySeq DEF Ranges
  <2> HIDE DEF T
  <2>2. r[n] \in T
    BY <2>1, ElementOfSeq
  <2>3. QED
    BY <2>1, <2>2
<1>2. x \in T /\ x.amount = r[n].amount /\ x.length = r[n].length + 1 /\ r[n].length \in Nat
  BY <1>1
<1>3. [r EXCEPT ![Len(r)].length = @ + 1] = s
  BY Zenon
<1> HIDE DEF x, T
<1>4. /\ s \in Seq(T) /\ Len(s) = n /\ s[n] = x
      /\ \A i \in 1..n : i # n => s[i] = r[i]
  BY <1>1, <1>2
<1>5. s \in Ranges /\ s # <<>>
  <2>1. s # <<>>
    BY <1>1, <1>4, EmptySeq
  <2>2. QED
    BY <2>1, <1>4 DEF Ranges, T
<1> HIDE DEF s, n
<1>6. \A i \in 0..(n - 1) : Ends(r)[i] = Ends(s)[i]
  <2>1. SUFFICES ASSUME NEW i \in 0..(n - 1) PROVE Ends(r)[i] = Ends(s)[i]
    OBVIOUS
  <2>2. i \in 0..Len(r) /\ \A k \in 1..i : k \in 1..n /\ k # n /\ k \in 1..Len(s)
    BY <1>1, <1>4 DEF n
  <2>3. Ends(s)[0] = 0 /\ \A k \in 1..i : Ends(s)[k] = Ends(s)[k - 1] + r[k].length
    BY <2>2, <1>4, <1>5, EndsSteps
  <2>4. QED
    BY <2>2, <2>3, EndsAre
<1>7. n - 1 \in 0..(n - 1) /\ n \in 1..Len(r) /\ n \in 1..Len(s) /\ n \in 0..Len(r) /\ n - 1 \in 0..Len(r)
  BY <1>1, <1>4 DEF n
<1>8. /\ Ends(r)[n] = Ends(r)[n - 1] + r[n].length /\ Ends(r)[n - 1] \in Nat /\ Ends(r)[n] \in Nat
      /\ Ends(s)[n] = Ends(r)[n - 1] + (r[n].length + 1)
  <2>1. Ends(s)[n] = Ends(s)[n - 1] + s[n].length
    BY <1>5, <1>7, EndsSteps
  <2>2. Ends(s)[n] = Ends(r)[n - 1] + (r[n].length + 1)
    BY <2>1, <1>2, <1>4, <1>6, <1>7
  <2>3. QED
    BY <2>2, <1>7, EndsSteps
<1>9. End(r) = Ends(r)[n] /\ End(s) = Ends(s)[n]
  BY <1>4 DEF End, n
<1>10. Ends(s)[n] = Ends(r)[n] + 1
  BY <1>2, <1>8
<1>11. ASSUME NEW p \in Nat
       PROVE  AmountAt(s, p) = IF p < Ends(r)[n] THEN AmountAt(r, p)
                               ELSE IF p = Ends(r)[n] THEN r[n].amount ELSE 0
  <2>1. CASE p < Ends(r)[n]
    <3>1. PICK i \in 1..Len(r) : Ends(r)[i - 1] <= p /\ p < Ends(r)[i]
      BY <2>1, <1>9, RangeAt
    <3>2. AmountAt(r, p) = r[i].amount
      BY <3>1, AmountHere
    <3>3. i \in 1..n /\ i \in 1..Len(s) /\ i - 1 \in 0..(n - 1)
      BY <1>1, <1>4 DEF n
    <3>4. Ends(s)[i - 1] <= p
      BY <3>1, <3>3, <1>6
    <3>5. p < Ends(s)[i]
      <4>1. CASE i = n
        BY <4>1, <2>1, <1>8, <1>10
      <4>2. CASE i # n
        <5>1. i \in 0..(n - 1)
          BY <4>2, <3>3, <1>1
        <5>2. QED
          BY <5>1, <3>1, <1>6
      <4>3. QED
        BY <4>1, <4>2
    <3>6. AmountAt(s, p) = s[i].amount
      BY <3>3, <3>4, <3>5, <1>5, AmountHere
    <3>7. s[i].amount = r[i].amount
      BY <3>3, <1>2, <1>4
    <3>8. QED
      BY <2>1, <3>2, <3>6, <3>7
  <2>2. CASE p = Ends(r)[n]
    <3>1. Ends(s)[n - 1] <= p /\ p < Ends(s)[n]
      BY <2>2, <1>2, <1>6, <1>7, <1>8
    <3>2. AmountAt(s, p) = s[n].amount
      BY <3>1, <1>5, <1>7, AmountHere
    <3>3. QED
      BY <2>2, <3>2, <1>2, <1>4, <1>8
  <2>3. CASE ~(p < Ends(r)[n]) /\ p # Ends(r)[n]
    <3>1. End(s) <= p
      BY <2>3, <1>8, <1>9, <1>10
    <3>2. AmountAt(s, p) = 0
      BY <3>1, <1>5, AmountBeyond
    <3>3. QED
      BY <2>3, <3>2
  <2>4. QED
    BY <2>1, <2>2, <2>3
<1>12. s[Len(s)].amount = r[Len(r)].amount /\ Len(s) = Len(r)
  BY <1>2, <1>4 DEF n
<1>13. QED
  BY <1>3, <1>5, <1>9, <1>10, <1>11, <1>12 DEF n

(* Two elements make a cardinality of two at least.                        *)
LEMMA TwoOrMore ==
  ASSUME NEW S, IsFiniteSet(S), NEW a \in S, NEW b \in S, a # b
  PROVE  Cardinality(S) > 1
<1>1. Cardinality({a}) = 1 /\ IsFiniteSet({a})
  BY FS_Singleton
<1>2. IsFiniteSet({a} \cup {b}) /\ Cardinality({a} \cup {b}) = 2
  <2>1. b \notin {a}
    OBVIOUS
  <2>2. IsFiniteSet({a} \cup {b}) /\ Cardinality({a} \cup {b}) = Cardinality({a}) + 1
    BY <1>1, <2>1, FS_AddElement, Zenon
  <2>3. QED
    BY <1>1, <2>2
<1>3. {a} \cup {b} \in SUBSET S
  OBVIOUS
<1>4. Cardinality({a} \cup {b}) <= Cardinality(S) /\ Cardinality(S) \in Nat
  BY <1>3, FS_Subset, FS_CardinalityType
<1>5. QED
  BY <1>2, <1>4

(* The gap before a spot reaches from the end of the spots before it.      *)
LEMMA GapLength ==
  ASSUME NEW spots \in SUBSET Places, Packed(spots),
         NEW q \in spots, q - 1 \notin spots, NEW e \in Nat,
         \A s \in spots : s < q => s < e,
         e = 0 \/ (e - 1 \in spots /\ e - 1 < q)
  PROVE  ZeroLength(spots, q) = q - e
<1> DEFINE before == {s \in spots : s < q}
<1>1. spots \subseteq Nat /\ IsFiniteSet(spots) /\ before \in SUBSET spots
  <2>1. Places \subseteq Nat /\ IsFiniteSet(Places)
    <3>1. Places = 0..9
      BY DEF Places, MaxSpots
    <3>2. 0 \in Int /\ 9 \in Int /\ 0..9 \subseteq Nat
      OBVIOUS
    <3>3. IsFiniteSet(0..9)
      BY <3>2, FS_Interval, Zenon
    <3>4. QED
      BY <3>1, <3>2, <3>3
  <2>2. IsFiniteSet(spots)
    BY <2>1, FS_Subset
  <2>3. QED
    BY <2>1, <2>2
<1>2. IsFiniteSet(before) /\ Cardinality(before) \in Nat
  <2> HIDE DEF before
  <2>1. QED
    BY <1>1, FS_Subset, FS_CardinalityType
<1>3. ZeroLength(spots, q) = IF Cardinality(before) > 1 THEN q - Max(before) - 1 ELSE q
  BY Zenon DEF ZeroLength
<1>4. q \in Nat
  BY <1>1
<1>5. CASE e = 0
  <2>1. before = {}
    <3>1. SUFFICES ASSUME NEW s \in spots, s < q PROVE FALSE
      BY Zenon
    <3>2. s \in Nat /\ s < 0
      BY <3>1, <1>1, <1>5
    <3>3. QED
      BY <3>2
  <2>2. Cardinality(before) = 0
    BY <2>1, FS_EmptySet, Zenon
  <2>3. QED
    BY <2>2, <1>3, <1>4, <1>5
<1>6. CASE e # 0
  <2> DEFINE l == e - 1
  <2>1. l \in before /\ l \in spots /\ l < q /\ e = l + 1 /\ l \in Nat
    BY <1>6, <1>1
  <2>2. \A s \in before : s <= l
    BY <1>1, <2>1
  <2> HIDE DEF l
  <2>3. \A s \in spots : s \notin before => q <= s
    BY <1>1, <1>4
  <2>4. Cardinality(before) > 1
    <3>1. SUFFICES ASSUME ~(Cardinality(before) > 1) PROVE FALSE
      OBVIOUS
    <3>2. \A s \in before : s = l
      <4> HIDE DEF before
      <4>1. QED
        BY <3>1, <2>1, <1>2, TwoOrMore
    <3>3. \A s \in spots : l <= s
      BY <3>2, <2>1, <2>3, <1>1, <1>4
    <3>4. Min(spots) = l
      <4>1. Min(spots) = CHOOSE x \in spots : \A y \in spots : x <= y
        BY Zenon DEF Min
      <4>2. Min(spots) \in spots /\ \A y \in spots : Min(spots) <= y
        BY <4>1, <3>3, <2>1, Zenon
      <4> DEFINE m == Min(spots)
      <4>3. m \in spots /\ m <= l /\ l <= m
        BY <4>2, <3>3, <2>1
      <4> HIDE DEF m
      <4>4. m = l
        BY <4>3, <2>1, <1>1
      <4>5. QED
        BY <4>4 DEF m
    <3>5. Cardinality(spots) > 1
      <4>1. l # q
        BY <2>1, <1>4
      <4>2. QED
        BY <4>1, <2>1, <1>1, TwoOrMore
    <3>6. l + 1 \in spots
      BY <3>4, <3>5 DEF Packed
    <3>7. l + 1 # q /\ l + 1 <= q
      <4>1. l + 1 <= q /\ (l + 1 = q => l = q - 1)
        BY <2>1, <1>4
      <4>2. QED
        BY <4>1, <2>1
    <3>8. l + 1 \in before
      BY <3>6, <3>7, <2>1, <1>4
    <3>9. QED
      BY <3>8, <2>1, <2>2
  <2>5. Max(before) = l
    <3> HIDE DEF before
    <3>1. Max(before) = CHOOSE x \in before : \A y \in before : x >= y
      BY Zenon DEF Max
    <3>2. \A y \in before : l >= y
      BY <2>2, <2>1, <1>1
    <3>3. Max(before) \in before /\ \A y \in before : Max(before) >= y
      BY <3>1, <3>2, <2>1, Zenon
    <3> DEFINE m == Max(before)
    <3>4. m \in before /\ l >= m /\ m >= l
      BY <3>2, <3>3, <2>1
    <3> HIDE DEF m
    <3>5. m = l
      BY <3>4, <2>1, <1>1
    <3>6. QED
      BY <3>5 DEF m
  <2>6. QED
    BY <2>1, <2>4, <2>5, <1>3, <1>4
<1>7. QED
  BY <1>5, <1>6

(* The greatest of some numbers that are bounded.                          *)
LEMMA MaxOfSome ==
  ASSUME NEW S \in SUBSET Nat, S # {}, NEW b \in Nat, \A x \in S : x <= b
  PROVE  Max(S) \in S /\ \A y \in S : Max(S) >= y
<1> DEFINE below == {b - x : x \in S}
<1>1. below \in SUBSET Nat /\ below # {}
  <2>1. \A x \in S : b - x \in Nat
    OBVIOUS
  <2>2. QED
    BY <2>1
<1>2. PICK d \in below : \A e \in below : d <= e
  <2> HIDE DEF below
  <2>1. QED
    BY <1>1, LeastNatural
<1>3. PICK m \in S : d = b - m
  BY <1>2
<1>4. \A y \in S : m >= y
  <2>1. \A y \in S : d <= b - y
    BY <1>2
  <2>2. QED
    BY <2>1, <1>3
<1>5. Max(S) = CHOOSE x \in S : \A y \in S : x >= y
  BY Zenon DEF Max
<1>6. QED
  BY <1>4, <1>5, Zenon

(* The ranges after the spot below i, and what they are then.              *)
SpotRanges(spots, n, i, x) ==
  IF i - 1 \notin spots THEN x
  ELSE IF i - 2 \in spots THEN [x EXCEPT ![Len(x)].length = @ + 1]
  ELSE x \o (IF ZeroLength(spots, i - 1) > 0 THEN <<AmountRange(0, ZeroLength(spots, i - 1))>> ELSE <<>>)
         \o <<AmountRange(n, 1)>>

SpotsDone(spots, n, i, x) ==
  /\ x \in Ranges
  /\ x # <<>> => x[Len(x)].amount = n
  /\ \A s \in spots : s < i => s < End(x)
  /\ End(x) = 0 \/ (End(x) - 1 \in spots /\ End(x) - 1 < i)
  /\ \A p \in Nat : AmountAt(x, p) = IF p \in spots /\ p < i THEN n ELSE 0

(* The end is a number.                                                    *)
LEMMA EndIsNat == ASSUME NEW r \in Ranges PROVE End(r) \in Nat
<1>1. Len(r) \in 0..Len(r)
  BY RangeTypes
<1>2. QED
  BY <1>1, EndsSteps DEF End

(* One spot more, they are ranges still.                                   *)
LEMMA SpotTypes ==
  ASSUME NEW spots \in SUBSET Places, NEW n \in Nat, NEW i \in 1..10, NEW x \in Ranges
  PROVE  SpotRanges(spots, n, i, x) \in Ranges
<1> DEFINE T == [amount : Nat, length : Nat]
           z == ZeroLength(spots, i - 1)
           one == AmountRange(n, 1)
           gap == IF z > 0 THEN <<AmountRange(0, z)>> ELSE <<>>
           longer == [x EXCEPT ![Len(x)].length = @ + 1]
<1>1. x \in Seq(T) /\ one \in T
  BY DEF Ranges, AmountRange
<1>2. z \in Int
  <2> DEFINE before == {s \in spots : s < i - 1}
  <2>1. z = IF Cardinality(before) > 1 THEN (i - 1) - Max(before) - 1 ELSE i - 1
    BY Zenon DEF ZeroLength
  <2>2. before \in SUBSET Nat /\ \A s \in before : s <= 10
    <3>1. Places = 0..9
      BY DEF Places, MaxSpots
    <3>2. \A s \in spots : s \in Nat /\ s <= 10
      BY <3>1
    <3>3. QED
      BY <3>2
  <2>3. Cardinality(before) > 1 => before # {}
    <3>1. Cardinality({}) = 0
      BY FS_EmptySet
    <3> HIDE DEF before
    <3>2. QED
      BY <3>1
  <2> HIDE DEF before, z
  <2>4. Cardinality(before) > 1 => Max(before) \in Nat
    <3>1. SUFFICES ASSUME before # {} PROVE Max(before) \in Nat
      BY <2>3
    <3>2. Max(before) \in before
      BY <3>1, <2>2, MaxOfSome
    <3>3. QED
      BY <3>2, <2>2
  <2>5. QED
    BY <2>1, <2>4
<1> HIDE DEF z
<1>3. gap \in Seq(T)
  <2>1. CASE z > 0
    <3>1. AmountRange(0, z) \in T
      BY <1>2, <2>1 DEF AmountRange
    <3> HIDE DEF T
    <3>2. QED
      BY <3>1, <2>1
  <2>2. CASE ~(z > 0)
    BY <2>2, EmptySeq
  <2>3. QED
    BY <2>1, <2>2
<1> HIDE DEF gap, one
<1>4. x \o gap \o <<one>> \in Seq(T)
  <2> HIDE DEF T
  <2>1. <<one>> \in Seq(T)
    BY <1>1
  <2>2. x \o gap \in Seq(T)
    BY <1>1, <1>3, ConcatProperties
  <2>3. QED
    BY <2>1, <2>2, ConcatProperties
<1>5. longer \in Seq(T)
  <2>1. CASE x = <<>>
    <3>1. longer = <<>>
      BY <2>1
    <3>2. QED
      BY <3>1, EmptySeq
  <2>2. CASE x # <<>>
    BY <2>2, AmountOfLonger DEF Ranges
  <2>3. QED
    BY <2>1, <2>2
<1>6. SpotRanges(spots, n, i, x) = IF i - 1 \notin spots THEN x
                                   ELSE IF i - 2 \in spots THEN longer
                                   ELSE x \o gap \o <<one>>
  BY Zenon DEF SpotRanges, gap, one, z
<1> HIDE DEF longer
<1>7. QED
  BY <1>1, <1>4, <1>5, <1>6, Zenon DEF Ranges

(* The spot below i added, the ranges are what they should be up to it.    *)
LEMMA SpotDone ==
  ASSUME NEW spots \in SUBSET Places, Packed(spots), NEW n \in Nat, NEW i \in 1..10,
         NEW x, SpotsDone(spots, n, i - 1, x)
  PROVE  SpotsDone(spots, n, i, SpotRanges(spots, n, i, x))
<1> DEFINE q == i - 1
           e == End(x)
           y == SpotRanges(spots, n, i, x)
<1>1. /\ x \in Ranges /\ (x # <<>> => x[Len(x)].amount = n)
      /\ (\A s \in spots : s < q => s < e)
      /\ (e = 0 \/ (e - 1 \in spots /\ e - 1 < q))
      /\ \A p \in Nat : AmountAt(x, p) = IF p \in spots /\ p < q THEN n ELSE 0
  BY DEF SpotsDone
<1>2. e \in Nat /\ q \in Nat /\ i = q + 1 /\ spots \subseteq Nat
  BY <1>1, EndIsNat DEF Places, MaxSpots
<1>3. y \in Ranges
  BY <1>1, SpotTypes
<1>4. y = IF q \notin spots THEN x
          ELSE IF i - 2 \in spots THEN [x EXCEPT ![Len(x)].length = @ + 1]
          ELSE x \o (IF ZeroLength(spots, q) > 0 THEN <<AmountRange(0, ZeroLength(spots, q))>> ELSE <<>>)
                 \o <<AmountRange(n, 1)>>
  BY Zenon DEF SpotRanges
<1>5. i - 2 = q - 1
  BY <1>2
<1> HIDE DEF y, q
<1>6. CASE q \notin spots
  <2>1. y = x
    BY <1>4, <1>6
  <2>2. \A s \in spots : s < i => s < q
    BY <1>2, <1>6
  <2>3. (\A s \in spots : s < i => s < e) /\ (e = 0 \/ (e - 1 \in spots /\ e - 1 < i))
    BY <2>2, <1>1, <1>2
  <2>4. \A p \in Nat : (p \in spots /\ p < i) <=> (p \in spots /\ p < q)
    BY <1>2, <1>6
  <2>5. \A p \in Nat : AmountAt(x, p) = IF p \in spots /\ p < i THEN n ELSE 0
    BY <2>4, <1>1
  <2>6. SpotsDone(spots, n, i, x)
    BY <2>3, <2>5, <1>1 DEF SpotsDone
  <2>7. QED
    BY <2>1, <2>6 DEF y
<1>7. CASE q \in spots
  <2>1. SUFFICES ASSUME y # <<>>, y[Len(y)].amount = n, End(y) = i,
                        \A p \in Nat : AmountAt(y, p) = IF p < e THEN AmountAt(x, p)
                                                       ELSE IF p = q THEN n ELSE 0
                 PROVE  SpotsDone(spots, n, i, y)
    <3>1. /\ y # <<>> /\ y[Len(y)].amount = n /\ End(y) = i
          /\ \A p \in Nat : AmountAt(y, p) = IF p < e THEN AmountAt(x, p)
                                             ELSE IF p = q THEN n ELSE 0
      <4>1. CASE q - 1 \in spots
        <5>1. y = [x EXCEPT ![Len(x)].length = @ + 1]
          BY <4>1, <1>4, <1>5, <1>7
        <5>2. e = q
          BY <4>1, <1>1, <1>2
        <5>3. x # <<>>
          BY <4>1, <5>2, <1>2, NoRanges
        <5>4. /\ y # <<>> /\ Len(y) = Len(x) /\ End(y) = e + 1
              /\ y[Len(y)].amount = x[Len(x)].amount
              /\ \A p \in Nat : AmountAt(y, p) = IF p < e THEN AmountAt(x, p)
                                                 ELSE IF p = e THEN x[Len(x)].amount ELSE 0
          <6> HIDE DEF e
          <6>1. QED
            BY <5>1, <5>3, <1>1, AmountOfLonger DEF e
        <5>5. QED
          BY <5>2, <5>3, <5>4, <1>1, <1>2
      <4>2. CASE q - 1 \notin spots
        <5> DEFINE z == ZeroLength(spots, q)
                   one == AmountRange(n, 1)
                   none == AmountRange(0, z)
                   w == IF z > 0 THEN Append(x, none) ELSE x
        <5>1. z = q - e
          <6> HIDE DEF e
          <6>1. QED
            BY <4>2, <1>1, <1>2, <1>7, GapLength
        <5>2. e <= q
          BY <1>1, <1>2
        <5> HIDE DEF z
        <5>3. z \in Nat
          BY <5>1, <5>2, <1>2
        <5>4. /\ one \in [amount : Nat, length : Nat] /\ one.amount = n /\ one.length = 1
              /\ none \in [amount : Nat, length : Nat] /\ none.amount = 0 /\ none.length = z
          BY <5>3 DEF AmountRange
        <5> HIDE DEF one, none, e
        <5>5. x \in Seq([amount : Nat, length : Nat])
          BY <1>1 DEF Ranges
        <5>6. x \o (IF z > 0 THEN <<none>> ELSE <<>>) = w
          <6>1. CASE z > 0
            BY <6>1, <5>4, <5>5, AppendIsConcat
          <6>2. CASE ~(z > 0)
            BY <6>2, <5>5, ConcatEmptySeq
          <6>3. QED
            BY <6>1, <6>2
        <5>7. /\ w \in Ranges /\ End(w) = q
              /\ \A p \in Nat : AmountAt(w, p) = IF p < e THEN AmountAt(x, p) ELSE 0
          <6>1. CASE z > 0
            <7>1. /\ w \in Ranges /\ End(w) = e + z
                  /\ \A p \in Nat : AmountAt(w, p) = IF p < e THEN AmountAt(x, p)
                                                     ELSE IF p < e + z THEN 0 ELSE 0
              BY <6>1, <5>4, <1>1, AmountOfAppend DEF e
            <7>2. QED
              BY <7>1, <5>1, <5>2, <1>2
          <6>2. CASE ~(z > 0)
            <7>1. w = x /\ e = q
              BY <6>2, <5>1, <5>3, <1>2
            <7>2. \A p \in Nat : ~(p < e) => AmountAt(x, p) = 0
              BY <1>1, <1>2, AmountBeyond DEF e
            <7>3. QED
              BY <7>1, <7>2, <1>1 DEF e
          <6>3. QED
            BY <6>1, <6>2
        <5>8. y = w \o <<one>>
          BY <4>2, <5>6, <1>4, <1>5, <1>7 DEF z, one, none
        <5> HIDE DEF w
        <5>9. y = Append(w, one)
          <6>1. w \in Seq([amount : Nat, length : Nat])
            BY <5>7 DEF Ranges
          <6>2. QED
            BY <6>1, <5>4, <5>8, AppendIsConcat
        <5>10. /\ End(y) = q + 1
               /\ \A p \in Nat : AmountAt(y, p) = IF p < q THEN AmountAt(w, p)
                                                  ELSE IF p < q + 1 THEN n ELSE 0
          BY <5>4, <5>7, <5>9, AmountOfAppend
        <5>11. y # <<>> /\ y[Len(y)] = one
          <6>1. w \in Seq([amount : Nat, length : Nat])
            BY <5>7 DEF Ranges
          <6>2. QED
            BY <6>1, <5>4, <5>9, AppendProperties
        <5>12. ASSUME NEW p \in Nat
               PROVE  AmountAt(y, p) = IF p < e THEN AmountAt(x, p)
                                       ELSE IF p = q THEN n ELSE 0
          <6>1. p < e => p < q
            BY <5>2, <1>2
          <6>2. p < q + 1 <=> p < q \/ p = q
            BY <1>2
          <6>3. ~(q < q) /\ ~(q < e)
            BY <5>2, <1>2
          <6>4. QED
            BY <6>1, <6>2, <6>3, <5>7, <5>10
        <5>13. QED
          BY <5>4, <5>10, <5>11, <5>12, <1>2
      <4>3. QED
        BY <4>1, <4>2
    <3>2. QED
      BY <3>1, Zenon DEF y
  <2>2. \A s \in spots : s < i => s < End(y)
    BY <2>1
  <2>3. End(y) - 1 \in spots /\ End(y) - 1 < i
    BY <2>1, <1>2, <1>7
  <2>4. ASSUME NEW p \in Nat PROVE AmountAt(y, p) = IF p \in spots /\ p < i THEN n ELSE 0
    <3>1. p < i <=> p < q \/ p = q
      BY <1>2
    <3>2. CASE p < e
      <4>1. p < q
        BY <3>2, <1>1, <1>2
      <4>2. AmountAt(y, p) = IF p \in spots /\ p < q THEN n ELSE 0
        BY <3>2, <2>1, <1>1
      <4>3. QED
        BY <4>1, <4>2, <3>1
    <3>3. CASE ~(p < e)
      <4>1. p \in spots => ~(p < q)
        BY <3>3, <1>1
      <4>2. AmountAt(y, p) = IF p = q THEN n ELSE 0
        BY <3>3, <2>1
      <4>3. QED
        BY <4>1, <4>2, <3>1, <1>7
    <3>4. QED
      BY <3>2, <3>3
  <2>5. QED
    BY <2>1, <2>2, <2>3, <2>4, <1>3 DEF SpotsDone
<1>8. QED
  BY <1>6, <1>7 DEF y

(* A tier's ranges give its amount to its spots and to no other place.     *)
LEMMA AmountOfTier ==
  ASSUME NEW spots \in SUBSET Places, Packed(spots), NEW n \in Nat
  PROVE  /\ TierRanges(spots, n) \in Ranges
         /\ \A p \in Nat : AmountAt(TierRanges(spots, n), p) = IF p \in spots THEN n ELSE 0
<1> DEFINE go == [i \in 1..10 |-> [x \in Ranges |-> SpotRanges(spots, n, i, x)]]
           Value(f, i) == IF i = 0 THEN <<>> ELSE SpotRanges(spots, n, i, f[i - 1])
           IsFound(f) == f = [i \in 0..10 |-> Value(f, i)]
           r == CHOOSE f : IsFound(f)
<1>1. go \in [1..10 -> [Ranges -> Ranges]]
  BY SpotTypes
<1>2. PICK f : Stepping(f, 10, Ranges, <<>>, go)
  <2> HIDE DEF go
  <2>1. QED
    BY <1>1, NoRanges, StepFunction
<1>3. f \in [0..10 -> Ranges] /\ f = [i \in 0..10 |-> IF i = 0 THEN <<>> ELSE go[i][f[i - 1]]]
  <2> HIDE DEF go
  <2>1. QED
    BY <1>2, Zenon DEF Stepping
<1>4. IsFound(f)
  <2>1. \A i \in 1..10 : f[i - 1] \in Ranges
    <3> HIDE DEF go
    <3>1. f \in [0..10 -> Ranges] /\ \A i \in 1..10 : i - 1 \in 0..10
      BY <1>3
    <3>2. QED
      BY <3>1
  <2>2. \A i \in 1..10 : go[i][f[i - 1]] = SpotRanges(spots, n, i, f[i - 1])
    BY <2>1
  <2> HIDE DEF go
  <2>3. \A i \in 0..10 : i = 0 \/ i \in 1..10
    OBVIOUS
  <2>4. \A i \in 0..10 : (IF i = 0 THEN <<>> ELSE go[i][f[i - 1]]) = Value(f, i)
    BY <2>2, <2>3, Zenon
  <2> HIDE DEF Value
  <2>5. QED
    BY <1>3, <2>4, Zenon
<1>5. IsFound(r)
  <2> HIDE DEF IsFound
  <2>1. QED
    BY <1>4, Zenon DEF r
<1>6. TierRanges(spots, n) = r[10]
  BY Zenon DEF TierRanges, SpotRanges, MaxSpots
<1> HIDE DEF r
<1>7. \A i \in 0..10 : r[i] = Value(r, i)
  <2> HIDE DEF Value
  <2>1. QED
    BY <1>5
<1> DEFINE G == {i \in 0..10 : SpotsDone(spots, n, i, r[i])}
<1>8. 0 \in G
  <2>1. r[0] = <<>>
    BY <1>7
  <2>2. ~(<<>> # <<>>) /\ \A s \in spots : ~(s < 0)
    BY DEF Places, MaxSpots
  <2>3. SpotsDone(spots, n, 0, <<>>)
    BY <2>2, NoRanges DEF SpotsDone
  <2>4. QED
    BY <2>1, <2>3
<1>9. \A i \in 1..10 : i - 1 \in G => i \in G
  <2>1. SUFFICES ASSUME NEW i \in 1..10, SpotsDone(spots, n, i - 1, r[i - 1])
                 PROVE  SpotsDone(spots, n, i, r[i])
    OBVIOUS
  <2>2. r[i] = SpotRanges(spots, n, i, r[i - 1])
    <3>1. i \in 0..10 /\ i # 0
      OBVIOUS
    <3>2. QED
      BY <3>1, <1>7, Zenon
  <2>3. QED
    BY <2>1, <2>2, SpotDone
<1>10. SpotsDone(spots, n, 10, r[10])
  <2>1. 10 \in G
    <3> HIDE DEF G
    <3>1. QED
      BY <1>8, <1>9, StepByStep
  <2>2. QED
    BY <2>1
<1>11. \A p \in spots : p < 10
  <2>1. Places = 0..9
    BY DEF Places, MaxSpots
  <2>2. QED
    BY <2>1
<1>12. QED
  BY <1>6, <1>10, <1>11 DEF SpotsDone

(* A tier that has the deposit has an entry for it.                        *)
LEMMA EntryTypes ==
  ASSUME NEW x \in Tier, NEW k, Has(x, k)
  PROVE  Entry(x, k) \in EntryType
<1> DEFINE items == Typed(x).items
           at == {e \in DOMAIN items : items[e].item = k}
<1>1. items \in Seq(EntryType) /\ Len(items) \in Nat /\ DOMAIN items = 1..Len(items)
  BY TypedTier DEF Tier
<1>2. at \in SUBSET Nat /\ at # {}
  <2>1. \E e \in DOMAIN items : items[e].item = k
    BY Zenon DEF Has
  <2> HIDE DEF items
  <2>2. QED
    BY <2>1, <1>1
<1>3. Entry(x, k) = items[Min(at)]
  BY Zenon DEF Entry
<1>4. Min(at) \in at
  <2> HIDE DEF at
  <2>1. \E m \in at : \A y \in at : m <= y
    BY <1>2, LeastNatural
  <2>2. Min(at) = CHOOSE m \in at : \A y \in at : m <= y
    BY Zenon DEF Min
  <2>3. QED
    BY <2>1, <2>2, Zenon
<1>5. Min(at) \in 1..Len(items)
  <2> HIDE DEF items
  <2>1. QED
    BY <1>1, <1>4
<1> HIDE DEF items, at
<1>6. QED
  BY <1>1, <1>3, <1>5, ElementOfSeq

(* The ranges of a deposit give each place what its tiers give it.         *)
LEMMA AmountsAreMeant ==
  ASSUME NEW tt, tt.tiers \in Seq(Tier),
         \A t \in DOMAIN tt.tiers : Packed(tt.tiers[t].spots),
         NEW k, NEW p \in Nat
  PROVE  AmountAt(RangesOf(tt, k), p) = Meant(tt, k, p)
<1> DEFINE n == Len(tt.tiers)
           F == Filtered(tt, k)
           S(t) == tt.tiers[t].spots
           A(t) == Entry(tt.tiers[t], k).amount
           Merged(t, x) == IF t \notin F THEN x ELSE Merge(x, TierRanges(S(t), A(t)))
           More(t, x) == IF t \in F /\ p \in S(t) THEN x + A(t) ELSE x
           goR == [t \in 1..n |-> [x \in Ranges |-> Merged(t, x)]]
           goM == [t \in 1..n |-> [x \in Nat |-> More(t, x)]]
           ValueR(f, t) == IF t = 0 THEN <<>> ELSE Merged(t, f[t - 1])
           ValueM(f, t) == IF t = 0 THEN 0 ELSE More(t, f[t - 1])
           IsR(f) == f = [t \in 0..n |-> ValueR(f, t)]
           IsM(f) == f = [t \in 0..n |-> ValueM(f, t)]
           r == CHOOSE f : IsR(f)
           m == CHOOSE f : IsM(f)
<1>1. n \in Nat /\ DOMAIN tt.tiers = 1..n
  OBVIOUS
<1>2. ASSUME NEW t \in 1..n, t \in F
      PROVE  /\ A(t) \in Nat /\ TierRanges(S(t), A(t)) \in Ranges
             /\ AmountAt(TierRanges(S(t), A(t)), p) = IF p \in S(t) THEN A(t) ELSE 0
  <2>1. tt.tiers[t] \in Tier /\ Packed(S(t)) /\ Has(tt.tiers[t], k)
    <3>1. tt.tiers[t] \in Tier
      BY <1>1, ElementOfSeq
    <3>2. QED
      BY <3>1, <1>1, <1>2, Zenon DEF Filtered
  <2>2. Entry(tt.tiers[t], k) \in EntryType
    BY <2>1, EntryTypes
  <2>3. A(t) \in Nat /\ S(t) \in SUBSET Places
    BY <2>1, <2>2 DEF EntryType, Tier
  <2> HIDE DEF A, S
  <2>4. QED
    BY <2>1, <2>3, AmountOfTier
<1>3. RangesOf(tt, k) = r[n]
  BY Zenon DEF RangesOf
<1>4. Meant(tt, k, p) = m[n]
  BY Zenon DEF Meant
<1> HIDE DEF n, F, S, A
<1>5. \A t \in 1..n : \A x \in Ranges :
        /\ Merged(t, x) \in Ranges
        /\ AmountAt(Merged(t, x), p) = More(t, AmountAt(x, p))
  <2>1. SUFFICES ASSUME NEW t \in 1..n, NEW x \in Ranges
                 PROVE  /\ Merged(t, x) \in Ranges
                        /\ AmountAt(Merged(t, x), p) = More(t, AmountAt(x, p))
    BY Zenon
  <2>2. CASE t \notin F
    BY <2>2
  <2>3. CASE t \in F
    <3> DEFINE b == TierRanges(S(t), A(t))
    <3>1. A(t) \in Nat /\ b \in Ranges /\ AmountAt(b, p) = IF p \in S(t) THEN A(t) ELSE 0
      BY <1>2, <2>3
    <3>2. Merged(t, x) = Merge(x, b)
      BY <2>3
    <3> HIDE DEF b, Merged
    <3>3. Merge(x, b) \in Ranges /\ AmountAt(Merge(x, b), p) = AmountAt(x, p) + AmountAt(b, p)
      BY <3>1, AmountOfMerge DEF Together
    <3>4. AmountAt(x, p) \in Nat
      BY AmountIsNat
    <3>5. AmountAt(Merged(t, x), p) = More(t, AmountAt(x, p))
      BY <3>1, <3>2, <3>3, <3>4, <2>3
    <3>6. QED
      BY <3>2, <3>3, <3>5
  <2>4. QED
    BY <2>2, <2>3
<1>6. \A t \in 1..n : \A x \in Nat : More(t, x) \in Nat
  BY <1>2
<1> HIDE DEF Merged, More
<1>7. goR \in [1..n -> [Ranges -> Ranges]] /\ goM \in [1..n -> [Nat -> Nat]]
  BY <1>5, <1>6
<1>8. \A t \in 1..n : t - 1 \in 0..n /\ t # 0 /\ t \in 0..n
  BY <1>1
<1>9. 0 \in 0..n /\ \A t \in 0..n : t = 0 \/ t \in 1..n
  BY <1>1
<1>10. IsR(r)
  <2>1. PICK f : Stepping(f, n, Ranges, <<>>, goR)
    <3> HIDE DEF goR
    <3>1. QED
      BY <1>1, <1>7, NoRanges, StepFunction
  <2>2. f \in [0..n -> Ranges] /\ f = [t \in 0..n |-> IF t = 0 THEN <<>> ELSE goR[t][f[t - 1]]]
    <3> HIDE DEF goR
    <3>1. QED
      BY <2>1, Zenon DEF Stepping
  <2>3. \A t \in 1..n : f[t - 1] \in Ranges
    <3> HIDE DEF goR
    <3>1. QED
      BY <2>2, <1>8
  <2>4. \A t \in 1..n : goR[t][f[t - 1]] = Merged(t, f[t - 1])
    BY <2>3
  <2> HIDE DEF goR
  <2>5. \A t \in 0..n : (IF t = 0 THEN <<>> ELSE goR[t][f[t - 1]]) = ValueR(f, t)
    BY <2>4, <1>9, Zenon
  <2> HIDE DEF ValueR
  <2>6. IsR(f)
    BY <2>2, <2>5, Zenon
  <2> HIDE DEF IsR
  <2>7. QED
    BY <2>6, Zenon DEF r
<1>11. IsM(m)
  <2>1. PICK f : Stepping(f, n, Nat, 0, goM)
    <3> HIDE DEF goM
    <3>1. QED
      BY <1>1, <1>7, StepFunction
  <2>2. f \in [0..n -> Nat] /\ f = [t \in 0..n |-> IF t = 0 THEN 0 ELSE goM[t][f[t - 1]]]
    <3> HIDE DEF goM
    <3>1. QED
      BY <2>1, Zenon DEF Stepping
  <2>3. \A t \in 1..n : f[t - 1] \in Nat
    <3> HIDE DEF goM
    <3>1. QED
      BY <2>2, <1>8
  <2>4. \A t \in 1..n : goM[t][f[t - 1]] = More(t, f[t - 1])
    BY <2>3
  <2> HIDE DEF goM
  <2>5. \A t \in 0..n : (IF t = 0 THEN 0 ELSE goM[t][f[t - 1]]) = ValueM(f, t)
    BY <2>4, <1>9, Zenon
  <2> HIDE DEF ValueM
  <2>6. IsM(f)
    BY <2>2, <2>5, Zenon
  <2> HIDE DEF IsM
  <2>7. QED
    BY <2>6, Zenon DEF m
<1> HIDE DEF r, m
<1>12. r[0] = <<>> /\ \A t \in 1..n : r[t] = Merged(t, r[t - 1])
  <2>1. \A t \in 0..n : r[t] = ValueR(r, t)
    <3> HIDE DEF ValueR
    <3>1. QED
      BY <1>10
  <2>2. QED
    BY <2>1, <1>8, <1>9, Zenon
<1>13. m[0] = 0 /\ \A t \in 1..n : m[t] = More(t, m[t - 1])
  <2>1. \A t \in 0..n : m[t] = ValueM(m, t)
    <3> HIDE DEF ValueM
    <3>1. QED
      BY <1>11
  <2>2. QED
    BY <2>1, <1>8, <1>9, Zenon
<1> DEFINE G == {t \in 0..n : r[t] \in Ranges /\ AmountAt(r[t], p) = m[t]}
<1> HIDE DEF IsR, IsM
<1>14. 0 \in G
  BY <1>9, <1>12, <1>13, NoRanges
<1>15. \A t \in 1..n : t - 1 \in G => t \in G
  <2>1. SUFFICES ASSUME NEW t \in 1..n, r[t - 1] \in Ranges, AmountAt(r[t - 1], p) = m[t - 1]
                 PROVE  r[t] \in Ranges /\ AmountAt(r[t], p) = m[t]
    BY <1>8
  <2>2. QED
    BY <2>1, <1>5, <1>12, <1>13
<1>16. n \in G
  <2> HIDE DEF G
  <2>1. QED
    BY <1>1, <1>14, <1>15, StepByStep
<1>17. QED
  BY <1>3, <1>4, <1>16

(* For any tiers without a gap before their second spot, of any artworks,  *)
(* entries and amounts: the ranges createAuction merges give each place    *)
(* the sum of what its tiers give it, and no place more than that.         *)
THEOREM TiersGiveTheirAmounts == WizardSpec => []TierAmounts
<1>1. TableNamed => TierAmounts
  <2>1. SUFFICES ASSUME TableNamed,
                        \A t \in DOMAIN table.tiers : Packed(table.tiers[t].spots),
                        NEW k \in DOMAIN table.items, NEW place \in 0..2 * ans.winners
                 PROVE  AmountAt(RangesOf(table, k), place) = Meant(table, k, place)
    BY Zenon DEF TierAmounts
  <2>2. table.tiers \in Seq(Tier)
    BY <2>1, TableTypes DEF TableNamed
  <2>3. ans.winners \in 1..10
    BY <2>1 DEF TableNamed, Asked
  <2>4. place \in Nat
    BY <2>3
  <2>5. QED
    BY <2>1, <2>2, <2>4, AmountsAreMeant
<1>2. QED
  BY <1>1, TableStays, PTL

-----------------------------------------------------------------------------
(* Transactions                                                            *)

(* One instruction more of a transaction that started on c.                *)
Stage(r, c, x) ==
  IF r.ok /\ Allowed(r.chain, x) THEN [chain |-> Do(r.chain, x), ok |-> TRUE]
                                 ELSE [chain |-> c, ok |-> FALSE]

(* f goes through the instructions of tx.                                  *)
Stages(f, c, tx) ==
  /\ f[0] = [chain |-> c, ok |-> TRUE]
  /\ \A i \in 1..Len(tx) : f[i] = Stage(f[i - 1], c, tx[i])

(* A transaction is applied in stages, and does not leave a set of chains  *)
(* that its instructions do not leave.                                     *)
LEMMA Applied ==
  ASSUME NEW S, NEW c \in S, NEW tx, Len(tx) \in Nat,
         \A i \in 1..Len(tx), d \in S : Allowed(d, tx[i]) => Do(d, tx[i]) \in S
  PROVE  \E f : /\ Stages(f, c, tx) /\ Apply(c, tx) = f[Len(tx)]
                /\ \A i \in 0..Len(tx) : f[i].chain \in S
<1> DEFINE n == Len(tx)
           T == [chain : S, ok : BOOLEAN]
           base == [chain |-> c, ok |-> TRUE]
           go == [i \in 1..n |-> [r \in T |-> Stage(r, c, tx[i])]]
           IsRun(f) == f = [i \in 0..n |-> IF i = 0 THEN base ELSE Stage(f[i - 1], c, tx[i])]
           run == CHOOSE f : IsRun(f)
<1>1. base \in T /\ \A i \in 1..n, r \in T : Stage(r, c, tx[i]) \in T
  BY DEF Stage
<1>2. \E f : IsRun(f) /\ f \in [0..n -> T]
  <2> HIDE DEF T, n, base
  <2>1. go \in [1..n -> [T -> T]]
    BY <1>1
  <2>2. n \in Nat
    BY DEF n
  <2>3. PICK f : Stepping(f, n, T, base, go)
    <3> HIDE DEF go
    <3>1. QED
      BY <1>1, <2>1, <2>2, StepFunction
  <2>4. f \in [0..n -> T]
    <3> HIDE DEF go
    <3>1. QED
      BY <2>3, Zenon DEF Stepping
  <2>5. f = [i \in 0..n |-> IF i = 0 THEN base ELSE go[i][f[i - 1]]]
    <3> HIDE DEF go
    <3>1. QED
      BY <2>3, Zenon DEF Stepping
  <2>6. \A i \in 1..n : go[i][f[i - 1]] = Stage(f[i - 1], c, tx[i])
    <3>1. \A i \in 1..n : f[i - 1] \in T
      BY <2>2, <2>4
    <3>2. QED
      BY <3>1, Zenon
  <2>7. IsRun(f)
    <3> HIDE DEF go
    <3>1. \A i \in 0..n : (IF i = 0 THEN base ELSE go[i][f[i - 1]])
                           = IF i = 0 THEN base ELSE Stage(f[i - 1], c, tx[i])
      BY <2>2, <2>6
    <3>2. QED
      BY <2>5, <3>1, Zenon
  <2>8. QED
    <3> HIDE DEF IsRun
    <3>1. QED
      BY <2>4, <2>7
<1>3. IsRun(run)
  <2> HIDE DEF IsRun
  <2>1. QED
    BY <1>2, Zenon DEF run
<1>4. Apply(c, tx) = run[n]
  BY Zenon DEF Apply, Stage
<1> HIDE DEF run, n, base
<1>5. n \in Nat
  BY DEF n
<1>6. run[0] = base /\ \A i \in 1..n : run[i] = Stage(run[i - 1], c, tx[i])
  BY <1>3, <1>5
<1>7. \A i \in 0..n : run[i] \in T
  <2> DEFINE G == {i \in 0..n : \A j \in 0..i : run[j] \in T}
  <2> HIDE DEF T
  <2>1. 0 \in G
    BY <1>1, <1>5, <1>6
  <2>2. \A i \in 1..n : i - 1 \in G => i \in G
    <3>1. SUFFICES ASSUME NEW i \in 1..n, i - 1 \in G PROVE i \in G
      OBVIOUS
    <3>2. run[i - 1] \in T /\ \A j \in 0..(i - 1) : run[j] \in T
      BY <3>1, <1>5
    <3>3. run[i] \in T
      BY <3>2, <1>1, <1>6
    <3>4. \A j \in 0..i : j = i \/ j \in 0..(i - 1)
      BY <1>5
    <3>5. QED
      BY <3>2, <3>3, <3>4, <1>5
  <2> HIDE DEF G
  <2>3. n \in G
    BY <2>1, <2>2, <1>5, StepByStep
  <2>4. QED
    BY <2>3 DEF G
<1>8. QED
  <2>1. Stages(run, c, tx)
    BY <1>6 DEF Stages, n, base
  <2>2. \A i \in 0..Len(tx) : run[i].chain \in S
    BY <1>7 DEF n
  <2>3. QED
    BY <2>1, <2>2, <1>4 DEF n

-----------------------------------------------------------------------------
(* The chain                                                               *)

(* Nobody has more than the seller gave: the manager gets both authorities *)
(* together, and a decommission gives the vault back.                      *)
AuthoritiesAgree(c) ==
  /\ IF c.status = "Disbursing"
     THEN c.vaultAuthority = "seller" /\ c.auctionAuthority = "manager"
     ELSE c.vaultAuthority = c.auctionAuthority
  /\ c.status = "none" => c.vaultAuthority = "seller"
  /\ c.auctionAuthority = "seller" => c.configs = {}

(* A box is filled once; while a manager is there the vault is closed.     *)
BoxesFilled(c) ==
  /\ \A i, j \in DOMAIN c.boxes : c.boxes[i] = c.boxes[j] => i = j
  /\ c.stored \subseteq {c.boxes[i] : i \in DOMAIN c.boxes}
  /\ c.vault = "Deactivated" => c.stored = {}
  /\ c.status # "none" => c.vault \in {"Combined", "Deactivated"} /\ c.boxes # <<>>

(* Each box is validated once, at its order, and the last one makes the    *)
(* sale ready.                                                             *)
BoxesValidated(c) ==
  /\ c.configs \subseteq {i \in DOMAIN c.boxes : c.boxes[i] = i}
  /\ c.validated = Cardinality(c.configs)
  /\ c.vaultAuthority = "manager" => c.configs \subseteq c.stored
  /\ IF c.status \in {"Validated", "Running"}
     THEN c.vaultAuthority = "manager" /\ c.configs = DOMAIN c.boxes
     ELSE c.boxes # <<>> => Cardinality(c.configs) < Len(c.boxes)

ChainInv(c) ==
  /\ c \in Chains
  /\ AuthoritiesAgree(c)
  /\ BoxesFilled(c)
  /\ BoxesValidated(c)

(* What stays done.                                                        *)
Opened == {"Validated", "Running"}

Later(c, d) ==
  /\ c.configs \subseteq d.configs
  /\ c.status \in Opened => d.status \in Opened

(* The instructions that leave the authorities alone, which are all but    *)
(* three.                                                                  *)
ForAnItem == {"markSold", "addToken", "withdraw", "validate"}

ForTheSale ==
  {"price", "initVault", "activate", "combine", "createAuction", "initManager", "start"}

Plain == [ix : ForAnItem, item : Items] \union [ix : ForTheSale]

(* What the types of the fields are good for.                              *)
LEMMA ChainTypes ==
  ASSUME NEW c, ChainInv(c)
  PROVE  /\ c.boxes \in Seq(Items) /\ Len(c.boxes) \in Nat /\ DOMAIN c.boxes = 1..Len(c.boxes)
         /\ Len(c.boxes) = 0 <=> c.boxes = <<>>
         /\ IsFiniteSet(c.configs) /\ Cardinality(c.configs) \in Nat
         /\ c.configs \subseteq Items
         /\ IsFiniteSet(DOMAIN c.boxes) /\ Cardinality(DOMAIN c.boxes) = Len(c.boxes)
<1>1. c.boxes \in Seq(Items) /\ c.configs \subseteq Items
  BY DEF ChainInv, Chains
<1>2. Len(c.boxes) \in Nat /\ DOMAIN c.boxes = 1..Len(c.boxes)
  BY <1>1
<1>3. IsFiniteSet(DOMAIN c.boxes) /\ Cardinality(DOMAIN c.boxes) = Len(c.boxes)
  BY <1>2, FS_Interval
<1>4. IsFiniteSet(c.configs)
  BY <1>3, FS_Subset DEF ChainInv, BoxesValidated
<1>5. QED
  BY <1>1, <1>2, <1>3, <1>4, FS_CardinalityType, EmptySeq

(* What touches none of the fields that the invariant is about.            *)
LEMMA QuietDo ==
  ASSUME NEW c, ChainInv(c), NEW d \in Chains,
         d.status = c.status, d.vault = c.vault, d.boxes = c.boxes, d.stored = c.stored,
         d.vaultAuthority = c.vaultAuthority, d.auctionAuthority = c.auctionAuthority,
         d.configs = c.configs, d.validated = c.validated
  PROVE  ChainInv(d) /\ Later(c, d)
BY DEF ChainInv, AuthoritiesAgree, BoxesFilled, BoxesValidated, Later

(* A token is put in a box of its own, before there is a manager.          *)
LEMMA AddKeeps ==
  ASSUME NEW c, ChainInv(c), NEW i \in Items, MayAdd(c, i), NEW d,
         d = [c EXCEPT !.boxes = Append(@, i), !.stored = @ \union {i}]
  PROVE  ChainInv(d) /\ Later(c, d)
<1>1. c \in Chains /\ c.boxes \in Seq(Items) /\ Len(c.boxes) \in Nat
      /\ DOMAIN c.boxes = 1..Len(c.boxes)
  BY ChainTypes DEF ChainInv
<1>2. /\ d.boxes = Append(c.boxes, i) /\ d.stored = c.stored \union {i}
      /\ d.status = c.status /\ d.vault = c.vault /\ d.configs = c.configs
      /\ d.vaultAuthority = c.vaultAuthority /\ d.auctionAuthority = c.auctionAuthority
      /\ d.validated = c.validated
  BY <1>1 DEF Chains
<1>3. /\ d.boxes \in Seq(Items) /\ Len(d.boxes) = Len(c.boxes) + 1
      /\ DOMAIN d.boxes = 1..(Len(c.boxes) + 1) /\ d.boxes[Len(c.boxes) + 1] = i
      /\ \A k \in 1..Len(c.boxes) : d.boxes[k] = c.boxes[k]
  BY <1>1, <1>2, AppendProperties
<1>4. d \in Chains
  BY <1>1, <1>3 DEF Chains
<1>5. c.status = "none" /\ c.vault = "Inactive" /\ c.configs = {}
      /\ c.vaultAuthority = "seller" /\ c.auctionAuthority = "seller"
  BY <1>1 DEF ChainInv, MayAdd, BoxesFilled, AuthoritiesAgree, Chains, Parties
<1>6. AuthoritiesAgree(d)
  BY <1>2, <1>5 DEF AuthoritiesAgree
<1>7. \A k \in 1..Len(c.boxes) : c.boxes[k] # i
  BY <1>1 DEF MayAdd, ToSet
<1>8. BoxesFilled(d)
  <2>1. \A k, l \in DOMAIN d.boxes : d.boxes[k] = d.boxes[l] => k = l
    BY <1>1, <1>3, <1>7 DEF ChainInv, BoxesFilled
  <2>2. d.stored \subseteq {d.boxes[k] : k \in DOMAIN d.boxes}
    <3>1. \A k \in DOMAIN c.boxes : k \in DOMAIN d.boxes /\ d.boxes[k] = c.boxes[k]
      BY <1>1, <1>3
    <3>2. \A j \in c.stored : \E k \in DOMAIN c.boxes : j = c.boxes[k]
      BY DEF ChainInv, BoxesFilled
    <3>3. Len(c.boxes) + 1 \in DOMAIN d.boxes
      BY <1>1, <1>3
    <3>4. QED
      BY <1>2, <1>3, <3>1, <3>2, <3>3
  <2>3. QED
    BY <2>1, <2>2, <1>2, <1>5 DEF BoxesFilled
<1>9. BoxesValidated(d)
  <2>1. Cardinality(c.configs) = 0 /\ d.configs = {}
    BY <1>2, <1>5, FS_EmptySet
  <2>2. d.validated = Cardinality(d.configs)
    BY <1>2 DEF ChainInv, BoxesValidated
  <2>3. Cardinality(d.configs) < Len(d.boxes)
    BY <2>1, <1>1, <1>2, <1>3
  <2>4. QED
    BY <2>1, <2>2, <2>3, <1>2, <1>5 DEF BoxesValidated
<1>10. QED
  BY <1>2, <1>4, <1>6, <1>8, <1>9 DEF ChainInv, Later

(* A token comes back to a seller who has the vault.                       *)
LEMMA WithdrawKeeps ==
  ASSUME NEW c, ChainInv(c), NEW i \in Items, MayWithdraw(c, i), NEW d, d = Withdraw(c, i)
  PROVE  ChainInv(d) /\ Later(c, d)
<1>1. c \in Chains /\ c.boxes \in Seq(Items) /\ Len(c.boxes) \in Nat
      /\ DOMAIN c.boxes = 1..Len(c.boxes)
  BY ChainTypes DEF ChainInv
<1>2. /\ d.boxes = c.boxes /\ d.stored = c.stored \ {i}
      /\ d.status = c.status /\ d.configs = c.configs
      /\ d.vault = IF Len(c.boxes) = 1 THEN "Deactivated" ELSE c.vault
      /\ d.vaultAuthority = c.vaultAuthority /\ d.auctionAuthority = c.auctionAuthority
      /\ d.validated = c.validated
  BY <1>1 DEF Chains, Withdraw
<1>3. d \in Chains
  BY <1>1 DEF Chains, Withdraw
<1>4. c.vault = "Combined" /\ c.vaultAuthority = "seller" /\ i \in c.stored
  BY DEF MayWithdraw
<1>5. AuthoritiesAgree(d)
  BY <1>2 DEF ChainInv, AuthoritiesAgree
<1>6. BoxesFilled(d)
  <2>1. Len(c.boxes) = 1 => c.stored \subseteq {c.boxes[1]}
    BY <1>1 DEF ChainInv, BoxesFilled
  <2>2. d.vault = "Deactivated" => d.stored = {}
    BY <2>1, <1>2, <1>4
  <2>3. QED
    BY <2>2, <1>2, <1>4 DEF ChainInv, BoxesFilled
<1>7. BoxesValidated(d)
  BY <1>2, <1>4 DEF ChainInv, BoxesValidated
<1>8. QED
  BY <1>2, <1>3, <1>5, <1>6, <1>7 DEF ChainInv, Later

(* The last of the boxes to be validated makes the sale ready.             *)
LEMMA ValidateKeeps ==
  ASSUME NEW c, ChainInv(c), NEW i \in Items, MayValidate(c, i), NEW d, d = Validate(c, i)
  PROVE  ChainInv(d) /\ Later(c, d) /\ i \in d.configs
<1>1. /\ c \in Chains /\ c.boxes \in Seq(Items) /\ Len(c.boxes) \in Nat
      /\ DOMAIN c.boxes = 1..Len(c.boxes)
      /\ IsFiniteSet(c.configs) /\ Cardinality(c.configs) \in Nat
      /\ IsFiniteSet(DOMAIN c.boxes) /\ Cardinality(DOMAIN c.boxes) = Len(c.boxes)
  BY ChainTypes DEF ChainInv
<1>2. /\ d.boxes = c.boxes /\ d.stored = c.stored /\ d.vault = c.vault
      /\ d.configs = c.configs \union {i} /\ d.validated = c.validated + 1
      /\ d.status = IF c.validated + 1 = Len(c.boxes) THEN "Validated" ELSE c.status
      /\ d.vaultAuthority = c.vaultAuthority /\ d.auctionAuthority = c.auctionAuthority
  BY <1>1 DEF Chains, Validate
<1>3. d \in Chains
  <2>1. /\ c.validated + 1 \in Nat /\ c.configs \union {i} \in SUBSET Items
        /\ (c.participation \/ Kind[i] = "Participation") \in BOOLEAN
        /\ [c.updater EXCEPT ![i] = IF Kind[i] = "FullRightsTransfer" THEN "manager" ELSE @]
             \in [Items -> Parties]
    BY <1>1 DEF Chains, Parties
  <2>2. QED
    BY ZenonT(40), <2>1, <1>1 DEF Chains, Validate
<1>4. /\ c.status # "none" /\ c.vaultAuthority = "manager" /\ i \notin c.configs
      /\ i \in DOMAIN c.boxes /\ c.boxes[i] = i /\ i \in c.stored
  BY DEF MayValidate
<1>5. c.validated = Cardinality(c.configs)
      /\ Cardinality(d.configs) = Cardinality(c.configs) + 1
  <2>1. Cardinality(c.configs \union {i}) = Cardinality(c.configs) + 1
    BY <1>1, <1>4, FS_AddElement
  <2>2. QED
    BY <2>1, <1>2 DEF ChainInv, BoxesValidated
<1>6. c.status = "Initialized" /\ c.auctionAuthority = "manager"
      /\ Cardinality(c.configs) < Len(c.boxes)
  BY <1>1, <1>4 DEF ChainInv, AuthoritiesAgree, BoxesValidated, Chains, BoxesFilled
<1>7. AuthoritiesAgree(d)
  BY <1>2, <1>4, <1>6 DEF ChainInv, AuthoritiesAgree
<1>8. BoxesFilled(d)
  BY <1>2, <1>4 DEF ChainInv, BoxesFilled
<1>9. d.configs \subseteq {k \in DOMAIN d.boxes : d.boxes[k] = k}
  BY <1>2, <1>4 DEF ChainInv, BoxesValidated
<1>10. d.status = "Validated" => d.configs = DOMAIN d.boxes
  <2>1. d.configs \subseteq DOMAIN c.boxes
    BY <1>2, <1>9
  <2>2. d.status = "Validated" => Cardinality(d.configs) = Len(c.boxes)
    BY <1>2, <1>5, <1>6
  <2>3. QED
    BY <2>1, <2>2, <1>1, <1>2, FS_Subset
<1>11. BoxesValidated(d)
  BY <1>1, <1>2, <1>4, <1>5, <1>6, <1>9, <1>10 DEF ChainInv, BoxesValidated
<1>12. QED
  BY <1>2, <1>3, <1>6, <1>7, <1>8, <1>11 DEF ChainInv, Later, Opened

(* The instructions that open the vault and the auction: a manager exists  *)
(* once the vault is closed and has boxes, and starts what is validated.   *)
LEMMA OpenKeeps ==
  ASSUME NEW c, ChainInv(c), NEW x, Allowed(c, x), NEW d, d = Do(c, x),
         x.ix \in {"initVault", "activate", "combine", "initManager", "start"}
  PROVE  ChainInv(d) /\ Later(c, d)
<1>1. /\ c \in Chains /\ c.boxes \in Seq(Items) /\ Len(c.boxes) \in Nat
      /\ Len(c.boxes) = 0 <=> c.boxes = <<>>
  BY ChainTypes DEF ChainInv
<1>2. /\ d \in Chains /\ d.boxes = c.boxes /\ d.stored = c.stored /\ d.configs = c.configs
      /\ d.vaultAuthority = c.vaultAuthority /\ d.auctionAuthority = c.auctionAuthority
      /\ d.validated = c.validated
  BY ZenonT(40), <1>1 DEF Do, Chains
<1>3. CASE x.ix \in {"initVault", "activate", "combine"}
  <2>1. /\ d.status = c.status /\ d.vault \in {"Inactive", "Active", "Combined"}
        /\ c.vault \in {"none", "Inactive", "Active"}
    BY <1>1, <1>3 DEF Do, Allowed, Chains
  <2>2. c.status = "none"
    BY <2>1 DEF ChainInv, BoxesFilled
  <2>3. QED
    BY <2>1, <2>2, <1>2 DEF ChainInv, AuthoritiesAgree, BoxesFilled, BoxesValidated, Later, Opened
<1>4. CASE x.ix = "initManager"
  <2>1. d.status = "Initialized" /\ d.vault = c.vault /\ MayInit(c)
    BY <1>1, <1>4 DEF Do, Allowed, Chains
  <2>2. QED
    BY <2>1, <1>1, <1>2
       DEF ChainInv, AuthoritiesAgree, BoxesFilled, BoxesValidated, Later, Opened, MayInit
<1>5. CASE x.ix = "start"
  <2>1. d.status = "Running" /\ d.vault = c.vault /\ c.status = "Validated"
    BY <1>1, <1>5 DEF Do, Allowed, Chains
  <2>2. QED
    BY <2>1, <1>1, <1>2 DEF ChainInv, AuthoritiesAgree, BoxesFilled, BoxesValidated, Later, Opened
<1>6. QED
  BY <1>3, <1>4, <1>5

(* No instruction that leaves the authorities alone breaks the invariant.  *)
LEMMA PlainKeeps ==
  ASSUME NEW c, ChainInv(c), NEW x \in Plain, Allowed(c, x)
  PROVE  ChainInv(Do(c, x)) /\ Later(c, Do(c, x))
<1> DEFINE d == Do(c, x)
<1>1. /\ c \in Chains /\ x.ix \in ForAnItem \union ForTheSale
      /\ x.ix \in ForAnItem => x.item \in Items
  BY DEF ChainInv, Plain, ForAnItem, ForTheSale
<1>2. CASE x.ix \in {"markSold", "price", "createAuction"}
  <2>1. /\ d.status = c.status /\ d.vault = c.vault /\ d.boxes = c.boxes /\ d.stored = c.stored
        /\ d.vaultAuthority = c.vaultAuthority /\ d.auctionAuthority = c.auctionAuthority
        /\ d.configs = c.configs /\ d.validated = c.validated
    BY <1>1, <1>2 DEF Do, Chains
  <2>2. d \in Chains
    BY <1>1, <1>2 DEF Do, Chains, ForAnItem
  <2> HIDE DEF d
  <2>3. QED
    BY <2>1, <2>2, QuietDo DEF d
<1>3. CASE x.ix = "addToken"
  <2>1. /\ MayAdd(c, x.item) /\ x.item \in Items
        /\ d = [c EXCEPT !.boxes = Append(@, x.item), !.stored = @ \union {x.item}]
    BY <1>1, <1>3 DEF Allowed, Do, ForAnItem
  <2> HIDE DEF d
  <2>2. QED
    BY <2>1, AddKeeps DEF d
<1>4. CASE x.ix = "withdraw"
  <2>1. MayWithdraw(c, x.item) /\ x.item \in Items /\ d = Withdraw(c, x.item)
    BY <1>1, <1>4 DEF Allowed, Do, ForAnItem
  <2> HIDE DEF d
  <2>2. QED
    BY <2>1, WithdrawKeeps DEF d
<1>5. CASE x.ix = "validate"
  <2>1. MayValidate(c, x.item) /\ x.item \in Items /\ d = Validate(c, x.item)
    BY <1>1, <1>5 DEF Allowed, Do, ForAnItem
  <2> HIDE DEF d
  <2>2. QED
    BY <2>1, ValidateKeeps DEF d
<1>6. CASE x.ix \in {"initVault", "activate", "combine", "initManager", "start"}
  BY <1>6, OpenKeeps
<1>7. QED
  BY <1>1, <1>2, <1>3, <1>4, <1>5, <1>6 DEF ForAnItem, ForTheSale

-----------------------------------------------------------------------------
(* The transactions of the sale                                            *)

AuthorityInstructions == {setAuctionAuthority, setVaultAuthority, decommissionAuctionManager}

(* Authorities that are still missing are set, and then comes the end.     *)
TakesBack ==
  {tx \in Seq(AuthorityInstructions) :
     Len(tx) > 0 /\ tx[Len(tx)] = decommissionAuctionManager}

SaleTransactions == Seq(Plain) \union {setVaultAndAuctionAuthorities} \union TakesBack

(* Of the three instructions that touch an authority, what they write.     *)
LEMMA AuthorityDo ==
  ASSUME NEW c \in Chains
  PROVE  /\ Do(c, setAuctionAuthority) = [c EXCEPT !.auctionAuthority = "manager"]
         /\ Do(c, setVaultAuthority) = [c EXCEPT !.vaultAuthority = "manager"]
         /\ Do(c, decommissionAuctionManager) =
              [c EXCEPT !.auction = "Ended", !.vaultAuthority = "seller", !.status = "Disbursing"]
         /\ Allowed(c, setAuctionAuthority) <=>
              c.auctionAuthority = "seller" /\ c.status # "none"
         /\ Allowed(c, setVaultAuthority) <=> c.vaultAuthority = "seller" /\ c.status # "none"
         /\ Allowed(c, decommissionAuctionManager) <=> MayDecommission(c)
BY DEF Do, Allowed, Decommission, setAuctionAuthority, setVaultAuthority, decommissionAuctionManager

(* d has the boxes of c, with the same done to them.                       *)
SameBoxes(c, d) ==
  /\ d \in Chains
  /\ d.boxes = c.boxes /\ d.stored = c.stored /\ d.vault = c.vault
  /\ d.configs = c.configs /\ d.validated = c.validated

(* Both authorities go to the manager, or none.                            *)
LEMMA PairKeeps ==
  ASSUME NEW c, ChainInv(c)
  PROVE  LET d == Execute(c, setVaultAndAuctionAuthorities) IN ChainInv(d) /\ Later(c, d)
<1> DEFINE tx == setVaultAndAuctionAuthorities
           e == [c EXCEPT !.auctionAuthority = "manager"]
           d == [e EXCEPT !.vaultAuthority = "manager"]
<1>1. c \in Chains /\ e \in Chains /\ d \in Chains
  BY DEF ChainInv, Chains, Parties
<1>2. Len(tx) = 2 /\ tx[1] = setAuctionAuthority /\ tx[2] = setVaultAuthority
  BY DEF setVaultAndAuctionAuthorities
<1> HIDE DEF tx
<1>3. ASSUME NEW i \in 1..Len(tx), NEW b \in Chains PROVE Do(b, tx[i]) \in Chains
  <2>1. tx[i] = setAuctionAuthority \/ tx[i] = setVaultAuthority
    BY <1>2
  <2>2. [b EXCEPT !.auctionAuthority = "manager"] \in Chains
        /\ [b EXCEPT !.vaultAuthority = "manager"] \in Chains
    BY DEF Chains, Parties
  <2>3. QED
    BY <2>1, <2>2, AuthorityDo
<1>4. PICK f : /\ Stages(f, c, tx) /\ Apply(c, tx) = f[Len(tx)]
               /\ \A i \in 0..Len(tx) : f[i].chain \in Chains
  <2>1. Len(tx) \in Nat
    BY <1>2
  <2>2. \A i \in 1..Len(tx), b \in Chains : Allowed(b, tx[i]) => Do(b, tx[i]) \in Chains
    BY <1>3
  <2>3. QED
    BY <1>1, <2>1, <2>2, Applied
<1>5. /\ f[0] = [chain |-> c, ok |-> TRUE]
      /\ f[1] = Stage(f[0], c, setAuctionAuthority) /\ f[2] = Stage(f[1], c, setVaultAuthority)
      /\ Apply(c, tx) = f[2]
  BY <1>2, <1>4 DEF Stages
<1>6. \/ Execute(c, tx) = c
      \/ /\ Execute(c, tx) = Do(Do(c, setAuctionAuthority), setVaultAuthority)
         /\ Allowed(c, setAuctionAuthority)
  BY <1>5 DEF Execute, Stage
<1>7. CASE Execute(c, tx) = c
  BY <1>7 DEF Later, tx
<1>8. CASE Execute(c, tx) = d /\ c.auctionAuthority = "seller" /\ c.status # "none"
  <2>1. /\ SameBoxes(c, d) /\ d.status = c.status
        /\ d.vaultAuthority = "manager" /\ d.auctionAuthority = "manager"
    BY <1>1 DEF SameBoxes, Chains
  <2> HIDE DEF d
  <2>2. c.vaultAuthority = "seller" /\ c.configs = {} /\ c.status # "Disbursing"
    BY <1>8 DEF ChainInv, AuthoritiesAgree
  <2>3. c.status \notin {"Validated", "Running"}
    BY <2>2 DEF ChainInv, BoxesValidated
  <2>4. ChainInv(d) /\ Later(c, d)
    BY <2>1, <2>2, <2>3, <1>8
       DEF ChainInv, AuthoritiesAgree, BoxesFilled, BoxesValidated, SameBoxes, Later, Opened
  <2>5. QED
    BY <2>4, <1>8 DEF tx
<1>9. QED
  <2>1. /\ Do(c, setAuctionAuthority) = e /\ Do(e, setVaultAuthority) = d
        /\ Allowed(c, setAuctionAuthority) => c.auctionAuthority = "seller" /\ c.status # "none"
    BY <1>1, AuthorityDo
  <2> HIDE DEF d, e
  <2>2. QED
    BY <2>1, <1>6, <1>7, <1>8

(* A sale is taken back before it is ready, and its vault with it.         *)
LEMMA TakesBackKeeps ==
  ASSUME NEW c, ChainInv(c), NEW tx \in TakesBack
  PROVE  LET d == Execute(c, tx) IN ChainInv(d) /\ Later(c, d)
<1> DEFINE S == {b \in Chains : SameBoxes(c, b) /\ b.status \in {c.status, "Disbursing"}}
           n == Len(tx)
<1>1. /\ n \in Nat /\ n > 0 /\ tx[n] = decommissionAuctionManager
      /\ \A i \in 1..n : tx[i] \in {setAuctionAuthority, setVaultAuthority,
                                    decommissionAuctionManager}
  BY DEF TakesBack, AuthorityInstructions
<1>2. c \in S
  BY DEF ChainInv, SameBoxes
<1>3. ASSUME NEW i \in 1..n, NEW b \in S PROVE Do(b, tx[i]) \in S
  <2>1. /\ SameBoxes(c, [b EXCEPT !.auctionAuthority = "manager"])
        /\ SameBoxes(c, [b EXCEPT !.vaultAuthority = "manager"])
        /\ SameBoxes(c, [b EXCEPT !.auction = "Ended", !.vaultAuthority = "seller",
                                  !.status = "Disbursing"])
    BY ZenonT(40) DEF SameBoxes, Chains, Parties
  <2>2. /\ [b EXCEPT !.auctionAuthority = "manager"].status = b.status
        /\ [b EXCEPT !.vaultAuthority = "manager"].status = b.status
        /\ [b EXCEPT !.auction = "Ended", !.vaultAuthority = "seller",
                     !.status = "Disbursing"].status = "Disbursing"
    BY DEF Chains
  <2>3. \/ Do(b, tx[i]) = [b EXCEPT !.auctionAuthority = "manager"]
        \/ Do(b, tx[i]) = [b EXCEPT !.vaultAuthority = "manager"]
        \/ Do(b, tx[i]) = [b EXCEPT !.auction = "Ended", !.vaultAuthority = "seller",
                                   !.status = "Disbursing"]
    BY <1>1, AuthorityDo
  <2>4. QED
    BY <2>1, <2>2, <2>3 DEF SameBoxes
<1> HIDE DEF S, n
<1>4. PICK f : /\ Stages(f, c, tx) /\ Apply(c, tx) = f[Len(tx)]
               /\ \A i \in 0..Len(tx) : f[i].chain \in S
  BY <1>1, <1>2, <1>3, Applied DEF n
<1> DEFINE e == f[n - 1].chain
<1>5. e \in S /\ f[n] = Stage(f[n - 1], c, decommissionAuctionManager)
  BY <1>1, <1>4 DEF Stages, n
<1>6. \/ Execute(c, tx) = c
      \/ Allowed(e, decommissionAuctionManager) /\ Execute(c, tx) = Do(e, decommissionAuctionManager)
  BY <1>4, <1>5 DEF Execute, Stage, n
<1> HIDE DEF e
<1>7. CASE Allowed(e, decommissionAuctionManager)
  <2> DEFINE d == [e EXCEPT !.auction = "Ended", !.vaultAuthority = "seller",
                            !.status = "Disbursing"]
  <2>1. /\ e \in Chains /\ SameBoxes(c, e) /\ e.status \in {c.status, "Disbursing"}
        /\ MayDecommission(e) /\ Do(e, decommissionAuctionManager) = d
    BY <1>5, <1>7, AuthorityDo DEF S
  <2>2. /\ SameBoxes(c, d) /\ d.status = "Disbursing" /\ d.vaultAuthority = "seller"
        /\ d.auctionAuthority = "manager" /\ c.status = "Initialized"
    BY <2>1 DEF SameBoxes, Chains, MayDecommission, Parties
  <2> HIDE DEF d
  <2>3. ChainInv(d) /\ Later(c, d)
    BY <2>2 DEF ChainInv, AuthoritiesAgree, BoxesFilled, BoxesValidated, SameBoxes, Later, Opened
  <2>4. ChainInv(c) /\ Later(c, c)
    BY DEF Later
  <2>5. QED
    BY <2>1, <2>3, <2>4, <1>6
<1>8. QED
  <2>1. ChainInv(c) /\ Later(c, c)
    BY DEF Later
  <2>2. QED
    BY <2>1, <1>6, <1>7

(* Whatever transaction of the sale is sent, on whatever it lands.         *)
LEMMA ExecuteKeeps ==
  ASSUME NEW c, ChainInv(c), NEW tx \in SaleTransactions
  PROVE  ChainInv(Execute(c, tx)) /\ Later(c, Execute(c, tx))
<1>1. CASE tx \in Seq(Plain)
  <2> DEFINE S == {d \in Chains : ChainInv(d) /\ Later(c, d)}
  <2>1. c \in S
    BY DEF ChainInv, Later
  <2>2. \A i \in 1..Len(tx), d \in S : Allowed(d, tx[i]) => Do(d, tx[i]) \in S
    <3>1. SUFFICES ASSUME NEW i \in 1..Len(tx), NEW d \in S, Allowed(d, tx[i])
                   PROVE  Do(d, tx[i]) \in S
      OBVIOUS
    <3>2. ChainInv(Do(d, tx[i])) /\ Later(d, Do(d, tx[i]))
      BY <1>1, <3>1, PlainKeeps
    <3>3. Later(c, d)
      OBVIOUS
    <3>4. Later(c, Do(d, tx[i]))
      BY <3>2, <3>3 DEF Later
    <3>5. QED
      BY <3>2, <3>4 DEF ChainInv
  <2> HIDE DEF S
  <2>3. PICK f : Apply(c, tx) = f[Len(tx)] /\ \A i \in 0..Len(tx) : f[i].chain \in S
    BY <1>1, <2>1, <2>2, Applied
  <2>4. Execute(c, tx) \in S
    BY <1>1, <2>3 DEF Execute
  <2>5. QED
    BY <2>4 DEF S
<1>2. CASE tx = setVaultAndAuctionAuthorities
  BY <1>2, PairKeeps
<1>3. CASE tx \in TakesBack
  BY <1>3, TakesBackKeeps
<1>4. QED
  BY <1>1, <1>2, <1>3 DEF SaleTransactions

-----------------------------------------------------------------------------
(* The tabs                                                                *)

Tab == [pc : {"idle", "round", "sending", "created", "failed"},
        todo : Seq(SaleTransactions), at : Nat, first : Nat, stop : Nat,
        tries : Nat, last : Nat, then : {"none", "unwind"}]

(* What a tab is sending is in its list.                                   *)
InList(b) == b.pc = "sending" => b.at \in 1..Len(b.todo)

TabInv(b) == b \in Tab /\ InList(b)

(* Of the list of the creation the last transaction starts the auction,    *)
(* and before it come the validations, in the order of the items.          *)
N == Len(createAuctionManager)
Validation(i) == N - 1 - Len(Kind) + i

Landed(c, k) == \A i \in Items : Validation(i) <= k => i \in c.configs

(* The list that is left is the end of the first one.                      *)
Off(b) == N - Len(b.todo)
Rest(b) ==
  /\ Len(b.todo) \in 1..N
  /\ \A k \in 1..Len(b.todo) : b.todo[k] = createAuctionManager[Off(b) + k]

(* It depends on the list alone.                                           *)
LEMMA SameRest ==
  ASSUME NEW b, NEW e, e.todo = b.todo
  PROVE  Off(e) = Off(b) /\ (Rest(b) => Rest(e))
  BY DEF Off, Rest

(* Everything before the stop landed, and before the first failure; a stop *)
(* at the end is a sale that can be opened.                                *)
Rounds(c, b) ==
  b.pc = "round" =>
    /\ Rest(b) /\ b.stop \in 0..Len(b.todo)
    /\ IF b.stop < Len(b.todo) THEN Landed(c, Off(b) + b.stop) ELSE c.status \in Opened

Passing(c, b) ==
  b.pc = "sending" =>
    /\ Rest(b) /\ b.first \in 0..(b.at - 1)
    /\ Landed(c, Off(b) + (IF b.first = 0 THEN b.at ELSE b.first) - 1)

Creation(c, b) ==
  /\ b.pc # "idle"
  /\ Rounds(c, b)
  /\ Passing(c, b)
  /\ b.pc = "created" => c.status \in Opened

SetupInv ==
  /\ ChainInv(chain)
  /\ DOMAIN tab = Tabs /\ \A t \in Tabs : TabInv(tab[t])
  /\ late \subseteq SaleTransactions
  /\ skipped \in BOOLEAN
  /\ skipped \/ Creation(chain, tab["create"])

-----------------------------------------------------------------------------
(* The lists that the tabs send                                            *)

(* The items are the numbers of their boxes.                               *)
LEMMA ItemsAreNumbers ==
  /\ Len(Kind) \in Nat /\ Len(Kind) > 0 /\ Items = 1..Len(Kind)
BY SaleAssumption, EmptySeq DEF Items

(* Instructions that are sent one by one, or the first two together.       *)
LEMMA ListOfInstructions ==
  ASSUME NEW s \in Seq(Plain)
  PROVE  /\ EachAlone(s) \in Seq(Seq(Plain)) /\ Len(EachAlone(s)) = Len(s)
         /\ \A k \in 1..Len(s) : EachAlone(s)[k] = <<s[k]>>
         /\ InBatches(s) \in Seq(Seq(Plain))
<1>1. ASSUME NEW r \in Seq(Plain)
      PROVE  /\ EachAlone(r) \in Seq(Seq(Plain)) /\ Len(EachAlone(r)) = Len(r)
             /\ \A k \in 1..Len(r) : EachAlone(r)[k] = <<r[k]>>
  <2>1. Len(r) \in Nat /\ DOMAIN r = 1..Len(r) /\ \A k \in 1..Len(r) : r[k] \in Plain
    OBVIOUS
  <2>2. \A k \in 1..Len(r) : <<r[k]>> \in Seq(Plain)
    BY <2>1
  <2>3. EachAlone(r) \in [1..Len(r) -> Seq(Plain)]
    BY <2>1, <2>2 DEF EachAlone
  <2>4. QED
    BY <2>1, <2>3 DEF EachAlone
<1>2. CASE Len(s) < 2
  BY <1>1, <1>2 DEF InBatches
<1>3. CASE ~(Len(s) < 2)
  <2>1. Len(s) \in Nat /\ 2 \in 0..Len(s)
    BY <1>3
  <2>2. SubSeq(s, 1, 2) \in Seq(Plain) /\ SubSeq(s, 3, Len(s)) \in Seq(Plain)
    BY <2>1, SubSeqProperties
  <2> DEFINE pair == SubSeq(s, 1, 2)
             others == SubSeq(s, 3, Len(s))
  <2>3. InBatches(s) = <<pair>> \o EachAlone(others)
    BY <1>3 DEF InBatches
  <2> HIDE DEF pair, others
  <2>4. pair \in Seq(Plain) /\ others \in Seq(Plain)
    BY <2>2 DEF pair, others
  <2>5. <<pair>> \in Seq(Seq(Plain)) /\ EachAlone(others) \in Seq(Seq(Plain))
    BY <2>4, <1>1
  <2>6. InBatches(s) \in Seq(Seq(Plain))
    BY <2>3, <2>5, ConcatProperties
  <2>7. QED
    BY <2>6, <1>1
<1>4. QED
  BY <1>1, <1>2, <1>3

(* The items of others are marked in transactions of marks.                *)
LEMMA MarksAreInstructions == markItemsThatArentMineAsSold \in Seq(Seq(Plain))
<1> DEFINE n == Len(Kind)
           T == [open : Seq(Plain), txs : Seq(Seq(Plain))]
           base == [open |-> <<>>, txs |-> <<>>]
           With(m, marks) == IF Len(marks) = SALE_TRANSACTION_SIZE
                             THEN [open |-> <<>>, txs |-> Append(m.txs, marks)]
                             ELSE [m EXCEPT !.open = marks]
           Mark(m, i) == IF i \notin Foreign THEN m
                         ELSE With(m, Append(m.open, updatePrimarySaleHappenedViaToken(i)))
           go == [i \in 1..n |-> [m \in T |-> Mark(m, i)]]
           IsRun(f) == f = [i \in 0..n |-> IF i = 0 THEN base ELSE Mark(f[i - 1], i)]
           run == CHOOSE f : IsRun(f)
<1>1. n \in Nat /\ Items = 1..n
  BY ItemsAreNumbers
<1>2. base \in T
  BY EmptySeq
<1>3. ASSUME NEW i \in 1..n, NEW m \in T PROVE Mark(m, i) \in T
  <2> DEFINE marks == Append(m.open, updatePrimarySaleHappenedViaToken(i))
  <2>1. updatePrimarySaleHappenedViaToken(i) \in Plain
    BY <1>1 DEF updatePrimarySaleHappenedViaToken, Plain, ForAnItem
  <2>2. marks \in Seq(Plain)
    BY <2>1, AppendProperties
  <2> HIDE DEF marks
  <2>3. Append(m.txs, marks) \in Seq(Seq(Plain)) /\ <<>> \in Seq(Plain)
    BY <2>2, AppendProperties, EmptySeq
  <2>4. With(m, marks) \in T
    BY <2>2, <2>3
  <2>5. QED
    BY <2>4 DEF marks
<1> HIDE DEF T, n, base, Mark
<1>4. \E f : IsRun(f) /\ f \in [0..n -> T]
  <2>1. go \in [1..n -> [T -> T]]
    BY <1>3
  <2>2. PICK f : Stepping(f, n, T, base, go)
    <3> HIDE DEF go
    <3>1. QED
      BY <1>1, <1>2, <2>1, StepFunction
  <2>3. f \in [0..n -> T]
    <3> HIDE DEF go
    <3>1. QED
      BY <2>2, Zenon DEF Stepping
  <2>4. f = [i \in 0..n |-> IF i = 0 THEN base ELSE go[i][f[i - 1]]]
    <3> HIDE DEF go
    <3>1. QED
      BY <2>2, Zenon DEF Stepping
  <2>5. \A i \in 1..n : go[i][f[i - 1]] = Mark(f[i - 1], i)
    <3>1. \A i \in 1..n : f[i - 1] \in T
      BY <1>1, <2>3
    <3>2. QED
      BY <3>1, Zenon
  <2>6. IsRun(f)
    <3> HIDE DEF go
    <3>1. \A i \in 0..n : (IF i = 0 THEN base ELSE go[i][f[i - 1]])
                           = IF i = 0 THEN base ELSE Mark(f[i - 1], i)
      BY <1>1, <2>5
    <3>2. QED
      BY <2>4, <3>1, Zenon
  <2>7. QED
    <3> HIDE DEF IsRun
    <3>1. QED
      BY <2>3, <2>6
<1>5. IsRun(run)
  <2> HIDE DEF IsRun
  <2>1. QED
    BY <1>4, Zenon DEF run
<1>6. markItemsThatArentMineAsSold =
        IF run[n].open = <<>> THEN run[n].txs ELSE Append(run[n].txs, run[n].open)
  BY Zenon DEF markItemsThatArentMineAsSold, n, base, Mark
<1> HIDE DEF run
<1>7. run[0] = base /\ \A i \in 1..n : run[i] = Mark(run[i - 1], i)
  BY <1>1, <1>5
<1>8. run[n] \in T
  <2> DEFINE G == {i \in 0..n : run[i] \in T}
  <2>1. 0 \in G /\ \A i \in 1..n : i - 1 \in G => i \in G
    BY <1>1, <1>2, <1>3, <1>7
  <2> HIDE DEF G
  <2>2. n \in G
    BY <2>1, <1>1, StepByStep
  <2>3. QED
    BY <2>2 DEF G
<1>9. run[n].open \in Seq(Plain) /\ run[n].txs \in Seq(Seq(Plain))
  BY <1>8 DEF T
<1>10. QED
  BY <1>6, <1>9, AppendProperties

(* Two lists of transactions, one after the other. *)
LEMMA Lists ==
  ASSUME NEW S, NEW s \in Seq(S), NEW r \in Seq(S)
  PROVE  /\ s \o r \in Seq(S) /\ Len(s \o r) = Len(s) + Len(r)
         /\ \A k \in 1..Len(s) : (s \o r)[k] = s[k]
         /\ \A k \in 1..Len(r) : (s \o r)[Len(s) + k] = r[k]
<1>1. s \o r \in Seq(S) /\ Len(s \o r) = Len(s) + Len(r)
  BY ConcatProperties
<1>2. Len(s) \in Nat /\ Len(r) \in Nat
  OBVIOUS
<1>3. \A k \in 1..(Len(s) + Len(r)) : (s \o r)[k] = IF k <= Len(s) THEN s[k] ELSE r[k - Len(s)]
  BY ConcatProperties
<1>4. QED
  BY <1>1, <1>2, <1>3

(* A sequence with one element more at its end.                            *)
LEMMA Ending ==
  ASSUME NEW S, NEW s \in Seq(S), NEW e \in S
  PROVE  /\ s \o <<e>> \in Seq(S) /\ Len(s \o <<e>>) = Len(s) + 1
         /\ (s \o <<e>>)[Len(s) + 1] = e
         /\ \A k \in 1..Len(s) : (s \o <<e>>)[k] = s[k]
<1>1. s \o <<e>> = Append(s, e)
  BY AppendIsConcat
<1>2. /\ Append(s, e) \in Seq(S) /\ Len(Append(s, e)) = Len(s) + 1
      /\ Append(s, e)[Len(s) + 1] = e
      /\ \A k \in 1..Len(s) : Append(s, e)[k] = s[k]
  OBVIOUS
<1>3. QED
  BY <1>1, <1>2

(* What the creation sends: in the end, every box is validated and the     *)
(* auction is started.                                                     *)
LEMMA CreationList ==
  /\ createAuctionManager \in Seq(SaleTransactions)
  /\ N \in Nat /\ N > Len(Kind)
  /\ createAuctionManager[N] = setupStartAuction
  /\ \A i \in Items : /\ Validation(i) \in 1..(N - 1)
                      /\ createAuctionManager[Validation(i)] = <<validateSafetyDepositBoxV2(i)>>
  /\ setupStartAuction \in SaleTransactions
<1> DEFINE T == SaleTransactions
           opening == <<createExternalPriceAccount, createVault>>
           closing == <<closeVault, makeAuction, setupAuctionManagerInstructions,
                        setVaultAndAuctionAuthorities>>
           marked == markItemsThatArentMineAsSold
           before == ((marked \o opening) \o addTokensToVault) \o closing
           starting == <<setupStartAuction>>
<1>1. Len(Kind) \in Nat /\ Len(Kind) > 0 /\ Items = 1..Len(Kind)
  BY ItemsAreNumbers
<1>2. Seq(Plain) \subseteq T /\ \A r \in Seq(Seq(Plain)) : r \in Seq(T)
  BY DEF SaleTransactions
<1>3. /\ updateExternalPriceAccount \in Plain /\ initVault \in Plain /\ activateVault \in Plain
      /\ combineVault \in Plain /\ createAuction \in Plain /\ initAuctionManagerV2 \in Plain
      /\ startAuction \in Plain
      /\ \A i \in Items : /\ addTokenToInactiveVault(i) \in Plain
                          /\ validateSafetyDepositBoxV2(i) \in Plain
  BY DEF Plain, ForAnItem, ForTheSale, updateExternalPriceAccount, initVault, activateVault,
         combineVault, createAuction, initAuctionManagerV2, startAuction,
         addTokenToInactiveVault, validateSafetyDepositBoxV2
<1>4. /\ createExternalPriceAccount \in Seq(Plain) /\ createVault \in Seq(Plain)
      /\ closeVault \in Seq(Plain) /\ makeAuction \in Seq(Plain)
      /\ setupAuctionManagerInstructions \in Seq(Plain) /\ setupStartAuction \in Seq(Plain)
  BY <1>3 DEF createExternalPriceAccount, createVault, closeVault, makeAuction,
              setupAuctionManagerInstructions, setupStartAuction
<1>5. setVaultAndAuctionAuthorities \in T
  BY DEF SaleTransactions
<1>6. opening \in Seq(T) /\ closing \in Seq(T)
  <2> HIDE DEF T
  <2>1. /\ createExternalPriceAccount \in T /\ createVault \in T /\ closeVault \in T
        /\ makeAuction \in T /\ setupAuctionManagerInstructions \in T
    BY <1>2, <1>4
  <2>2. QED
    BY <2>1, <1>5
<1>7. marked \in Seq(T)
  BY <1>2, MarksAreInstructions
<1>8. addTokensToVault \in Seq(T)
  <2> DEFINE s == [k \in DOMAIN buildSafetyDepositArray |->
                     addTokenToInactiveVault(buildSafetyDepositArray[k])]
  <2>1. s = [k \in 1..Len(Kind) |-> addTokenToInactiveVault(k)]
    BY <1>1 DEF buildSafetyDepositArray
  <2> HIDE DEF s
  <2>2. s \in Seq(Plain)
    BY <2>1, <1>1, <1>3
  <2>3. QED
    BY <2>2, <1>2, ListOfInstructions DEF addTokensToVault, s
<1>9. /\ validateBoxes \in Seq(T) /\ Len(validateBoxes) = Len(Kind)
      /\ \A i \in Items : validateBoxes[i] = <<validateSafetyDepositBoxV2(i)>>
  <2> DEFINE s == [k \in DOMAIN buildSafetyDepositArray |->
                     validateSafetyDepositBoxV2(buildSafetyDepositArray[k])]
  <2>1. s = [k \in 1..Len(Kind) |-> validateSafetyDepositBoxV2(k)]
    BY <1>1 DEF buildSafetyDepositArray
  <2>2. validateBoxes = EachAlone(s)
    BY DEF validateBoxes
  <2> HIDE DEF s
  <2>3. s \in Seq(Plain) /\ Len(s) = Len(Kind)
        /\ \A i \in 1..Len(Kind) : s[i] = validateSafetyDepositBoxV2(i)
    BY <2>1, <1>1, <1>3
  <2>4. /\ EachAlone(s) \in Seq(Seq(Plain)) /\ Len(EachAlone(s)) = Len(s)
        /\ \A k \in 1..Len(s) : EachAlone(s)[k] = <<s[k]>>
    BY <2>3, ListOfInstructions
  <2>5. EachAlone(s) \in Seq(T)
    BY <2>4, <1>2
  <2>6. QED
    BY <2>2, <2>3, <2>4, <2>5, <1>1
<1> HIDE DEF T, opening, closing, marked
<1>10. before \in Seq(T) /\ Len(before) \in Nat
  <2>1. marked \o opening \in Seq(T)
    BY <1>6, <1>7, Lists
  <2>2. (marked \o opening) \o addTokensToVault \in Seq(T)
    BY <2>1, <1>8, Lists
  <2>3. before \in Seq(T)
    BY <2>2, <1>6, Lists
  <2>4. QED
    BY <2>3, LenProperties
<1>11. createAuctionManager = (before \o validateBoxes) \o starting
  <2>1. createAuctionManager =
          ((((marked \o opening) \o addTokensToVault) \o closing) \o validateBoxes)
            \o starting
    BY Zenon DEF createAuctionManager, opening, closing, marked
  <2>2. QED
    BY <2>1, Zenon
<1> HIDE DEF before
<1>12. /\ before \o validateBoxes \in Seq(T)
       /\ Len(before \o validateBoxes) = Len(before) + Len(Kind)
       /\ \A i \in Items : (before \o validateBoxes)[Len(before) + i]
                            = <<validateSafetyDepositBoxV2(i)>>
  <2>1. /\ before \o validateBoxes \in Seq(T)
        /\ Len(before \o validateBoxes) = Len(before) + Len(validateBoxes)
        /\ \A k \in 1..Len(validateBoxes) :
             (before \o validateBoxes)[Len(before) + k] = validateBoxes[k]
    <3>1. before \in Seq(T) /\ validateBoxes \in Seq(T)
      BY <1>9, <1>10
    <3> DEFINE boxes == validateBoxes
    <3> HIDE DEF boxes, starting
    <3>2. before \in Seq(T) /\ boxes \in Seq(T)
      BY <3>1 DEF boxes
    <3>3. before \o boxes \in Seq(T)
      BY <3>2, Lists
    <3>4. Len(before \o boxes) = Len(before) + Len(boxes)
      BY <3>2, Lists
    <3>5. \A k \in 1..Len(boxes) : (before \o boxes)[Len(before) + k] = boxes[k]
      BY <3>2, Lists
    <3>6. QED
      BY <3>3, <3>4, <3>5 DEF boxes
  <2>2. QED
    BY <2>1, <1>1, <1>9
<1>13. starting \in Seq(T) /\ Len(starting) = 1 /\ starting[1] = setupStartAuction
       /\ setupStartAuction \in T
  BY <1>2, <1>4
<1> HIDE DEF starting
<1>14. /\ createAuctionManager \in Seq(T) /\ N = Len(before) + Len(Kind) + 1
       /\ createAuctionManager[N] = setupStartAuction
       /\ \A k \in 1..(Len(before) + Len(Kind)) :
            createAuctionManager[k] = (before \o validateBoxes)[k]
  <2> DEFINE long == before \o validateBoxes
  <2>1. long \in Seq(T) /\ Len(long) = Len(before) + Len(Kind)
    BY <1>12
  <2>2. createAuctionManager = long \o starting
    BY <1>11
  <2> HIDE DEF long
  <2>3. /\ createAuctionManager \in Seq(T) /\ Len(createAuctionManager) = Len(long) + 1
        /\ createAuctionManager[Len(long) + 1] = setupStartAuction
        /\ \A k \in 1..Len(long) : createAuctionManager[k] = long[k]
    <3>1. /\ long \o starting \in Seq(T) /\ Len(long \o starting) = Len(long) + Len(starting)
          /\ \A k \in 1..Len(long) : (long \o starting)[k] = long[k]
          /\ \A k \in 1..Len(starting) : (long \o starting)[Len(long) + k] = starting[k]
      BY <2>1, <1>13, Lists
    <3>2. QED
      BY <3>1, <2>2, <1>13
  <2>4. QED
    BY <2>1, <2>3 DEF N, long
<1>15. ASSUME NEW i \in Items
       PROVE  /\ Validation(i) \in 1..(N - 1)
              /\ createAuctionManager[Validation(i)] = <<validateSafetyDepositBoxV2(i)>>
  <2>1. Validation(i) = Len(before) + i /\ Len(before) + i \in 1..(Len(before) + Len(Kind))
    BY <1>1, <1>10, <1>14 DEF Validation
  <2>2. Validation(i) \in 1..(N - 1)
    BY <2>1, <1>1, <1>10, <1>14
  <2>3. createAuctionManager[Validation(i)] = (before \o validateBoxes)[Len(before) + i]
    BY <2>1, <1>14
  <2>4. QED
    BY <2>2, <2>3, <1>12
<1>16. QED
  BY <1>1, <1>10, <1>13, <1>14, <1>15 DEF T

(* What the notifications send. *)
LEMMA MendingLists ==
  ASSUME NEW c \in Chains
  PROVE  unwindVault(c) \in Seq(SaleTransactions) /\ decommAuctionManager(c) \in Seq(SaleTransactions)
<1> DEFINE T == SaleTransactions
           closing == IF c.vault = "Inactive" THEN <<closeVault>> ELSE <<>>
           s == [k \in DOMAIN c.boxes |-> withdrawTokenFromSafetyDepositBox(c.boxes[k])]
<1>1. c.boxes \in Seq(Items) /\ Seq(Plain) \subseteq T /\ \A r \in Seq(Seq(Plain)) : r \in Seq(T)
  BY DEF Chains, SaleTransactions
<1>2. s \in Seq(Plain)
  <2>1. \A k \in 1..Len(c.boxes) : withdrawTokenFromSafetyDepositBox(c.boxes[k]) \in Plain
    BY <1>1 DEF withdrawTokenFromSafetyDepositBox, Plain, ForAnItem
  <2>2. Len(c.boxes) \in Nat /\ DOMAIN c.boxes = 1..Len(c.boxes)
    BY <1>1
  <2>3. QED
    BY <2>1, <2>2
<1>3. closing \in Seq(T)
  <2>1. closeVault \in Seq(Plain)
    BY DEF closeVault, activateVault, combineVault, Plain, ForTheSale
  <2> HIDE DEF T
  <2>2. closeVault \in T
    BY <2>1, <1>1
  <2>3. QED
    BY <2>2, EmptySeq
<1>4. InBatches(s) \in Seq(T)
  <2> HIDE DEF s, T
  <2>1. QED
    BY <1>1, <1>2, ListOfInstructions
<1>5. unwindVault(c) = closing \o InBatches(s)
  BY Zenon DEF unwindVault
<1>6. unwindVault(c) \in Seq(T)
  <2> HIDE DEF closing, s, T
  <2>1. QED
    BY <1>3, <1>4, <1>5, Lists
<1>7. decommAuctionManager(c) \in Seq(T)
  <2> DEFINE A == AuthorityInstructions
             first == IF c.auctionAuthority = "seller" THEN <<setAuctionAuthority>> ELSE <<>>
             second == IF c.vaultAuthority = "seller" THEN <<setVaultAuthority>> ELSE <<>>
             missing == first \o second
             last == <<decommissionAuctionManager>>
  <2>1. decommAuctionManager(c) = <<missing \o last>>
    BY Zenon DEF decommAuctionManager
  <2>2. /\ setAuctionAuthority \in A /\ setVaultAuthority \in A
        /\ decommissionAuctionManager \in A
    BY DEF AuthorityInstructions
  <2>3. /\ first \in Seq(A) /\ second \in Seq(A) /\ last \in Seq(A) /\ Len(last) = 1
        /\ last[1] = decommissionAuctionManager
    <3> HIDE DEF A
    <3>1. QED
      BY <2>2, EmptySeq
  <2>4. missing \in Seq(A)
    <3> HIDE DEF first, second, A
    <3>1. QED
      BY <2>3, Lists
  <2> DEFINE tx == missing \o last
  <2>5. /\ tx \in Seq(A) /\ Len(tx) = Len(missing) + 1
        /\ tx[Len(missing) + 1] = decommissionAuctionManager
    <3> HIDE DEF first, second, missing, A
    <3>1. QED
      BY <2>2, <2>4, Ending
  <2>6. Len(missing) \in Nat
    BY <2>4, LenProperties
  <2> HIDE DEF missing, tx
  <2>7. tx \in T
    BY <2>5, <2>6 DEF TakesBack, SaleTransactions
  <2>8. QED
    BY <2>1, <2>7 DEF tx
<1>8. QED
  BY <1>6, <1>7

-----------------------------------------------------------------------------
(* The steps                                                               *)

(* The fields of a tab that change.                                        *)
LEMMA TabFields ==
  ASSUME NEW b \in Tab
  PROVE  /\ \A stop \in Nat : [b EXCEPT !.pc = "round", !.stop = stop] \in Tab
         /\ \A at \in Nat : [b EXCEPT !.at = at] \in Tab
         /\ \A todo \in Seq(SaleTransactions), last, tries \in Nat :
              [b EXCEPT !.todo = todo, !.last = last, !.at = 1, !.first = 0, !.tries = tries]
                \in Tab
BY DEF Tab

(* A round goes on with what is left of the list. *)
LEMMA NextRoundTab ==
  ASSUME NEW b, TabInv(b), MoreRounds(b)
  PROVE  LET d == NextRound(b)
         IN /\ d \in Tab /\ Len(b.todo) \in Nat
            /\ Len(d.todo) = Len(b.todo) - b.stop /\ Len(d.todo) > 0
            /\ \A k \in 1..Len(d.todo) : d.todo[k] = b.todo[b.stop + k]
            /\ d.at = 1 /\ d.first = 0 /\ d.stop = b.stop /\ d.pc = b.pc /\ d.then = b.then
<1> DEFINE rest == SubSeq(b.todo, b.stop + 1, Len(b.todo))
<1>1. /\ b \in Tab /\ b.todo \in Seq(SaleTransactions) /\ Len(b.todo) \in Nat
      /\ b.stop \in Nat /\ b.stop < Len(b.todo) /\ b.tries \in Nat
  BY DEF TabInv, Tab, MoreRounds
<1>2. /\ rest \in Seq(SaleTransactions) /\ Len(rest) = Len(b.todo) - b.stop
      /\ \A k \in 1..(Len(b.todo) - b.stop) : rest[k] = b.todo[b.stop + k]
  <2>1. \A k \in (b.stop + 1)..Len(b.todo) : b.todo[k] \in SaleTransactions
    BY <1>1
  <2>2. b.stop + 1 \in Int /\ Len(b.todo) \in Int /\ Len(b.todo) - (b.stop + 1) + 1 = Len(b.todo) - b.stop
    BY <1>1
  <2>3. /\ rest \in Seq(SaleTransactions)
        /\ Len(rest) = IF b.stop + 1 <= Len(b.todo) THEN Len(b.todo) - (b.stop + 1) + 1 ELSE 0
        /\ \A k \in 1..(Len(b.todo) - (b.stop + 1) + 1) : rest[k] = b.todo[b.stop + 1 + k - 1]
    BY <2>1, <2>2, SubSeqProperties
  <2>4. \A k \in 1..(Len(b.todo) - b.stop) : b.stop + 1 + k - 1 = b.stop + k
    BY <1>1
  <2> HIDE DEF rest
  <2>5. Len(rest) = Len(b.todo) - b.stop
    BY <2>2, <2>3, <1>1
  <2>6. \A k \in 1..(Len(b.todo) - b.stop) : rest[k] = b.todo[b.stop + k]
    BY <2>2, <2>3, <2>4
  <2>7. QED
    BY <2>3, <2>5, <2>6
<1> DEFINE again == IF Len(rest) = b.last THEN b.tries + 1 ELSE 0
           d == [b EXCEPT !.todo = rest, !.last = Len(rest), !.at = 1, !.first = 0,
                          !.tries = again]
<1>3. NextRound(b) = d
  BY <1>1 DEF NextRound, Tab
<1> HIDE DEF rest
<1>4. Len(rest) \in Nat /\ Len(rest) > 0 /\ again \in Nat
  BY <1>1, <1>2
<1> HIDE DEF again
<1>5. d \in Tab /\ d.todo = rest /\ d.at = 1 /\ d.first = 0 /\ d.stop = b.stop
      /\ d.pc = b.pc /\ d.then = b.then
  <2>1. d \in Tab
    BY <1>1, <1>2, <1>4, TabFields
  <2>2. d.todo = rest /\ d.at = 1 /\ d.first = 0
    BY <1>1 DEF Tab
  <2>3. d.stop = b.stop /\ d.pc = b.pc /\ d.then = b.then
    BY <1>1 DEF Tab
  <2>4. QED
    BY <2>1, <2>2, <2>3
<1> HIDE DEF d
<1>6. QED
  BY <1>1, <1>2, <1>3, <1>4, <1>5

(* A pass goes on, or ends where the list ends. *)
LEMMA AfterTab ==
  ASSUME NEW b, TabInv(b), b.pc = "sending"
  PROVE  TabInv(After(b)) /\ TabInv(AfterFailure(b)) /\ TabInv(AfterException(b))
<1>1. b \in Tab /\ Len(b.todo) \in Nat /\ b.at \in 1..Len(b.todo)
  BY DEF TabInv, Tab, InList
<1>2. ASSUME NEW e, e \in Tab, e.pc = "sending", e.at = b.at, e.todo = b.todo
      PROVE  TabInv(After(e))
  <2>1. CASE e.at < Len(e.todo)
    <3>1. [e EXCEPT !.at = e.at + 1] \in Tab
      <4>1. e.at + 1 \in Nat
        BY <1>1, <1>2
      <4>2. QED
        BY <4>1, <1>2, TabFields, Zenon
    <3>2. [e EXCEPT !.at = e.at + 1].at \in 1..Len([e EXCEPT !.at = e.at + 1].todo)
      BY <1>1, <1>2, <2>1 DEF Tab
    <3>3. After(e) = [e EXCEPT !.at = e.at + 1]
      BY <2>1, <1>2 DEF After, Tab
    <3>4. QED
      BY <3>1, <3>2, <3>3 DEF TabInv, InList
  <2>2. CASE ~(e.at < Len(e.todo))
    <3>1. [e EXCEPT !.pc = "round", !.stop = Len(e.todo)] \in Tab
      BY <1>1, <1>2, TabFields
    <3>2. [e EXCEPT !.pc = "round", !.stop = Len(e.todo)].pc = "round"
      BY <1>2 DEF Tab
    <3>3. QED
      BY <2>2, <3>1, <3>2 DEF TabInv, InList, After
  <2>3. QED
    BY <2>1, <2>2
<1>3. /\ [b EXCEPT !.first = b.at] \in Tab /\ [b EXCEPT !.first = b.at].pc = "sending"
      /\ [b EXCEPT !.first = b.at].at = b.at /\ [b EXCEPT !.first = b.at].todo = b.todo
  BY <1>1 DEF Tab
<1>4. b.first # 0 => TabInv([b EXCEPT !.pc = "round", !.stop = b.first - 1])
  <2>1. b.first # 0 => b.first - 1 \in Nat
    BY <1>1 DEF Tab
  <2>2. b.first # 0 => [b EXCEPT !.pc = "round", !.stop = b.first - 1] \in Tab
    BY <2>1, <1>1, TabFields
  <2>3. [b EXCEPT !.pc = "round", !.stop = b.first - 1].pc = "round"
    BY <1>1 DEF Tab
  <2>4. QED
    BY <2>2, <2>3 DEF TabInv, InList
<1>5. TabInv(AfterFailure(b))
  BY <1>2, <1>3, <1>4 DEF AfterFailure
<1>6. TabInv(AfterException(b))
  BY <1>1 DEF TabInv, Tab, InList, AfterException
<1>7. QED
  BY <1>1, <1>2, <1>5, <1>6

(* What a tab is when it starts, and when it stands idle.                  *)
LEMMA StartTab ==
  ASSUME NEW s \in Seq(SaleTransactions), NEW then \in {"none", "unwind"}
  PROVE  TabInv(Start(s, then)) /\ TabInv(Idle)
<1>1. Idle \in Tab /\ Idle.pc = "idle"
  BY EmptySeq DEF Idle, Tab
<1>2. QED
  BY <1>1 DEF Start, TabInv, Tab, InList

-----------------------------------------------------------------------------
(* What a creation has done                                                *)

(* An instruction sent alone.                                              *)
LEMMA Alone ==
  ASSUME NEW c, ChainInv(c), NEW x \in Plain, Executable(c, <<x>>)
  PROVE  Allowed(c, x) /\ Execute(c, <<x>>) = Do(c, x)
<1> DEFINE S == {d \in Chains : ChainInv(d)}
           tx == <<x>>
<1>1. Len(tx) = 1 /\ tx[1] = x /\ c \in S
  BY DEF ChainInv
<1>2. \A i \in 1..Len(tx), d \in S : Allowed(d, tx[i]) => Do(d, tx[i]) \in S
  BY <1>1, PlainKeeps DEF ChainInv
<1>3. PICK f : /\ Stages(f, c, tx) /\ Apply(c, tx) = f[Len(tx)]
               /\ \A i \in 0..Len(tx) : f[i].chain \in S
  <2>1. Len(tx) \in Nat
    BY <1>1
  <2> HIDE DEF tx, S
  <2>2. QED
    BY <1>1, <1>2, <2>1, Applied
<1> HIDE DEF tx
<1>4. f[0] = [chain |-> c, ok |-> TRUE] /\ f[1] = Stage(f[0], c, x) /\ Apply(c, tx) = f[1]
  BY <1>1, <1>3 DEF Stages
<1>5. Apply(c, tx).ok
  BY DEF Executable, tx
<1>6. Allowed(c, x) /\ Apply(c, tx).chain = Do(c, x)
  BY <1>4, <1>5 DEF Stage
<1>7. QED
  BY <1>6 DEF Execute, tx

(* Every box validated once leaves nothing to validate: the sale is ready. *)
LEMMA AllLanded ==
  ASSUME NEW c, ChainInv(c), Landed(c, N - 1)
  PROVE  c.status \in Opened
<1> DEFINE k == Len(Kind)
<1>1. k \in Nat /\ k > 0 /\ Items = 1..k /\ N \in Nat
  BY ItemsAreNumbers, CreationList
<1>2. Items \subseteq c.configs
  BY <1>1, CreationList DEF Landed
<1>3. /\ c.boxes \in Seq(Items) /\ Len(c.boxes) \in Nat /\ DOMAIN c.boxes = 1..Len(c.boxes)
      /\ c.configs \subseteq Items
  BY ChainTypes
<1>4. c.configs = 1..k
  BY <1>1, <1>2, <1>3
<1>5. \A i \in 1..k : i \in 1..Len(c.boxes) /\ c.boxes[i] = i
  BY <1>3, <1>4 DEF ChainInv, BoxesValidated
<1>6. Len(c.boxes) = k
  <2>1. k <= Len(c.boxes)
    BY <1>1, <1>5
  <2>2. ASSUME k < Len(c.boxes) PROVE FALSE
    <3>1. k + 1 \in 1..Len(c.boxes) /\ c.boxes[k + 1] \in 1..k
      BY <1>1, <1>3, <2>2
    <3>2. c.boxes[c.boxes[k + 1]] = c.boxes[k + 1] /\ c.boxes[k + 1] \in 1..Len(c.boxes)
      BY <3>1, <1>5
    <3>3. c.boxes[k + 1] = k + 1
      BY <3>1, <3>2, <1>3 DEF ChainInv, BoxesFilled
    <3>4. QED
      BY <3>1, <3>3, <1>1
  <2>3. QED
    BY <2>1, <2>2, <1>1, <1>3
<1>7. Cardinality(c.configs) = k
  BY <1>3, <1>4, <1>6, ChainTypes
<1>8. c.boxes # <<>>
  BY <1>1, <1>6
<1>9. QED
  BY <1>1, <1>6, <1>7, <1>8 DEF ChainInv, BoxesValidated, Opened

(* What has landed stays so.                                               *)
LEMMA CreationStays ==
  ASSUME NEW c, NEW d, Later(c, d), NEW b, Creation(c, b)
  PROVE  Creation(d, b)
<1>1. \A k : Landed(c, k) => Landed(d, k)
  BY DEF Landed, Later
<1>2. c.status \in Opened => d.status \in Opened
  BY DEF Later
<1>3. QED
  BY <1>1, <1>2 DEF Creation, Rounds, Passing

(* The next round starts where everything before has landed.               *)
LEMMA CreationGoesOn ==
  ASSUME NEW c, NEW b, TabInv(b), Creation(c, b), b.pc = "round", MoreRounds(b)
  PROVE  /\ Creation(c, [NextRound(b) EXCEPT !.pc = "sending"])
         /\ b.stop = 0 => Creation(c, NextRound(b))
<1> DEFINE d == NextRound(b)
           e == [d EXCEPT !.pc = "sending"]
<1>1. /\ d \in Tab /\ Len(b.todo) \in Nat
      /\ Len(d.todo) = Len(b.todo) - b.stop /\ Len(d.todo) > 0
      /\ \A k \in 1..Len(d.todo) : d.todo[k] = b.todo[b.stop + k]
      /\ d.at = 1 /\ d.first = 0 /\ d.stop = b.stop /\ d.pc = "round"
  BY NextRoundTab
<1>2. /\ Rest(b) /\ b.stop \in 0..Len(b.todo) /\ b.stop < Len(b.todo)
      /\ Landed(c, Off(b) + b.stop) /\ N \in Nat
  BY CreationList DEF Creation, Rounds, MoreRounds
<1> HIDE DEF d
<1>3. Off(d) = Off(b) + b.stop
  BY <1>1, <1>2 DEF Off
<1>4. Rest(d)
  <2>1. Len(d.todo) \in 1..N
    BY <1>1, <1>2 DEF Rest
  <2>2. ASSUME NEW k \in 1..Len(d.todo)
        PROVE  d.todo[k] = createAuctionManager[Off(d) + k]
    <3>1. b.stop + k \in 1..Len(b.todo) /\ Off(b) + (b.stop + k) = Off(d) + k
      BY <1>1, <1>2, <1>3 DEF Off
    <3>2. QED
      BY <3>1, <1>1, <1>2 DEF Rest
  <2>3. QED
    BY <2>1, <2>2 DEF Rest
<1>5. /\ e.pc = "sending" /\ e.at = 1 /\ e.first = 0 /\ e.todo = d.todo
  BY <1>1 DEF Tab
<1>6. Creation(c, e)
  <2>1. Rest(e) /\ Off(e) = Off(d)
    BY <1>4, <1>5 DEF Rest, Off
  <2>2. Off(e) + 1 - 1 = Off(b) + b.stop
    BY <2>1, <1>1, <1>2, <1>3 DEF Off
  <2> HIDE DEF e
  <2>3. QED
    BY <2>1, <2>2, <1>2, <1>5 DEF Creation, Rounds, Passing
<1>7. b.stop = 0 => Creation(c, d)
  <2>1. SUFFICES ASSUME b.stop = 0 PROVE Creation(c, d)
    OBVIOUS
  <2>2. d.stop = 0 /\ Len(d.todo) \in Nat /\ Landed(c, Off(d) + d.stop)
    <3>1. Off(d) + d.stop = Off(b) + b.stop
      BY <2>1, <1>1, <1>2 DEF Off
    <3>2. QED
      BY <2>1, <3>1, <1>1, <1>2
  <2>3. QED
    BY <2>2, <1>1, <1>4 DEF Creation, Rounds, Passing
<1>8. QED
  BY <1>6, <1>7 DEF d

(* A transaction of the creation, by its place in the whole list.          *)
LEMMA CurrentPlace ==
  ASSUME NEW b, TabInv(b), b.pc = "sending", Rest(b)
  PROVE  /\ b \in Tab /\ Len(b.todo) \in Nat /\ b.at \in 1..Len(b.todo) /\ N \in Nat
         /\ Off(b) \in Nat /\ Off(b) + b.at \in 1..N
         /\ Current(b) = createAuctionManager[Off(b) + b.at]
         /\ Current(b) \in SaleTransactions
         /\ b.at = Len(b.todo) <=> Off(b) + b.at = N
<1>1. /\ b \in Tab /\ b.todo \in Seq(SaleTransactions) /\ Len(b.todo) \in Nat
      /\ b.at \in 1..Len(b.todo) /\ N \in Nat
  BY CreationList DEF TabInv, Tab, InList
<1>2. /\ Off(b) \in Nat /\ Off(b) + b.at \in 1..N
      /\ b.at = Len(b.todo) <=> Off(b) + b.at = N
  BY <1>1 DEF Rest, Off
<1>3. Current(b) = b.todo[b.at]
  BY DEF Current
<1>4. Current(b) = createAuctionManager[Off(b) + b.at]
  BY <1>1, <1>3 DEF Rest
<1>5. b.todo[b.at] \in SaleTransactions
  BY <1>1, ElementOfSeq
<1>6. QED
  BY <1>1, <1>2, <1>3, <1>4, <1>5

(* What lands has landed up to it, and if it is the last one the auction   *)
(* has started.                                                            *)
LEMMA CreationLands ==
  ASSUME NEW c, ChainInv(c), NEW b, TabInv(b), Creation(c, b), b.pc = "sending",
         Executable(c, Current(b))
  PROVE  Creation(Execute(c, Current(b)), After(b))
<1> DEFINE d == Execute(c, Current(b))
           k == Off(b) + b.at
<1>1. /\ Rest(b) /\ b.first \in 0..(b.at - 1) /\ Later(c, d)
      /\ Landed(c, Off(b) + (IF b.first = 0 THEN b.at ELSE b.first) - 1)
  BY CurrentPlace, ExecuteKeeps DEF Creation, Passing
<1>2. /\ b \in Tab /\ Len(b.todo) \in Nat /\ b.at \in 1..Len(b.todo) /\ N \in Nat
      /\ Off(b) \in Nat /\ k \in 1..N
      /\ Current(b) = createAuctionManager[k]
      /\ b.at = Len(b.todo) <=> k = N
  BY <1>1, CurrentPlace
<1>3. ASSUME b.first = 0 PROVE Landed(d, k)
  <2>1. ASSUME NEW i \in Items, Validation(i) = k PROVE i \in d.configs
    <3>1. Current(b) = <<validateSafetyDepositBoxV2(i)>>
      BY <2>1, <1>2, CreationList
    <3>2. validateSafetyDepositBoxV2(i) \in Plain
      BY DEF validateSafetyDepositBoxV2, Plain, ForAnItem
    <3>3. /\ Allowed(c, validateSafetyDepositBoxV2(i))
          /\ d = Do(c, validateSafetyDepositBoxV2(i))
      BY <3>1, <3>2, Alone
    <3>4. MayValidate(c, i) /\ d = Validate(c, i)
      BY <3>3 DEF Allowed, Do, validateSafetyDepositBoxV2
    <3> HIDE DEF d
    <3>5. QED
      BY <3>4, ValidateKeeps
  <2>2. Landed(c, k - 1)
    BY <1>1, <1>2, <1>3
  <2>3. ASSUME NEW i \in Items, Validation(i) <= k, Validation(i) # k PROVE i \in d.configs
    <3>1. Validation(i) <= k - 1
      BY <2>3, <1>2, CreationList
    <3>2. QED
      BY <2>2, <3>1, <1>1 DEF Landed, Later
  <2>4. QED
    BY <2>1, <2>3 DEF Landed
<1>4. ASSUME b.at = Len(b.todo) PROVE d.status \in Opened
  <2>1. Current(b) = <<startAuction>>
    BY <1>2, <1>4, CreationList DEF setupStartAuction
  <2>2. startAuction \in Plain
    BY DEF startAuction, Plain, ForTheSale
  <2>3. d = Do(c, startAuction)
    BY <2>1, <2>2, Alone
  <2>4. QED
    BY <2>3 DEF Do, startAuction, Opened, ChainInv, Chains
<1> HIDE DEF d
<1> DEFINE e == After(b)
<1>5. CASE b.at < Len(b.todo)
  <2>1. /\ e.pc = "sending" /\ e.at = b.at + 1 /\ e.first = b.first /\ e.todo = b.todo
    BY <1>2, <1>5 DEF After, Tab
  <2>2. Rest(e) /\ Off(e) = Off(b)
    BY <2>1, <1>1 DEF Rest, Off
  <2>3. Landed(d, Off(e) + (IF e.first = 0 THEN e.at ELSE e.first) - 1)
    <3>1. CASE b.first = 0
      <4>1. Off(e) + e.at - 1 = k
        BY <2>1, <2>2, <1>2
      <4>2. QED
        BY <3>1, <4>1, <2>1, <1>3
    <3>2. CASE b.first # 0
      BY <3>2, <2>1, <2>2, <1>1 DEF Landed, Later
    <3>3. QED
      BY <3>1, <3>2
  <2>4. e.first \in 0..(e.at - 1)
    BY <2>1, <1>1, <1>2
  <2> HIDE DEF e
  <2>5. Creation(d, e)
    BY <2>1, <2>2, <2>3, <2>4 DEF Creation, Rounds, Passing
  <2>6. QED
    BY <2>5 DEF d, e
<1>6. CASE b.at = Len(b.todo)
  <2>1. e.pc = "round" /\ e.stop = Len(b.todo) /\ e.todo = b.todo
    BY <1>2, <1>6 DEF After, Tab
  <2>2. Rest(e)
    BY <2>1, <1>1 DEF Rest, Off
  <2>3. Creation(d, e)
    BY <2>1, <2>2, <1>2, <1>4, <1>6 DEF Creation, Rounds, Passing
  <2>4. QED
    BY <2>3 DEF d
<1>7. QED
  BY <1>2, <1>5, <1>6

(* A first failure is where the next round starts, unless it was the last  *)
(* transaction; an exception leaves the stop of the round before.          *)
LEMMA CreationFails ==
  ASSUME NEW c, ChainInv(c), NEW b, TabInv(b), Creation(c, b), b.pc = "sending"
  PROVE  /\ Creation(c, AfterFailure(b))
         /\ b.stop = 0 => Creation(c, AfterException(b))
<1> DEFINE k == Off(b) + b.at
<1>1. /\ Rest(b) /\ b.first \in 0..(b.at - 1)
      /\ Landed(c, Off(b) + (IF b.first = 0 THEN b.at ELSE b.first) - 1)
  BY DEF Creation, Passing
<1>2. /\ b \in Tab /\ Len(b.todo) \in Nat /\ b.at \in 1..Len(b.todo) /\ N \in Nat
      /\ Off(b) \in Nat /\ k \in 1..N
      /\ b.at = Len(b.todo) <=> k = N
  BY <1>1, CurrentPlace
<1>3. Creation(c, AfterFailure(b))
  <2>1. CASE b.first # 0
    <3> DEFINE e == [b EXCEPT !.pc = "round", !.stop = b.first - 1]
    <3>1. e.pc = "round" /\ e.stop = b.first - 1 /\ e.todo = b.todo
      BY <1>2 DEF Tab
    <3>2. /\ Rest(e) /\ e.stop \in 0..Len(b.todo) /\ e.stop < Len(b.todo)
          /\ Off(e) = Off(b)
      <4>1. Rest(e) /\ Off(e) = Off(b)
        BY <3>1, <1>1, SameRest
      <4>2. /\ b.first \in Nat /\ b.first - 1 \in 0..Len(b.todo)
            /\ b.first - 1 < Len(b.todo)
        <5>1. b.at \in Nat /\ b.at <= Len(b.todo) /\ 1 <= b.at
          BY <1>2
        <5>2. b.first \in 0..(b.at - 1)
          BY <1>1
        <5> HIDE DEF k, e
        <5>3. QED
          BY <5>1, <5>2, <2>1, <1>2
      <4>3. QED
        BY <3>1, <4>1, <4>2
    <3>3. Landed(c, Off(e) + e.stop)
      <4>1. Off(e) + e.stop = Off(b) + b.first - 1
        BY <3>1, <3>2, <1>1, <1>2
      <4>2. QED
        BY <4>1, <2>1, <1>1
    <3> HIDE DEF e
    <3>4. Creation(c, e)
      BY <3>1, <3>2, <3>3 DEF Creation, Rounds, Passing
    <3>5. QED
      BY <2>1, <3>4 DEF AfterFailure, e
  <2>2. CASE b.first = 0 /\ b.at < Len(b.todo)
    <3> DEFINE e == [b EXCEPT !.first = b.at, !.at = b.at + 1]
    <3>1. AfterFailure(b) = e
      BY <2>2, <1>2 DEF AfterFailure, After, Tab
    <3>2. e.pc = "sending" /\ e.at = b.at + 1 /\ e.first = b.at /\ e.todo = b.todo
      BY <1>2 DEF Tab
    <3>3. Rest(e) /\ Off(e) = Off(b) /\ e.first \in 0..(e.at - 1) /\ e.first # 0
      BY <3>2, <1>1, <1>2 DEF Rest, Off
    <3>4. Landed(c, Off(e) + e.first - 1)
      BY <2>2, <3>2, <3>3, <1>1
    <3> HIDE DEF e
    <3>5. QED
      BY <3>1, <3>2, <3>3, <3>4 DEF Creation, Rounds, Passing
  <2>3. CASE b.first = 0 /\ b.at = Len(b.todo)
    <3> DEFINE e == [b EXCEPT !.first = b.at, !.pc = "round", !.stop = Len(b.todo)]
    <3>1. AfterFailure(b) = e
      BY <2>3, <1>2 DEF AfterFailure, After, Tab
    <3>2. e.pc = "round" /\ e.stop = Len(b.todo) /\ e.todo = b.todo
      BY <1>2 DEF Tab
    <3>3. Rest(e)
      BY <3>2, <1>1 DEF Rest, Off
    <3>4. c.status \in Opened
      <4>1. Off(b) + b.at - 1 = N - 1
        BY <2>3, <1>2
      <4>2. QED
        BY <2>3, <4>1, <1>1, AllLanded
    <3> HIDE DEF e
    <3>5. QED
      BY <3>1, <3>2, <3>3, <3>4, <1>2 DEF Creation, Rounds, Passing
  <2>4. QED
    BY <2>1, <2>2, <2>3, <1>2
<1>4. ASSUME b.stop = 0 PROVE Creation(c, AfterException(b))
  <2> DEFINE e == AfterException(b)
  <2>1. e.pc = "round" /\ e.stop = 0 /\ e.todo = b.todo
    BY <1>2, <1>4 DEF Tab, AfterException
  <2>2. Rest(e) /\ Off(e) = Off(b) /\ e.stop \in 0..Len(b.todo) /\ e.stop < Len(b.todo)
    <3>1. Rest(e) /\ Off(e) = Off(b)
      BY <2>1, <1>1, SameRest
    <3>2. QED
      BY <2>1, <3>1, <1>2
  <2>3. Landed(c, Off(e) + e.stop)
    <3>1. Off(b) <= Off(b) + (IF b.first = 0 THEN b.at ELSE b.first) - 1
          /\ Off(e) + e.stop = Off(b)
      BY <2>1, <2>2, <1>1, <1>2
    <3>2. \A i \in Items : Validation(i) \in Nat
      BY CreationList
    <3>3. QED
      BY <3>1, <3>2, <1>1, <1>2 DEF Landed
  <2> HIDE DEF e
  <2>4. QED
    BY <2>1, <2>2, <2>3 DEF Creation, Rounds, Passing, e
<1>5. QED
  BY <1>3, <1>4

-----------------------------------------------------------------------------
(* The invariant                                                           *)

(* The invariant holds before anything is sent.                            *)
LEMMA SetupInit == Init => SetupInv
<1> SUFFICES ASSUME Init PROVE SetupInv
  OBVIOUS
<1> DEFINE b == tab["create"]
<1>1. /\ chain = Genesis /\ tab = [create |-> Start(createAuctionManager, "none"), mend |-> Idle]
      /\ late = {} /\ skipped = FALSE
  BY DEF Init
<1>2. ChainInv(Genesis)
  <2>1. Genesis \in Chains
    BY SaleAssumption, EmptySeq DEF Genesis, Chains, Parties
  <2>2. AuthoritiesAgree(Genesis) /\ BoxesFilled(Genesis)
    BY DEF Genesis, AuthoritiesAgree, BoxesFilled
  <2>3. BoxesValidated(Genesis)
    BY FS_EmptySet DEF Genesis, BoxesValidated
  <2>4. QED
    BY <2>1, <2>2, <2>3 DEF ChainInv
<1>3. createAuctionManager \in Seq(SaleTransactions) /\ N \in Nat /\ N > 0
  BY CreationList, ItemsAreNumbers
<1>4. DOMAIN tab = Tabs /\ b = Start(createAuctionManager, "none") /\ tab["mend"] = Idle
  BY <1>1 DEF Tabs
<1>5. \A t \in Tabs : TabInv(tab[t])
  BY <1>3, <1>4, StartTab DEF Tabs
<1>6. Creation(chain, b)
  <2>1. b.pc = "round" /\ b.todo = createAuctionManager /\ b.stop = 0
    BY <1>4 DEF Start, Idle
  <2>2. Rest(b) /\ Off(b) = 0 /\ Len(b.todo) = N
    BY <2>1, <1>3 DEF Rest, Off, N
  <2>3. Landed(chain, 0)
    BY CreationList DEF Landed
  <2> HIDE DEF b
  <2>4. QED
    BY <2>1, <2>2, <2>3, <1>3 DEF Creation, Rounds, Passing
<1>7. QED
  BY <1>1, <1>2, <1>4, <1>5, <1>6 DEF SetupInv

(* What a step must show when a tab goes on.                               *)
LEMMA TabStep ==
  ASSUME SetupInv, NEW t \in Tabs, NEW b, TabInv(b), tab' = [tab EXCEPT ![t] = b],
         ChainInv(chain'), Later(chain, chain'), late' \subseteq SaleTransactions,
         skipped' \in BOOLEAN, skipped => skipped',
         t = "create" => skipped' \/ Creation(chain', b)
  PROVE  SetupInv'
<1>1. DOMAIN tab = Tabs /\ \A u \in Tabs : TabInv(tab[u])
  BY DEF SetupInv
<1>2. DOMAIN tab' = Tabs /\ \A u \in Tabs : TabInv(tab'[u])
  BY <1>1
<1>3. skipped' \/ Creation(chain', tab'["create"])
  <2>1. CASE t = "create"
    BY <2>1, <1>1
  <2>2. CASE t # "create"
    <3>1. tab'["create"] = tab["create"]
      BY <2>2, <1>1
    <3>2. skipped \/ Creation(chain, tab["create"])
      BY DEF SetupInv
    <3>3. QED
      BY <3>1, <3>2, CreationStays
  <2>3. QED
    BY <2>1, <2>2
<1>4. QED
  BY <1>2, <1>3 DEF SetupInv

(* What a step must show when the tabs stand still.                        *)
LEMMA ChainStep ==
  ASSUME SetupInv, ChainInv(chain'), Later(chain, chain'), late' \subseteq SaleTransactions,
         tab' = tab, skipped' = skipped
  PROVE  SetupInv'
BY CreationStays DEF SetupInv

(* A step of the sender of either tab.                                     *)
LEMMA SenderKeeps ==
  ASSUME SetupInv, NEW t \in Tabs, Sender(t)
  PROVE  SetupInv'
<1> DEFINE b == tab[t]
<1>1. /\ ChainInv(chain) /\ TabInv(b) /\ late \subseteq SaleTransactions /\ skipped \in BOOLEAN
      /\ t = "create" => skipped \/ Creation(chain, b)
      /\ Later(chain, chain)
  BY DEF SetupInv, Later
<1>2. CASE Sign(t)
  <2> DEFINE e == [NextRound(b) EXCEPT !.pc = "sending"]
  <2>1. /\ b.pc = "round" /\ MoreRounds(b) /\ tab' = [tab EXCEPT ![t] = e]
        /\ UNCHANGED <<chain, late, skipped>>
    BY <1>2 DEF Sign, Set
  <2>2. TabInv(e)
    <3>1. NextRound(b) \in Tab /\ Len(NextRound(b).todo) > 0 /\ NextRound(b).at = 1
      BY <1>1, <2>1, NextRoundTab
    <3>2. e \in Tab /\ e.todo = NextRound(b).todo /\ e.at = 1 /\ Len(e.todo) \in Nat
      BY <3>1 DEF Tab
    <3>3. QED
      BY <3>1, <3>2 DEF TabInv, InList
  <2>3. t = "create" => skipped' \/ Creation(chain', e)
    BY <1>1, <2>1, CreationGoesOn
  <2> HIDE DEF e
  <2>4. QED
    BY <1>1, <2>1, <2>2, <2>3, TabStep
<1>3. CASE Refuse(t)
  <2> DEFINE e == NextRound(b)
  <2>1. /\ b.pc = "round" /\ MoreRounds(b) /\ tab' = [tab EXCEPT ![t] = e]
        /\ skipped' = (skipped \/ b.stop > 0)
        /\ UNCHANGED <<chain, late>>
    BY <1>3 DEF Refuse, Set
  <2>2. TabInv(e)
    BY <1>1, <2>1, NextRoundTab DEF TabInv, InList
  <2>3. t = "create" => skipped' \/ Creation(chain', e)
    <3> SUFFICES ASSUME t = "create", ~skipped' PROVE Creation(chain', e)
      OBVIOUS
    <3>1. b.stop \in Nat
      BY <1>1 DEF TabInv, Tab
    <3>2. b.stop = 0 /\ ~skipped /\ chain' = chain
      <4>1. ~(b.stop > 0) /\ ~skipped
        BY <2>1, Zenon
      <4>2. QED
        BY <3>1, <2>1, <4>1
    <3>3. Creation(chain, b)
      BY <3>2, <1>1
    <3>4. Creation(chain, e)
      BY <1>1, <2>1, <3>2, <3>3, CreationGoesOn
    <3>5. QED
      BY <3>2, <3>4
  <2> HIDE DEF e
  <2>4. QED
    BY <1>1, <2>1, <2>2, <2>3, TabStep
<1>4. CASE Finish(t)
  <2>1. /\ b.pc = "round" /\ ~MoreRounds(b) /\ UNCHANGED <<chain, late, skipped>>
    BY <1>4 DEF Finish
  <2>2. CASE t = "create"
    <3> DEFINE e == [Idle EXCEPT !.pc = Reports(b)]
    <3>1. tab' = [tab EXCEPT ![t] = e]
      BY <1>4, <2>2 DEF Finish, Set
    <3>2. Reports(b) \in {"created", "failed"}
      BY DEF Reports
    <3>3. e \in Tab /\ e.pc = Reports(b)
      BY <3>2, EmptySeq DEF Tab, Idle
    <3>4. TabInv(e)
      BY <3>2, <3>3 DEF TabInv, InList
    <3>5. Creation(chain, b) => Creation(chain, e)
      <4>1. Reports(b) = "created" => ~(b.stop < Len(b.todo))
        BY DEF Reports
      <4>2. QED
        BY <4>1, <2>1, <3>2, <3>3 DEF Creation, Rounds, Passing
    <3> HIDE DEF e
    <3>6. QED
      BY <1>1, <2>1, <3>1, <3>4, <3>5, TabStep
  <2>3. CASE t = "mend"
    <3>1. PICK e : TabInv(e) /\ tab' = [tab EXCEPT ![t] = e]
      <4>1. TabInv(Start(unwindVault(chain), "none")) /\ TabInv(Idle)
        BY <1>1, MendingLists, StartTab DEF ChainInv
      <4>2. \/ tab' = [tab EXCEPT ![t] = Start(unwindVault(chain), "none")]
            \/ tab' = [tab EXCEPT ![t] = Idle]
        BY <1>4, <2>3 DEF Finish, Set
      <4>3. QED
        BY <4>1, <4>2
    <3>2. QED
      BY <1>1, <2>1, <2>3, <3>1, TabStep
  <2>4. QED
    BY <2>2, <2>3 DEF Tabs
<1>5. ASSUME b.pc = "sending", Failed(t), chain' = chain, late' \subseteq SaleTransactions
      PROVE  SetupInv'
  <2>1. TabInv(AfterFailure(b)) /\ TabInv(AfterException(b))
    BY <1>1, <1>5, AfterTab
  <2>2. b.stop \in Nat
    BY <1>1 DEF TabInv, Tab
  <2>3. CASE Len(b.todo) = 1
    <3> DEFINE e == AfterException(b)
    <3>1. tab' = [tab EXCEPT ![t] = e] /\ skipped' = (skipped \/ b.stop > 0)
      BY <1>5, <2>3 DEF Failed, Set
    <3>2. t = "create" => skipped' \/ Creation(chain', e)
      <4> SUFFICES ASSUME t = "create", ~skipped' PROVE Creation(chain', e)
        OBVIOUS
      <4>1. b.stop = 0 /\ ~skipped /\ chain' = chain
        <5>1. ~(b.stop > 0) /\ ~skipped
          BY <3>1, Zenon
        <5>2. QED
          BY <1>5, <2>2, <5>1
      <4>2. Creation(chain, b)
        BY <4>1, <1>1
      <4>3. Creation(chain, e)
        BY <1>1, <1>5, <4>1, <4>2, CreationFails
      <4>4. QED
        BY <4>1, <4>3
    <3> HIDE DEF e
    <3>3. TabInv(e)
      BY <2>1 DEF e
    <3>4. QED
      BY <1>1, <1>5, <3>1, <3>2, <3>3, TabStep
  <2>4. CASE Len(b.todo) # 1
    <3> DEFINE e == AfterFailure(b)
    <3>1. tab' = [tab EXCEPT ![t] = e] /\ skipped' = skipped
      BY <1>5, <2>4 DEF Failed, Set
    <3>2. t = "create" => skipped' \/ Creation(chain', e)
      BY <1>1, <1>5, <3>1, CreationFails
    <3> HIDE DEF e
    <3>3. TabInv(e)
      BY <2>1 DEF e
    <3>4. QED
      BY <1>1, <1>5, <3>1, <3>2, <3>3, TabStep
  <2>5. QED
    BY <2>3, <2>4
<1>6. b.pc = "sending" => Current(b) \in SaleTransactions
  BY <1>1 DEF TabInv, Tab, InList, Current
<1>7. CASE Lands(t)
  <2> DEFINE e == After(b)
  <2>1. /\ b.pc = "sending" /\ Executable(chain, Current(b))
        /\ chain' = Execute(chain, Current(b)) /\ tab' = [tab EXCEPT ![t] = e]
        /\ UNCHANGED <<late, skipped>>
    BY <1>7 DEF Lands, Set
  <2>2. TabInv(e) /\ ChainInv(chain') /\ Later(chain, chain')
    BY <1>1, <1>6, <2>1, AfterTab, ExecuteKeeps
  <2>3. t = "create" => skipped' \/ Creation(chain', e)
    BY <1>1, <2>1, CreationLands
  <2> HIDE DEF e
  <2>4. QED
    BY <1>1, <2>1, <2>2, <2>3, TabStep
<1>8. CASE Refused(t)
  BY <1>1, <1>5, <1>8 DEF Refused
<1>9. CASE Lost(t)
  <2>1. late' \subseteq SaleTransactions
    BY <1>1, <1>6, <1>9 DEF Lost
  <2>2. QED
    BY <2>1, <1>5, <1>9 DEF Lost
<1>10. QED
  BY <1>2, <1>3, <1>4, <1>7, <1>8, <1>9 DEF Sender

(* The invariant is inductive.                                             *)
LEMMA SetupStep == SetupInv /\ [Next]_vars => SetupInv'
<1> SUFFICES ASSUME SetupInv, [Next]_vars PROVE SetupInv'
  OBVIOUS
<1>1. /\ ChainInv(chain) /\ late \subseteq SaleTransactions /\ Later(chain, chain)
  BY DEF SetupInv, Later
<1>2. ASSUME NEW t \in Tabs, Sender(t) PROVE SetupInv'
  BY <1>2, SenderKeeps
<1>3. ASSUME NEW tx \in late, LandsLate(tx) PROVE SetupInv'
  <2>1. /\ ChainInv(chain') /\ Later(chain, chain')
    BY <1>1, <1>3, ExecuteKeeps DEF LandsLate
  <2>2. QED
    BY <1>1, <1>3, <2>1, ChainStep DEF LandsLate
<1>4. ASSUME NEW s \in Seq(SaleTransactions), NEW then \in {"none", "unwind"},
             Set("mend", Start(s, then)), UNCHANGED <<chain, late, skipped>>
      PROVE  SetupInv'
  <2> DEFINE e == Start(s, then)
  <2>1. TabInv(e) /\ tab' = [tab EXCEPT !["mend"] = e] /\ "mend" \in Tabs
    BY <1>4, StartTab DEF Set, Tabs
  <2> HIDE DEF e
  <2>2. skipped \in BOOLEAN
    BY DEF SetupInv
  <2>3. QED
    BY <1>1, <1>4, <2>1, <2>2, TabStep
<1>5. CASE Unwind
  BY <1>1, <1>4, <1>5, MendingLists DEF Unwind, ChainInv
<1>6. CASE Decommission_
  BY <1>1, <1>4, <1>6, MendingLists DEF Decommission_, ChainInv
<1>7. CASE startAuctionManually
  <2>1. setupStartAuction \in SaleTransactions
    BY CreationList
  <2>2. /\ ChainInv(chain') /\ Later(chain, chain') /\ UNCHANGED <<tab, late, skipped>>
    BY <1>1, <1>7, <2>1, ExecuteKeeps DEF startAuctionManually
  <2>3. QED
    BY <1>1, <2>2, ChainStep
<1>8. CASE UNCHANGED vars
  BY <1>1, <1>8, ChainStep DEF vars
<1>9. CASE Settled
  <2>1. UNCHANGED vars
    BY <1>9 DEF Settled
  <2>2. QED
    BY <2>1, <1>8
<1>10. QED
  BY <1>2, <1>3, <1>5, <1>6, <1>7, <1>8, <1>9 DEF Next, Notification

(* The sale that opens is the one that was put up: in any order of the     *)
(* transactions, lost, late, sent twice or taken back, each box has been   *)
(* validated at its place and holds its token, out of the seller's reach.  *)
THEOREM SalesOpenComplete == Spec => []OpensComplete
<1>1. SetupInv => OpensComplete
  <2> SUFFICES ASSUME SetupInv, chain.status \in {"Validated", "Running"}
               PROVE  /\ chain.configs = ToSet(chain.boxes)
                      /\ chain.boxes = [i \in DOMAIN chain.boxes |-> i]
                      /\ chain.configs \subseteq chain.stored
                      /\ chain.vault = "Combined" /\ chain.vaultAuthority = "manager"
    BY DEF OpensComplete, SaleComplete
  <2>1. /\ ChainInv(chain) /\ chain.boxes \in Seq(Items)
        /\ chain.configs = DOMAIN chain.boxes /\ chain.vaultAuthority = "manager"
        /\ \A i \in DOMAIN chain.boxes : chain.boxes[i] = i
    BY ChainTypes DEF SetupInv, ChainInv, BoxesValidated
  <2>2. chain.boxes = [i \in DOMAIN chain.boxes |-> i]
    BY <2>1
  <2>3. chain.configs = ToSet(chain.boxes)
    BY <2>1 DEF ToSet
  <2>4. chain.configs \subseteq chain.stored
    BY <2>1 DEF ChainInv, BoxesValidated
  <2>5. chain.vault = "Combined"
    <3>1. 1 \in chain.configs
      BY <2>1, EmptySeq DEF ChainInv, BoxesFilled
    <3>2. QED
      BY <2>4, <3>1, <2>1 DEF ChainInv, BoxesFilled
  <2>6. QED
    BY <2>1, <2>2, <2>3, <2>4, <2>5
<1>2. QED
  BY <1>1, SetupInit, SetupStep, PTL DEF Spec

(* A creation is reported as done only when the sale is open or can be     *)
(* opened, for any number of items and of faults, whatever the other tab   *)
(* does; or a round threw after an earlier one had stopped.                *)
THEOREM CreatedSalesAreReady == Spec => []CreatedIsReady
<1>1. SetupInv => CreatedIsReady
  BY DEF SetupInv, Creation, CreatedIsReady, Opened
<1>2. QED
  BY <1>1, SetupInit, SetupStep, PTL DEF Spec

===============================================================================
