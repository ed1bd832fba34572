---------------------------- MODULE RaffleProofs ----------------------------
(***************************************************************************)
(* Proofs about module Raffle, for any number of users, tickets, prizes    *)
(* and creations of the lottery, and for any settings.                     *)
(*                                                                         *)
(* Typing comes first, with the facts it needs about pool numbers.  The    *)
(* inductive invariant IInv then says what a ticket's receipt records,     *)
(* what a transaction under way may still do, and that sold_amount bounds  *)
(* the numbers drawn so far.                                               *)
(***************************************************************************)
EXTENDS Raffle, FiniteSetTheorems, TLAPS

(* The lottery's current pool, and the pool each page knows, exist. *)
PoolsKnown ==
  /\ lottery.state # "Absent" => lottery.tokenPool \in Pools
  /\ \A u \in Users : view[u].state # "Absent" => view[u].tokenPool \in Pools

TypeInv == TypeOK /\ PoolsKnown

(* Before any instruction every account is absent, page blank, pool unknown. *)
LEMMA InitTyped == Init => TypeInv
BY ProgramAssumption
DEF Init, ProgramInit, TypeInv, TypeOK, PoolsKnown, NoLottery, EmptyTicket,
    NoReceipt, Unminted, Decoded, LotteryStates, TicketStates, Pools,
    NftNumbers, Messages

LotteryType ==
  [state : LotteryStates, authority : Authorities \cup {NoOne},
   tokenPool : 0..MaxCreations, endedAt : 0..MaxTime, endLotteryAt : Nat,
   ticketPrice : Nat, ticketAmount : Nat, nftAmount : Nat, soldAmount : Nat]
TicketType ==
  [Tickets -> [owner : Users \cup {NoOne}, state : TicketStates,
               winnedNftNumber : Nat]]
ReceiptType ==
  [Tickets -> [paid : Nat, refunded : Nat, round : 0..MaxCreations]]
NftType ==
  [NftNumbers -> [holder : Users \cup {"nobody", "pool"}, existNft : {0, 1}]]

(* A new lottery is well formed whatever settings the creator chose. *)
LEMMA CreatedTyped ==
  ASSUME TypeInv, NEW a \in Authorities, NEW args \in CreateArgs,
         CreateLottery(a, args)
  PROVE  lottery' \in LotteryType /\ lottery'.tokenPool \in Pools
<1>1. args \in Settings /\ MaxCreations \in Nat /\ 0 \in 0..MaxTime
  BY ProgramAssumption
<1>2. lottery.tokenPool + 1 \in 1..MaxCreations
  BY <1>1 DEF TypeInv, TypeOK, CreateLottery
<1>3. QED
  BY <1>1, <1>2 DEF CreateLottery, Settings, LotteryType, LotteryStates, Pools

(* A sale writes well-formed accounts. *)
LEMMA SaleTyped ==
  ASSUME TypeInv, NEW u \in Users, NEW t \in Tickets, NEW p \in Pools,
         NEW num \in LotterNums, GetTicket(u, t, p, num)
  PROVE  /\ lottery' \in LotteryType
         /\ lottery'.state = lottery.state
         /\ lottery'.tokenPool = lottery.tokenPool
         /\ ticket' \in TicketType
         /\ receipt' \in ReceiptType
         /\ pool' \in [Pools -> Nat]
         /\ UNCHANGED <<now, nft>>
<1> USE DEF TypeInv, TypeOK, GetTicket
<1>1. SoldAfter(num) \in Nat /\ CarryoutLotter(num) \in Nat
  BY DEF SoldAfter, CarryoutLotter
<1>2. ticket' \in TicketType
  <2> DEFINE drawn == [owner |-> u, winnedNftNumber |-> CarryoutLotter(num),
                       state |-> IF Wins(num) THEN "Winned" ELSE "NotWinned"]
  <2>1. drawn \in [owner : Users \cup {NoOne}, state : TicketStates,
                   winnedNftNumber : Nat]
    BY <1>1 DEF TicketStates
  <2>2. ticket' = [ticket EXCEPT ![t] = drawn] \/ ticket' = ticket
    BY DEF drawn
  <2> HIDE DEF drawn
  <2>3. QED
    BY <2>1, <2>2 DEF TicketType
<1>3. /\ lottery' \in LotteryType
      /\ lottery'.state = lottery.state
      /\ lottery'.tokenPool = lottery.tokenPool
  BY <1>1 DEF LotteryType
<1>4. receipt' \in ReceiptType
  BY DEF ReceiptType
<1>5. QED
  BY <1>2, <1>3, <1>4

(* A claim writes a well-formed ticket. *)
LEMMA ClaimedTyped ==
  ASSUME TypeInv, NEW t \in Tickets
  PROVE  Claimed(t) \in TicketType
<1>1. ticket \in TicketType
  BY DEF TypeInv, TypeOK, TicketType
<1>2. QED
  BY <1>1 DEF Claimed, TicketType, TicketStates

(* An NFT may change hands. *)
LEMMA HandedTyped ==
  ASSUME nft \in NftType, NEW k \in NftNumbers, NEW u \in Users
  PROVE  [nft EXCEPT ![k].holder = u] \in NftType
BY DEF NftType

(* A step keeps the types. *)
LEMMA NextTyped == TypeInv /\ [Next]_vars => TypeInv'
<1> SUFFICES ASSUME TypeInv, [Next]_vars
             PROVE  TypeInv'
  OBVIOUS
<1> USE DEF TypeInv, TypeOK, PoolsKnown
<1>1. ASSUME NEW a \in Authorities, NEW args \in CreateArgs, Create(a, args)
      PROVE  TypeInv'
  BY <1>1, CreatedTyped DEF Create, CreateLottery, LotteryType
<1>2. ASSUME Start
      PROVE  TypeInv'
  BY <1>2 DEF Start, StartLottery, LotteryStates
<1>3. ASSUME NEW u \in Users, End(u)
      PROVE  TypeInv'
  BY <1>3 DEF End, EndLottery, LotteryStates
<1>4. ASSUME NEW u \in Users, NEW v \in Users, HandOver(u, v)
      PROVE  TypeInv'
  BY <1>4 DEF HandOver, SetAuthority, Authorities
<1>5. ASSUME MintNft
      PROVE  TypeInv'
  BY <1>5 DEF MintNft, NextNumber
<1>6. ASSUME NEW u \in Users, LoadLottery(u)
      PROVE  TypeInv'
  BY <1>6 DEF LoadLottery, Decoded, programVars
<1>7. ASSUME NEW u \in Users, NEW t \in Tickets, PressGetTicket(u, t)
      PROVE  TypeInv'
  BY <1>7 DEF PressGetTicket, GetTicketMessage, CanBuy, programVars, Messages
<1>8. ASSUME NEW u \in Users, NEW t \in Tickets, PressClaimToken(u, t)
      PROVE  TypeInv'
  BY <1>8
  DEF PressClaimToken, ClaimTokenMessage, ShownEnded, programVars, Messages
<1>9. ASSUME NEW u \in Users, NEW t \in Tickets, PressClaimNft(u, t)
      PROVE  TypeInv'
  BY <1>9 DEF PressClaimNft, ClaimNftMessage, programVars, Messages
<1>10. ASSUME Tick
       PROVE  TypeInv'
  BY <1>10, ProgramAssumption DEF Tick
<1>11. ASSUME NEW m \in sent, DeliverGetTicket(m)
       PROVE  TypeInv'
  <2>1. /\ m \in Messages /\ m.user \in Users /\ m.ticket \in Tickets
        /\ m.pool \in Pools
    BY <1>11 DEF DeliverGetTicket, Messages
  <2>2. PICK num \in LotterNums : GetTicket(m.user, m.ticket, m.pool, num)
    BY <1>11 DEF DeliverGetTicket
  <2>3. UNCHANGED view /\ sent' \subseteq sent
    BY <1>11 DEF DeliverGetTicket
  <2>4. QED
    BY <2>1, <2>2, <2>3, SaleTyped DEF LotteryType, TicketType, ReceiptType
<1>12. ASSUME NEW m \in sent, DeliverClaimToken(m)
       PROVE  TypeInv'
  <2>1. /\ m \in Messages /\ m.ticket \in Tickets /\ m.pool \in Pools
        /\ ClaimToken(m.ticket, m.pool)
    BY <1>12 DEF DeliverClaimToken, Messages
  <2>2. pool' \in [Pools -> Nat] /\ receipt' \in ReceiptType
    BY SMTT(30), <2>1 DEF ClaimToken, ReceiptType
  <2>3. ticket' \in TicketType
    BY <2>1, ClaimedTyped DEF ClaimToken
  <2>4. sent' \subseteq sent /\ UNCHANGED <<now, lottery, nft, view>>
    BY <1>12 DEF DeliverClaimToken, ClaimToken, Landed
  <2>5. QED
    BY <2>2, <2>3, <2>4 DEF TicketType, ReceiptType
<1>13. ASSUME NEW m \in sent, DeliverClaimNft(m)
       PROVE  TypeInv'
  <2>1. /\ m \in Messages /\ m.user \in Users /\ m.ticket \in Tickets
        /\ m.nft \in NftNumbers /\ ClaimNft(m.user, m.ticket, m.nft)
    BY <1>13 DEF DeliverClaimNft, Messages
  <2>2. nft' \in NftType
    <3>1. nft \in NftType
      BY DEF NftType
    <3> HIDE DEF TypeInv, TypeOK, PoolsKnown
    <3>2. QED
      BY <2>1, <3>1, HandedTyped DEF ClaimNft
  <2>3. ticket' \in TicketType
    BY <2>1, ClaimedTyped DEF ClaimNft
  <2>4. sent' \subseteq sent /\ UNCHANGED <<now, lottery, pool, receipt, view>>
    BY <1>13 DEF DeliverClaimNft, ClaimNft, Landed
  <2>5. QED
    BY <2>2, <2>3, <2>4 DEF TicketType, NftType
<1>14. ASSUME NEW m \in sent, Expire(m)
       PROVE  TypeInv'
  BY <1>14 DEF Expire, programVars
<1>15. CASE UNCHANGED vars
  BY <1>15 DEF vars
<1> HIDE DEF TypeInv
<1>16. QED
  BY <1>1, <1>2, <1>3, <1>4, <1>5, <1>6, <1>7, <1>8, <1>9, <1>10, <1>11,
     <1>12, <1>13, <1>14, <1>15
  DEF Next

-----------------------------------------------------------------------------
(* The inductive invariant *)

(* A page and a transaction name a pool the lottery has had.               *)
PoolInv ==
  /\ lottery.state = "Absent" <=> lottery.tokenPool = 0
  /\ lottery.tokenPool = 0 => lottery.ticketPrice = 0
  /\ lottery.tokenPool > 0 => lottery.ticketPrice > 0
  /\ \A u \in Users : view[u].tokenPool <= lottery.tokenPool
  /\ \A m \in sent : m.type # "ClaimNft" => m.pool <= lottery.tokenPool

(* The only transaction for an unsold ticket is the one that buys it, and  *)
(* a claim under way fits the result of its ticket.                        *)
MessageInv ==
  \A m \in sent :
    /\ m.type = "GetTicket" =>
         /\ ticket[m.ticket].state = "Empty"
         /\ \A n \in sent : n.ticket = m.ticket => n = m
    /\ m.type = "ClaimToken" =>
         /\ ticket[m.ticket].state # "Empty"
         /\ ticket[m.ticket].winnedNftNumber = 0
    /\ m.type = "ClaimNft" =>
         /\ ticket[m.ticket].state # "Empty"
         /\ ticket[m.ticket].winnedNftNumber = m.nft
         /\ ticket[m.ticket].owner = m.user

(* What a ticket's receipt records in each of the ticket's states.         *)
ReceiptInv ==
  \A t \in Tickets :
    /\ ticket[t].state = "Empty" =>
         receipt[t] = NoReceipt /\ ticket[t].winnedNftNumber = 0
    /\ ticket[t].state # "Empty" =>
         receipt[t].round \in 1..lottery.tokenPool /\ receipt[t].paid > 0
    /\ ticket[t].state = "Winned" => ticket[t].winnedNftNumber > 0
    /\ ticket[t].state = "NotWinned" => ticket[t].winnedNftNumber = 0
    /\ ticket[t].state # "Claimed" \/ ticket[t].winnedNftNumber > 0 =>
         receipt[t].refunded = 0

(* sold_amount bounds the numbers drawn in the current creation.           *)
DrawInv ==
  \A t \in Tickets :
    receipt[t].round = lottery.tokenPool =>
      ticket[t].winnedNftNumber <= lottery.soldAmount

(* Money in a lottery created at most once.                                *)
DepositInv ==
  lottery.tokenPool <= 1 =>
    /\ pool[1] = lottery.ticketPrice * Cardinality(Unrefunded)
    /\ \A t \in Tickets :
         /\ ticket[t].state # "Empty" => receipt[t].paid = lottery.ticketPrice
         /\ receipt[t].refunded \in {0, lottery.ticketPrice}

(* The lottery carries settings that some creator chose.                   *)
SettingsInv ==
  lottery.state # "Absent" =>
    \E args \in CreateArgs : lottery.nftAmount = args.nftAmount

(* carryout_lotter stops handing out numbers at the number of NFTs.        *)
NumbersInRange ==
  \A t \in Winners(lottery.tokenPool) :
    ticket[t].winnedNftNumber <= lottery.nftAmount

(* The counter that get_ticket checks against ticket_amount is the number  *)
(* of tickets plus the number of winners of this creation, and it passes   *)
(* ticket_amount by at most one, which is then a winner's.                 *)
CounterCounts ==
  lottery.state # "Absent" =>
    /\ lottery.soldAmount = Cardinality(Sold(lottery.tokenPool))
                            + Cardinality(Winners(lottery.tokenPool))
    /\ lottery.soldAmount <= lottery.ticketAmount + 1
    /\ lottery.soldAmount = lottery.ticketAmount + 1 =>
         Winners(lottery.tokenPool) # {}

IInv ==
  /\ TypeInv
  /\ PoolInv
  /\ MessageInv
  /\ ReceiptInv
  /\ DrawInv
  /\ WinningNumbersDistinct
  /\ NumbersInRange
  /\ CounterCounts
  /\ PrizesWentToWinners
  /\ DepositInv
  /\ SettingsInv

(* The whole inductive invariant holds of the empty accounts. *)
LEMMA InitIInv == Init => IInv
<1> SUFFICES ASSUME Init PROVE IInv
  OBVIOUS
<1>1. TypeInv
  BY InitTyped
<1>2. PoolInv /\ MessageInv /\ ReceiptInv /\ DrawInv
  BY ProgramAssumption
  DEF Init, ProgramInit, NoLottery, EmptyTicket, NoReceipt, Decoded, PoolInv,
      MessageInv, ReceiptInv, DrawInv
<1>3. /\ WinningNumbersDistinct /\ NumbersInRange /\ CounterCounts
      /\ PrizesWentToWinners
  BY ProgramAssumption
  DEF Init, ProgramInit, NoLottery, EmptyTicket, Unminted, Sold, Winners,
      WinningNumbersDistinct, NumbersInRange, CounterCounts,
      PrizesWentToWinners, WentToWinner
<1>4. DepositInv
  <2>1. Unrefunded = {}
    BY DEF Unrefunded, Init, ProgramInit, NoReceipt
  <2>2. Cardinality(Unrefunded) = 0 /\ 1 \in Pools
    BY <2>1, FS_EmptySet, ProgramAssumption DEF Pools
  <2>3. QED
    BY <2>2
    DEF Init, ProgramInit, NoLottery, EmptyTicket, NoReceipt, DepositInv
<1>5. SettingsInv
  BY DEF Init, ProgramInit, NoLottery, SettingsInv
<1>6. QED
  BY <1>1, <1>2, <1>3, <1>4, <1>5 DEF IInv

-----------------------------------------------------------------------------
(* What a step does to the accounts *)

Sale(m, num) ==
  /\ m.type = "GetTicket" /\ num \in LotterNums
  /\ GetTicket(m.user, m.ticket, m.pool, num)
Refund(m) == m.type = "ClaimToken" /\ ClaimToken(m.ticket, m.pool)
Award(m) == m.type = "ClaimNft" /\ ClaimNft(m.user, m.ticket, m.nft)

(* What the other steps leave as it was.                                   *)
AccountsKept ==
  /\ UNCHANGED <<ticket, receipt, pool>>
  /\ UNCHANGED <<lottery.tokenPool, lottery.soldAmount, lottery.nftAmount,
                 lottery.ticketAmount, lottery.ticketPrice>>
  /\ lottery.state = "Absent" <=> lottery'.state = "Absent"
  /\ \A k \in NftNumbers : nft'[k].holder \in Users => nft'[k] = nft[k]
  /\ \A k \in NftNumbers : nft[k].holder \in Users => nft'[k] = nft[k]

(* A step creates a lottery, lands one transaction, or keeps the accounts. *)
LEMMA StepCases ==
  ASSUME TypeInv, [Next]_vars
  PROVE  \/ \E a \in Authorities, args \in CreateArgs :
              CreateLottery(a, args) /\ UNCHANGED <<view, sent>>
         \/ \E m \in sent : \E num \in LotterNums :
              Sale(m, num) /\ UNCHANGED view /\ sent' = sent \ {m}
         \/ \E m \in sent : Refund(m) /\ UNCHANGED view /\ sent' \subseteq sent
         \/ \E m \in sent : Award(m) /\ UNCHANGED view /\ sent' \subseteq sent
         \/ AccountsKept
<1> USE DEF TypeInv, TypeOK
<1>1. ASSUME Start \/ \E u \in Users : End(u) \/ \E v \in Users : HandOver(u, v)
      PROVE  AccountsKept
  BY <1>1 DEF Start, StartLottery, End, EndLottery, HandOver, SetAuthority,
              AccountsKept
<1>2. ASSUME MintNft PROVE AccountsKept
  BY <1>2, ProgramAssumption DEF MintNft, NextNumber, AccountsKept, Unminted
<1>3. ASSUME UNCHANGED programVars PROVE AccountsKept
  BY <1>3 DEF programVars, AccountsKept
<1>4. ASSUME Tick PROVE AccountsKept
  BY <1>4 DEF Tick, AccountsKept
<1>5. ASSUME NEW m \in sent, DeliverGetTicket(m)
      PROVE  \E num \in LotterNums :
               Sale(m, num) /\ UNCHANGED view /\ sent' = sent \ {m}
  BY <1>5 DEF DeliverGetTicket, Sale
<1>6. ASSUME NEW m \in sent, DeliverClaimToken(m)
      PROVE  Refund(m) /\ UNCHANGED view /\ sent' \subseteq sent
  BY <1>6 DEF DeliverClaimToken, Refund, Landed
<1>7. ASSUME NEW m \in sent, DeliverClaimNft(m)
      PROVE  Award(m) /\ UNCHANGED view /\ sent' \subseteq sent
  BY <1>7 DEF DeliverClaimNft, Award, Landed
<1>8. ASSUME \/ \E u \in Users : LoadLottery(u)
             \/ \E u \in Users, t \in Tickets :
                  PressGetTicket(u, t) \/ PressClaimToken(u, t)
                    \/ PressClaimNft(u, t)
             \/ \E m \in sent : Expire(m)
             \/ UNCHANGED vars
      PROVE  UNCHANGED programVars
  BY <1>8 DEF LoadLottery, PressGetTicket, PressClaimToken, PressClaimNft,
              Expire, vars, programVars
<1> HIDE DEF TypeInv, TypeOK
<1>9. QED
  BY <1>1, <1>2, <1>3, <1>4, <1>5, <1>6, <1>7, <1>8 DEF Next, Create

(* What a press of a button adds to the transactions under way.            *)
Pressed(m) ==
  /\ UNCHANGED <<programVars, view>>
  /\ sent' = sent \cup {m}
  /\ m \in Messages
  /\ m.type = "GetTicket" => FreshKey(m.ticket)
  /\ m.type = "ClaimToken" => ticket[m.ticket].state = "NotWinned"
  /\ m.type = "ClaimNft" => /\ ticket[m.ticket].state = "Winned"
                            /\ ticket[m.ticket].winnedNftNumber = m.nft
                            /\ ticket[m.ticket].owner = m.user
  /\ m.type # "ClaimNft" => m.pool = view[m.user].tokenPool

(* A page press adds at most one well-formed transaction. *)
LEMMA SentCases ==
  ASSUME TypeInv, [Next]_vars
  PROVE  sent' \subseteq sent \/ \E m : Pressed(m)
<1> USE DEF TypeInv, TypeOK, PoolsKnown
<1>1. ASSUME NEW u \in Users, NEW t \in Tickets, PressGetTicket(u, t)
      PROVE  \E m : Pressed(m)
  <2> DEFINE m == GetTicketMessage(u, t)
  <2>1. Pressed(m)
    BY <1>1 DEF PressGetTicket, GetTicketMessage, CanBuy, Pressed, Messages
  <2>2. QED
    BY <2>1
<1>2. ASSUME NEW u \in Users, NEW t \in Tickets, PressClaimToken(u, t)
      PROVE  \E m : Pressed(m)
  <2> DEFINE m == ClaimTokenMessage(u, t)
  <2>1. Pressed(m)
    BY <1>2 DEF PressClaimToken, ClaimTokenMessage, ShownEnded, Pressed,
                Messages
  <2>2. QED
    BY <2>1
<1>3. ASSUME NEW u \in Users, NEW t \in Tickets, PressClaimNft(u, t)
      PROVE  \E m : Pressed(m)
  <2> DEFINE m == ClaimNftMessage(u, t, ticket[t].winnedNftNumber)
  <2>1. Pressed(m)
    BY <1>3 DEF PressClaimNft, ClaimNftMessage, Pressed, Messages
  <2>2. QED
    BY <2>1
<1>4. ASSUME \/ \E a \in Authorities, args \in CreateArgs : Create(a, args)
             \/ Start \/ MintNft \/ Tick \/ UNCHANGED vars
             \/ \E u \in Users : End(u) \/ LoadLottery(u)
             \/ \E u, v \in Users : HandOver(u, v)
             \/ \E m \in sent : DeliverGetTicket(m) \/ DeliverClaimToken(m)
                                  \/ DeliverClaimNft(m) \/ Expire(m)
      PROVE  sent' \subseteq sent
  BY <1>4 DEF Create, Start, MintNft, Tick, vars, End, LoadLottery, HandOver,
              DeliverGetTicket, DeliverClaimToken, DeliverClaimNft, Expire,
              Landed
<1> HIDE DEF TypeInv, TypeOK, PoolsKnown
<1>5. QED
  BY <1>1, <1>2, <1>3, <1>4 DEF Next

(* The steps that sell or settle a ticket act on the right kind of ticket. *)
LEMMA RightTicket ==
  ASSUME TypeInv, MessageInv, ReceiptInv, NEW m \in sent
  PROVE  /\ m.ticket \in Tickets /\ m.user \in Users
         /\ m.type # "ClaimNft" => m.pool \in Pools
         /\ m.type = "ClaimNft" => m.nft \in NftNumbers
         /\ \A num : Sale(m, num) => ticket[m.ticket].state = "Empty"
         /\ Refund(m) => ticket[m.ticket].state = "NotWinned"
         /\ Award(m) => /\ ticket[m.ticket].state = "Winned"
                        /\ ticket[m.ticket].winnedNftNumber = m.nft
                        /\ ticket[m.ticket].owner = m.user
<1>1. m \in Messages
  BY DEF TypeInv, TypeOK
<1>2. /\ m.ticket \in Tickets /\ m.user \in Users
      /\ m.type # "ClaimNft" => m.pool \in Pools
      /\ m.type = "ClaimNft" => m.nft \in NftNumbers
  BY <1>1 DEF Messages
<1>3. ASSUME NEW num, Sale(m, num) PROVE ticket[m.ticket].state = "Empty"
  BY <1>3 DEF Sale, MessageInv
<1>4. ASSUME Refund(m) PROVE ticket[m.ticket].state = "NotWinned"
  BY <1>2, <1>4 DEF Refund, ClaimToken, Claimable, MessageInv, ReceiptInv
<1>5. ASSUME Award(m)
      PROVE  /\ ticket[m.ticket].state = "Winned"
             /\ ticket[m.ticket].winnedNftNumber = m.nft
             /\ ticket[m.ticket].owner = m.user
  BY <1>2, <1>5
  DEF Award, ClaimNft, Claimable, MessageInv, ReceiptInv, NftNumbers
<1>6. QED
  BY <1>2, <1>3, <1>4, <1>5

LotteryKept ==
  /\ lottery'.state = lottery.state
  /\ lottery'.tokenPool = lottery.tokenPool
  /\ lottery'.ticketPrice = lottery.ticketPrice
  /\ lottery'.ticketAmount = lottery.ticketAmount
  /\ lottery'.nftAmount = lottery.nftAmount

OthersKept(m) ==
  \A s \in Tickets \ {m.ticket} :
    ticket'[s] = ticket[s] /\ receipt'[s] = receipt[s]

Core == TypeInv /\ PoolInv /\ MessageInv /\ ReceiptInv

(* get_ticket fills an empty ticket account and touches no other ticket. *)
LEMMA SaleEffect ==
  ASSUME Core, NEW m \in sent, NEW num \in LotterNums, Sale(m, num)
  PROVE  /\ ticket[m.ticket].state = "Empty"
         /\ receipt[m.ticket] = NoReceipt
         /\ OthersKept(m)
         /\ ticket'[m.ticket].owner = m.user
         /\ ticket'[m.ticket].winnedNftNumber = CarryoutLotter(num)
         /\ ticket'[m.ticket].state = IF Wins(num) THEN "Winned" ELSE "NotWinned"
         /\ receipt'[m.ticket].paid = lottery.ticketPrice
         /\ receipt'[m.ticket].refunded = 0
         /\ receipt'[m.ticket].round = lottery.tokenPool
         /\ LotteryKept /\ lottery.state = "Started"
         /\ lottery.soldAmount < lottery.ticketAmount
         /\ lottery'.soldAmount = SoldAfter(num)
         /\ pool' = [pool EXCEPT ![m.pool] = @ + lottery.ticketPrice]
         /\ UNCHANGED nft
         /\ m.ticket \in Tickets /\ m.pool \in Pools
<1>1. /\ ticket[m.ticket].state = "Empty" /\ m.ticket \in Tickets
      /\ m.pool \in Pools
  BY RightTicket DEF Core, Sale
<1>2. receipt[m.ticket] = NoReceipt
  BY <1>1 DEF Core, ReceiptInv
<1>3. /\ ticket' = [ticket EXCEPT ![m.ticket] =
           [owner |-> m.user, winnedNftNumber |-> CarryoutLotter(num),
            state |-> IF Wins(num) THEN "Winned" ELSE "NotWinned"]]
      /\ receipt' = [receipt EXCEPT ![m.ticket] =
           [paid |-> @.paid + lottery.ticketPrice, refunded |-> @.refunded,
            round |-> lottery.tokenPool]]
  BY <1>1 DEF Sale, GetTicket
<1>4. ticket \in TicketType /\ receipt \in ReceiptType /\ lottery \in LotteryType
  BY DEF Core, TypeInv, TypeOK, TicketType, ReceiptType, LotteryType
<1>5. /\ OthersKept(m)
      /\ ticket'[m.ticket].owner = m.user
      /\ ticket'[m.ticket].winnedNftNumber = CarryoutLotter(num)
      /\ ticket'[m.ticket].state = IF Wins(num) THEN "Winned" ELSE "NotWinned"
  BY <1>1, <1>3, <1>4 DEF OthersKept, TicketType, ReceiptType
<1>6. /\ receipt'[m.ticket].paid = lottery.ticketPrice
      /\ receipt'[m.ticket].refunded = 0
      /\ receipt'[m.ticket].round = lottery.tokenPool
  BY <1>1, <1>2, <1>3, <1>4 DEF ReceiptType, LotteryType, NoReceipt
<1>7. /\ LotteryKept /\ lottery.state = "Started"
      /\ lottery.soldAmount < lottery.ticketAmount
      /\ lottery'.soldAmount = SoldAfter(num)
      /\ pool' = [pool EXCEPT ![m.pool] = @ + lottery.ticketPrice]
      /\ UNCHANGED nft
  BY <1>4 DEF Sale, GetTicket, LotteryKept, LotteryType
<1>8. QED
  BY <1>1, <1>2, <1>5, <1>6, <1>7

(* claim_token settles one losing ticket and touches no other ticket. *)
LEMMA RefundEffect ==
  ASSUME Core, NEW m \in sent, Refund(m)
  PROVE  /\ ticket[m.ticket].state = "NotWinned"
         /\ OthersKept(m)
         /\ ticket'[m.ticket].owner = ticket[m.ticket].owner
         /\ ticket'[m.ticket].winnedNftNumber = 0
         /\ ticket[m.ticket].winnedNftNumber = 0
         /\ ticket'[m.ticket].state = "Claimed"
         /\ receipt'[m.ticket].paid = receipt[m.ticket].paid
         /\ receipt[m.ticket].refunded = 0
         /\ receipt'[m.ticket].refunded = lottery.ticketPrice
         /\ receipt'[m.ticket].round = receipt[m.ticket].round
         /\ pool[m.pool] >= lottery.ticketPrice
         /\ pool' = [pool EXCEPT ![m.pool] = @ - lottery.ticketPrice]
         /\ UNCHANGED <<lottery, nft>>
         /\ m.ticket \in Tickets /\ m.pool \in Pools
<1>1. /\ ticket[m.ticket].state = "NotWinned" /\ m.ticket \in Tickets
      /\ m.pool \in Pools
  BY RightTicket DEF Core, Refund
<1>2. ticket[m.ticket].winnedNftNumber = 0 /\ receipt[m.ticket].refunded = 0
  BY <1>1 DEF Core, ReceiptInv
<1>3. /\ ticket' = Claimed(m.ticket)
      /\ receipt' = [receipt EXCEPT ![m.ticket].refunded = @ + lottery.ticketPrice]
  BY DEF Refund, ClaimToken
<1>4. ticket \in TicketType /\ receipt \in ReceiptType /\ lottery \in LotteryType
  BY DEF Core, TypeInv, TypeOK, TicketType, ReceiptType, LotteryType
<1>5. /\ OthersKept(m)
      /\ ticket'[m.ticket].owner = ticket[m.ticket].owner
      /\ ticket'[m.ticket].winnedNftNumber = 0
      /\ ticket'[m.ticket].state = "Claimed"
  BY <1>1, <1>2, <1>3, <1>4 DEF OthersKept, TicketType, ReceiptType, Claimed
<1>6. /\ receipt'[m.ticket].paid = receipt[m.ticket].paid
      /\ receipt'[m.ticket].refunded = lottery.ticketPrice
      /\ receipt'[m.ticket].round = receipt[m.ticket].round
  BY <1>1, <1>2, <1>3, <1>4 DEF ReceiptType, LotteryType
<1>7. /\ pool[m.pool] >= lottery.ticketPrice
      /\ pool' = [pool EXCEPT ![m.pool] = @ - lottery.ticketPrice]
      /\ UNCHANGED <<lottery, nft>>
  BY DEF Refund, ClaimToken
<1>8. QED
  BY <1>1, <1>2, <1>5, <1>6, <1>7

(* claim_nft settles one winning ticket with the NFT it drew. *)
LEMMA AwardEffect ==
  ASSUME Core, NEW m \in sent, Award(m)
  PROVE  /\ ticket[m.ticket].state = "Winned"
         /\ ticket[m.ticket].winnedNftNumber = m.nft
         /\ \A s \in Tickets \ {m.ticket} : ticket'[s] = ticket[s]
         /\ ticket'[m.ticket].owner = m.user
         /\ ticket[m.ticket].owner = m.user
         /\ ticket'[m.ticket].winnedNftNumber = m.nft
         /\ ticket'[m.ticket].state = "Claimed"
         /\ receipt[m.ticket].refunded = 0
         /\ nft[m.nft].holder = "pool"
         /\ nft'[m.nft].holder = m.user
         /\ \A k \in NftNumbers \ {m.nft} : nft'[k] = nft[k]
         /\ UNCHANGED <<lottery, pool, receipt>>
         /\ m.ticket \in Tickets /\ m.nft \in NftNumbers /\ m.user \in Users
<1>1. /\ ticket[m.ticket].state = "Winned" /\ m.ticket \in Tickets
      /\ m.nft \in NftNumbers /\ m.user \in Users
      /\ ticket[m.ticket].winnedNftNumber = m.nft
      /\ ticket[m.ticket].owner = m.user
  BY RightTicket DEF Core, Award
<1>2. receipt[m.ticket].refunded = 0
  BY <1>1 DEF Core, ReceiptInv
<1>3. /\ ticket' = Claimed(m.ticket)
      /\ nft[m.nft].holder = "pool"
      /\ nft' = [nft EXCEPT ![m.nft].holder = m.user]
      /\ UNCHANGED <<lottery, pool, receipt>>
  BY DEF Award, ClaimNft
<1>4. ticket \in TicketType /\ nft \in NftType
  BY DEF Core, TypeInv, TypeOK, TicketType, NftType
<1>5. /\ \A s \in Tickets \ {m.ticket} : ticket'[s] = ticket[s]
      /\ ticket'[m.ticket].owner = m.user
      /\ ticket'[m.ticket].winnedNftNumber = m.nft
      /\ ticket'[m.ticket].state = "Claimed"
  BY <1>1, <1>3, <1>4 DEF TicketType, Claimed
<1>6. /\ nft'[m.nft].holder = m.user
      /\ \A k \in NftNumbers \ {m.nft} : nft'[k] = nft[k]
  BY <1>1, <1>3, <1>4 DEF NftType
<1>7. QED
  BY <1>1, <1>2, <1>3, <1>5, <1>6

-----------------------------------------------------------------------------
(* Every part of the invariant is kept by every step *)

(* A page keeps what it showed or shows the lottery as it is now. *)
LEMMA ViewCases ==
  ASSUME TypeInv, [Next]_vars, NEW u \in Users
  PROVE  \/ view'[u] = view[u]
         \/ view'[u].tokenPool = lottery.tokenPool /\ UNCHANGED lottery
<1>1. ASSUME NEW w \in Users, LoadLottery(w)
      PROVE  \/ view'[u] = view[u]
             \/ view'[u].tokenPool = lottery.tokenPool /\ UNCHANGED lottery
  BY <1>1 DEF LoadLottery, Decoded, TypeInv, TypeOK, programVars
<1>2. ASSUME Next, ~ \E w \in Users : LoadLottery(w)
      PROVE  UNCHANGED view
  BY <1>2 DEF Next, Create, Start, MintNft, Tick, End, HandOver, PressGetTicket,
              PressClaimToken, PressClaimNft, DeliverGetTicket,
              DeliverClaimToken, DeliverClaimNft, Expire
<1>3. QED
  BY <1>1, <1>2 DEF vars

(* The part about token pools. *)
LEMMA PoolStep == Core /\ [Next]_vars => PoolInv'
<1> SUFFICES ASSUME Core, [Next]_vars PROVE PoolInv'
  OBVIOUS
<1>1. TypeInv /\ PoolInv /\ lottery \in LotteryType
  BY DEF Core, TypeInv, TypeOK, LotteryType
<1>2. /\ lottery.tokenPool <= lottery'.tokenPool
      /\ lottery'.tokenPool \in Nat
      /\ lottery'.state = "Absent" <=> lottery'.tokenPool = 0
      /\ lottery'.tokenPool = 0 => lottery'.ticketPrice = 0
      /\ lottery'.tokenPool > 0 => lottery'.ticketPrice > 0
  <2>1. ASSUME NEW a \in Authorities, NEW args \in CreateArgs,
             CreateLottery(a, args)
        PROVE  <1>2!1 /\ <1>2!2 /\ <1>2!3 /\ <1>2!4 /\ <1>2!5
    BY <1>1, <2>1, ProgramAssumption DEF CreateLottery, LotteryType, Settings
  <2>2. ASSUME NEW m \in sent,
               \/ \E num \in LotterNums : Sale(m, num)
               \/ Refund(m) \/ Award(m)
        PROVE  LotteryKept
    BY <1>1, <2>2, SaleEffect, RefundEffect, AwardEffect DEF LotteryKept
  <2>3. ASSUME LotteryKept \/ AccountsKept
        PROVE  <1>2!1 /\ <1>2!2 /\ <1>2!3 /\ <1>2!4 /\ <1>2!5
    BY <1>1, <2>3 DEF LotteryKept, AccountsKept, PoolInv, LotteryType
  <2>4. QED
    BY <1>1, <2>1, <2>2, <2>3, StepCases
<1>3. ASSUME NEW u \in Users PROVE view'[u].tokenPool <= lottery'.tokenPool
  BY <1>1, <1>2, ViewCases DEF PoolInv, TypeInv, TypeOK, LotteryType
<1>4. ASSUME NEW m \in sent', m.type # "ClaimNft"
      PROVE  m.pool <= lottery'.tokenPool
  <2>1. CASE m \in sent
    <3>1. m.pool \in Nat
      BY <1>4, <2>1, RightTicket, ProgramAssumption DEF Core, Pools
    <3>2. m.pool <= lottery.tokenPool
      BY <1>1, <1>4, <2>1 DEF PoolInv
    <3>3. QED
      BY <1>1, <1>2, <3>1, <3>2, ProgramAssumption DEF LotteryType
  <2>2. CASE m \notin sent
    <3>1. Pressed(m)
      BY <1>1, <1>4, <2>2, SentCases DEF Pressed
    <3>2. m.pool = view[m.user].tokenPool /\ m.user \in Users /\ UNCHANGED lottery
      BY <1>4, <3>1 DEF Pressed, Messages, programVars
    <3>3. QED
      BY <1>1, <3>2 DEF PoolInv
  <2>3. QED
    BY <2>1, <2>2
<1>5. QED
  BY <1>2, <1>3, <1>4 DEF PoolInv

(* The part about transactions in flight. *)
LEMMA MessageStep == Core /\ [Next]_vars => MessageInv'
<1> SUFFICES ASSUME Core, [Next]_vars PROVE MessageInv'
  OBVIOUS
<1>1. TypeInv /\ MessageInv /\ ReceiptInv
  BY DEF Core
<1>2. CASE \E p : Pressed(p)
  <2>1. PICK p : Pressed(p)
    BY <1>2
  <2>2. UNCHANGED ticket /\ sent' = sent \cup {p} /\ p \in Messages
    BY <2>1 DEF Pressed, programVars
  <2>3. \A m \in sent : m \in Messages
    BY <1>1 DEF TypeInv, TypeOK
  <2>4. p.type # "GetTicket" => ticket[p.ticket].state # "Empty"
    BY <2>1 DEF Pressed, Messages
  <2>5. p.type = "ClaimToken" => ticket[p.ticket].winnedNftNumber = 0
    BY <1>1, <2>1 DEF Pressed, Messages, ReceiptInv
  <2>6. p.type = "GetTicket" => /\ ticket[p.ticket].state = "Empty"
                                /\ \A n \in sent : n.ticket # p.ticket
    BY <2>1 DEF Pressed, FreshKey
  <2>7. p.type = "ClaimNft" => /\ ticket[p.ticket].winnedNftNumber = p.nft
                               /\ ticket[p.ticket].owner = p.user
    BY <2>1 DEF Pressed
  <2>8. p.type \in {"GetTicket", "ClaimToken", "ClaimNft"}
    BY <2>2 DEF Messages
  <2>9. QED
    BY <1>1, <2>2, <2>4, <2>5, <2>6, <2>7, <2>8 DEF MessageInv
<1>3. CASE sent' \subseteq sent
  <2>1. ASSUME NEW a \in Authorities, NEW args \in CreateArgs,
             CreateLottery(a, args)
        PROVE  UNCHANGED ticket
    BY <2>1 DEF CreateLottery
  <2>2. CASE UNCHANGED ticket
    BY <1>1, <1>3, <2>2 DEF MessageInv
  <2>3. ASSUME NEW m \in sent, NEW num \in LotterNums, Sale(m, num),
               sent' = sent \ {m}
        PROVE  MessageInv'
    <3>1. \A n \in sent' : n.ticket # m.ticket /\ n \in sent
      BY <1>1, <2>3 DEF MessageInv, Sale
    <3>2. \A n \in sent' : ticket'[n.ticket] = ticket[n.ticket]
      BY <1>1, <2>3, <3>1, SaleEffect, RightTicket DEF OthersKept
    <3>3. QED
      BY <1>1, <3>1, <3>2 DEF MessageInv
  <2>4. ASSUME NEW m \in sent, Refund(m) \/ Award(m)
        PROVE  MessageInv'
    <3>1. \A n \in sent : n.ticket \in Tickets
      BY <1>1, RightTicket
    <3>2. /\ ticket[m.ticket].state # "Empty" /\ ticket'[m.ticket].state # "Empty"
          /\ ticket'[m.ticket].owner = ticket[m.ticket].owner
          /\ ticket'[m.ticket].winnedNftNumber = ticket[m.ticket].winnedNftNumber
          /\ \A s \in Tickets \ {m.ticket} : ticket'[s] = ticket[s]
      BY <2>4, RefundEffect, AwardEffect DEF OthersKept
    <3>3. ASSUME NEW n \in sent
          PROVE  /\ (ticket'[n.ticket].state = "Empty")
                      <=> (ticket[n.ticket].state = "Empty")
                 /\ ticket'[n.ticket].owner = ticket[n.ticket].owner
                 /\ ticket'[n.ticket].winnedNftNumber
                      = ticket[n.ticket].winnedNftNumber
      BY <3>1, <3>2
    <3>4. QED
      BY <1>1, <1>3, <3>3 DEF MessageInv
  <2>5. QED
    BY <1>1, <2>1, <2>2, <2>3, <2>4, StepCases DEF AccountsKept
<1>4. QED
  BY <1>1, <1>2, <1>3, SentCases

(* The part about receipts, the history of what buyers paid and got. *)
LEMMA ReceiptStep == Core /\ [Next]_vars => ReceiptInv'
<1> SUFFICES ASSUME Core, [Next]_vars PROVE ReceiptInv'
  OBVIOUS
<1>1. TypeInv /\ ReceiptInv /\ PoolInv /\ lottery \in LotteryType
  BY DEF Core, TypeInv, TypeOK, LotteryType
<1>2. /\ lottery.tokenPool \in Nat
      /\ \A t \in Tickets : /\ receipt[t].round \in Nat
                            /\ ticket[t].winnedNftNumber \in Nat
                            /\ receipt[t].refunded \in Nat
  BY <1>1, ProgramAssumption DEF TypeInv, TypeOK
<1>3. CASE UNCHANGED <<ticket, receipt>> /\ lottery'.tokenPool \in Nat
             /\ lottery'.tokenPool >= lottery.tokenPool
  BY <1>1, <1>2, <1>3 DEF ReceiptInv
<1>4. ASSUME NEW a \in Authorities, NEW args \in CreateArgs,
             CreateLottery(a, args)
      PROVE  ReceiptInv'
  BY <1>2, <1>3, <1>4 DEF CreateLottery
<1>5. ASSUME NEW m \in sent, NEW num \in LotterNums, Sale(m, num)
      PROVE  ReceiptInv'
  <2>1. /\ lottery.tokenPool > 0 /\ lottery.ticketPrice > 0
        /\ lottery'.tokenPool = lottery.tokenPool
    BY <1>1, <1>2, <1>5, SaleEffect DEF PoolInv, LotteryKept
  <2>2. Wins(num) => CarryoutLotter(num) > 0
    BY <1>1 DEF CarryoutLotter, LotteryType
  <2>3. ~ Wins(num) => CarryoutLotter(num) = 0
    BY DEF CarryoutLotter
  <2>4. ASSUME NEW t \in Tickets, t # m.ticket
        PROVE  ticket'[t] = ticket[t] /\ receipt'[t] = receipt[t]
    BY <1>5, <2>4, SaleEffect DEF OthersKept
  <2>5. /\ ticket'[m.ticket].state = IF Wins(num) THEN "Winned" ELSE "NotWinned"
        /\ ticket'[m.ticket].winnedNftNumber = CarryoutLotter(num)
        /\ receipt'[m.ticket].round = lottery.tokenPool
        /\ receipt'[m.ticket].paid = lottery.ticketPrice
        /\ receipt'[m.ticket].refunded = 0
    BY <1>5, SaleEffect
  <2>6. QED
    BY <1>1, <1>2, <2>1, <2>2, <2>3, <2>4, <2>5 DEF ReceiptInv
<1>6. ASSUME NEW m \in sent, Refund(m)
      PROVE  ReceiptInv'
  <2>1. ASSUME NEW t \in Tickets, t # m.ticket
        PROVE  ticket'[t] = ticket[t] /\ receipt'[t] = receipt[t]
    BY <1>6, <2>1, RefundEffect DEF OthersKept
  <2>2. /\ ticket'[m.ticket].state = "Claimed"
        /\ ticket[m.ticket].state = "NotWinned" /\ m.ticket \in Tickets
        /\ ticket'[m.ticket].winnedNftNumber = 0
        /\ receipt'[m.ticket].round = receipt[m.ticket].round
        /\ receipt'[m.ticket].paid = receipt[m.ticket].paid
        /\ UNCHANGED lottery
    BY <1>6, RefundEffect
  <2>3. QED
    BY <1>1, <1>2, <2>1, <2>2 DEF ReceiptInv
<1>7. ASSUME NEW m \in sent, Award(m)
      PROVE  ReceiptInv'
  <2>1. ASSUME NEW t \in Tickets, t # m.ticket
        PROVE  ticket'[t] = ticket[t]
    BY <1>7, <2>1, AwardEffect
  <2>2. /\ ticket'[m.ticket].state = "Claimed"
        /\ ticket[m.ticket].state = "Winned" /\ m.ticket \in Tickets
        /\ receipt[m.ticket].refunded = 0
        /\ UNCHANGED <<lottery, receipt>>
    BY <1>7, AwardEffect
  <2>3. QED
    BY <1>1, <1>2, <2>1, <2>2 DEF ReceiptInv
<1>8. QED
  BY <1>1, <1>2, <1>3, <1>4, <1>5, <1>6, <1>7, StepCases DEF AccountsKept

(* The winners of one creation of the lottery, before and after a step.    *)
LEMMA WinnersCases ==
  ASSUME IInv, [Next]_vars
  PROVE  \/ /\ lottery'.tokenPool = lottery.tokenPool
            /\ lottery'.soldAmount = lottery.soldAmount
            /\ lottery'.nftAmount = lottery.nftAmount
            /\ \A t \in Tickets :
                 /\ receipt'[t].round = receipt[t].round
                 /\ ticket'[t].winnedNftNumber = ticket[t].winnedNftNumber
                 /\ (ticket'[t].state = "Empty") <=> (ticket[t].state = "Empty")
         \/ /\ lottery'.tokenPool = lottery.tokenPool + 1
            /\ lottery'.soldAmount = 0
            /\ UNCHANGED <<ticket, receipt>>
         \/ \E m \in sent : \E num \in LotterNums : Sale(m, num)
<1>1. TypeInv /\ Core
  BY DEF IInv, Core
<1>2. ASSUME NEW m \in sent, Refund(m) \/ Award(m)
      PROVE  /\ UNCHANGED lottery
             /\ \A t \in Tickets :
                  /\ receipt'[t].round = receipt[t].round
                  /\ ticket'[t].winnedNftNumber = ticket[t].winnedNftNumber
                  /\ (ticket'[t].state = "Empty") <=> (ticket[t].state = "Empty")
  BY <1>1, <1>2, RefundEffect, AwardEffect DEF OthersKept
<1>3. QED
  BY <1>1, <1>2, StepCases DEF AccountsKept, CreateLottery

(* carryout_lotter's draw: sold_amount is above every number handed out. *)
LEMMA DrawStep ==
  IInv /\ [Next]_vars => (DrawInv /\ WinningNumbersDistinct /\ NumbersInRange)'
<1> SUFFICES ASSUME IInv, [Next]_vars
             PROVE  (DrawInv /\ WinningNumbersDistinct /\ NumbersInRange)'
  OBVIOUS
<1>1. /\ Core /\ ReceiptInv /\ PoolInv /\ lottery \in LotteryType
      /\ DrawInv /\ WinningNumbersDistinct /\ NumbersInRange
  BY DEF IInv, Core, TypeInv, TypeOK, LotteryType
<1>2. /\ lottery.tokenPool \in Nat /\ lottery.soldAmount \in Nat
      /\ \A t \in Tickets : /\ receipt[t].round \in Nat
                            /\ ticket[t].winnedNftNumber \in Nat
                            /\ receipt[t].round <= lottery.tokenPool
                            /\ ticket[t].state = "Empty" =>
                                 /\ ticket[t].winnedNftNumber = 0
                                 /\ receipt[t].round = 0
  BY <1>1, ProgramAssumption DEF Core, TypeInv, TypeOK, ReceiptInv, NoReceipt
<1>3. CASE /\ lottery'.tokenPool = lottery.tokenPool
           /\ lottery'.soldAmount = lottery.soldAmount
           /\ lottery'.nftAmount = lottery.nftAmount
           /\ \A t \in Tickets :
                /\ receipt'[t].round = receipt[t].round
                /\ ticket'[t].winnedNftNumber = ticket[t].winnedNftNumber
                /\ (ticket'[t].state = "Empty") <=> (ticket[t].state = "Empty")
  BY <1>1, <1>3
  DEF DrawInv, WinningNumbersDistinct, NumbersInRange, Winners, Sold
<1>4. CASE /\ lottery'.tokenPool = lottery.tokenPool + 1
           /\ lottery'.soldAmount = 0
           /\ UNCHANGED <<ticket, receipt>>
  BY <1>1, <1>2, <1>4
  DEF DrawInv, WinningNumbersDistinct, NumbersInRange, Winners, Sold
<1>5. ASSUME NEW m \in sent, NEW num \in LotterNums, Sale(m, num)
      PROVE  (DrawInv /\ WinningNumbersDistinct /\ NumbersInRange)'
  <2> DEFINE n == CarryoutLotter(num)
  <2>1. /\ LotteryKept /\ m.ticket \in Tickets
        /\ lottery'.soldAmount = SoldAfter(num)
        /\ \A s \in Tickets \ {m.ticket} :
             ticket'[s] = ticket[s] /\ receipt'[s] = receipt[s]
        /\ ticket'[m.ticket].winnedNftNumber = n
        /\ receipt'[m.ticket].round = lottery.tokenPool
    BY <1>1, <1>5, SaleEffect DEF OthersKept
  <2>2. /\ n \in Nat /\ SoldAfter(num) \in Nat
        /\ n <= SoldAfter(num) /\ lottery.soldAmount <= SoldAfter(num)
        /\ n > 0 => n = lottery.soldAmount + 1 /\ n <= lottery.nftAmount
    BY <1>1 DEF CarryoutLotter, SoldAfter, Wins, LotteryType
  <2> HIDE DEF n
  <2>3. DrawInv'
    BY <1>1, <1>2, <2>1, <2>2 DEF DrawInv, LotteryKept
  <2>4. NumbersInRange'
    BY <1>1, <1>2, <2>1, <2>2 DEF NumbersInRange, LotteryKept, Winners, Sold
  <2>5. WinningNumbersDistinct'
    <3>1. SUFFICES ASSUME NEW r \in Pools, NEW s \in Winners(r)',
                          NEW t \in Winners(r)', s # t
                   PROVE  ticket'[s].winnedNftNumber # ticket'[t].winnedNftNumber
      BY DEF WinningNumbersDistinct
    <3>2. \A x \in Tickets \ {m.ticket} :
            x \in Winners(r)' =>
              /\ x \in Winners(r)
              /\ r = lottery.tokenPool =>
                   ticket[x].winnedNftNumber <= lottery.soldAmount
      BY <1>1, <2>1 DEF Winners, Sold, DrawInv
    <3>3. /\ s \in Tickets /\ t \in Tickets
          /\ ticket'[s].winnedNftNumber > 0 /\ ticket'[t].winnedNftNumber > 0
          /\ receipt'[s].round = r /\ receipt'[t].round = r
      BY DEF Winners, Sold
    <3>4. CASE s # m.ticket /\ t # m.ticket
      BY <1>1, <2>1, <3>1, <3>2, <3>3, <3>4 DEF WinningNumbersDistinct
    <3>5. CASE s = m.ticket \/ t = m.ticket
      BY <1>2, <2>1, <2>2, <3>1, <3>2, <3>3, <3>5
    <3>6. QED
      BY <3>4, <3>5
  <2>6. QED
    BY <2>3, <2>4, <2>5
<1>6. QED
  BY <1>3, <1>4, <1>5, WinnersCases

(* sold_amount counts the tickets and, once more, the winners.             *)
LEMMA CountStep == IInv /\ [Next]_vars => CounterCounts'
<1> SUFFICES ASSUME IInv, [Next]_vars PROVE CounterCounts'
  OBVIOUS
<1> DEFINE r == lottery.tokenPool
<1>1. /\ Core /\ PoolInv /\ lottery \in LotteryType /\ CounterCounts
  BY DEF IInv, Core, TypeInv, TypeOK, LotteryType
<1>2. /\ r \in Nat /\ lottery.soldAmount \in Nat /\ lottery.ticketAmount \in Nat
      /\ \A t \in Tickets : /\ receipt[t].round \in Nat
                            /\ ticket[t].winnedNftNumber \in Nat
                            /\ receipt[t].round <= r
                            /\ ticket[t].state = "Empty" => receipt[t].round = 0
  BY <1>1, ProgramAssumption DEF Core, TypeInv, TypeOK, ReceiptInv, NoReceipt
<1>3. ASSUME NEW R PROVE IsFiniteSet(Sold(R)) /\ IsFiniteSet(Winners(R))
  BY FS_Subset, ProgramAssumption DEF Sold, Winners
<1>4. CASE /\ lottery'.tokenPool = lottery.tokenPool
           /\ lottery'.soldAmount = lottery.soldAmount
           /\ lottery'.ticketAmount = lottery.ticketAmount
           /\ (lottery'.state = "Absent") <=> (lottery.state = "Absent")
           /\ \A t \in Tickets :
                /\ receipt'[t].round = receipt[t].round
                /\ ticket'[t].winnedNftNumber = ticket[t].winnedNftNumber
                /\ (ticket'[t].state = "Empty") <=> (ticket[t].state = "Empty")
  <2>1. Sold(r)' = Sold(r) /\ Winners(r)' = Winners(r)
    BY <1>4 DEF Sold, Winners
  <2>2. QED
    BY <1>1, <1>4, <2>1 DEF CounterCounts
<1>5. ASSUME NEW a \in Authorities, NEW args \in CreateArgs,
             CreateLottery(a, args)
      PROVE  CounterCounts'
  <2>1. /\ lottery'.tokenPool = r + 1 /\ lottery'.soldAmount = 0
        /\ lottery'.ticketAmount \in Nat /\ UNCHANGED <<ticket, receipt>>
    BY <1>5, ProgramAssumption DEF CreateLottery, Settings
  <2>2. Sold(r)' = {} /\ Winners(r)' = {}
    BY <1>2, <2>1 DEF Sold, Winners
  <2>3. QED
    BY <2>1, <2>2, FS_EmptySet DEF CounterCounts
<1>6. ASSUME NEW m \in sent, NEW num \in LotterNums, Sale(m, num)
      PROVE  CounterCounts'
  <2> DEFINE t == m.ticket
  <2>1. /\ LotteryKept /\ t \in Tickets
        /\ lottery.state = "Started" /\ lottery.soldAmount < lottery.ticketAmount
        /\ lottery'.soldAmount = SoldAfter(num)
        /\ \A s \in Tickets \ {t} :
             ticket'[s] = ticket[s] /\ receipt'[s] = receipt[s]
        /\ ticket[t].state = "Empty"
        /\ ticket'[t].state = IF Wins(num) THEN "Winned" ELSE "NotWinned"
        /\ ticket'[t].winnedNftNumber = CarryoutLotter(num)
        /\ receipt'[t].round = r
    BY <1>1, <1>6, SaleEffect DEF OthersKept
  <2>2. t \notin Sold(r) /\ t \notin Winners(r)
    BY <2>1 DEF Sold, Winners
  <2>3. Sold(r)' = Sold(r) \cup {t}
    BY <2>1 DEF Sold, LotteryKept
  <2>4. Cardinality(Sold(r)') = Cardinality(Sold(r)) + 1
    BY <1>3, <2>2, <2>3, FS_AddElement
  <2>5. Wins(num) => Winners(r)' = Winners(r) \cup {t}
    BY <1>2, <2>1, <2>3 DEF Sold, Winners, CarryoutLotter, LotteryKept
  <2>6. ~ Wins(num) => Winners(r)' = Winners(r)
    BY <1>2, <2>1, <2>3 DEF Sold, Winners, CarryoutLotter, LotteryKept
  <2>7. Cardinality(Winners(r)')
          = Cardinality(Winners(r)) + (IF Wins(num) THEN 1 ELSE 0)
    <3>1. Cardinality(Winners(r)) \in Nat
      BY <1>3, FS_CardinalityType
    <3>2. CASE Wins(num)
      BY <1>3, <2>2, <2>5, <3>2, FS_AddElement
    <3>3. CASE ~ Wins(num)
      BY <2>6, <3>1, <3>3
    <3>4. QED
      BY <3>2, <3>3
  <2>8. Cardinality(Sold(r)) \in Nat /\ Cardinality(Winners(r)) \in Nat
    BY <1>3, FS_CardinalityType
  <2>9. lottery.soldAmount = Cardinality(Sold(r)) + Cardinality(Winners(r))
    BY <1>1, <2>1 DEF CounterCounts
  <2>10. /\ lottery'.soldAmount
              = Cardinality(Sold(r)') + Cardinality(Winners(r)')
         /\ lottery'.soldAmount <= lottery.ticketAmount + 1
         /\ lottery'.soldAmount = lottery.ticketAmount + 1 => Wins(num)
    BY <1>2, <2>1, <2>4, <2>7, <2>8, <2>9 DEF SoldAfter
  <2>11. QED
    BY <2>1, <2>5, <2>10 DEF CounterCounts, LotteryKept
<1>7. ASSUME NEW m \in sent, Refund(m) \/ Award(m)
      PROVE  /\ UNCHANGED lottery
             /\ \A t \in Tickets :
                  /\ receipt'[t].round = receipt[t].round
                  /\ ticket'[t].winnedNftNumber = ticket[t].winnedNftNumber
                  /\ (ticket'[t].state = "Empty") <=> (ticket[t].state = "Empty")
  BY <1>1, <1>7, RefundEffect, AwardEffect DEF OthersKept
<1>8. QED
  BY <1>1, <1>4, <1>5, <1>6, <1>7, StepCases DEF AccountsKept, Core

(* Only its own claim moves an NFT, and a claimed ticket stays as it is.   *)
LEMMA PrizeStep == IInv /\ [Next]_vars => PrizesWentToWinners'
<1> SUFFICES ASSUME IInv, [Next]_vars, NEW k \in NftNumbers,
                    nft'[k].holder \in Users
             PROVE  WentToWinner(k)'
  BY DEF PrizesWentToWinners
<1>1. Core /\ TypeInv /\ PrizesWentToWinners
  BY DEF IInv, Core
<1>2. ASSUME nft'[k] = nft[k]
      PROVE  \E t \in Tickets :
               /\ ticket[t].winnedNftNumber = k
               /\ ticket[t].state = "Claimed"
               /\ ticket[t].owner = nft'[k].holder
               /\ receipt[t].refunded = 0
  BY <1>1, <1>2 DEF PrizesWentToWinners, WentToWinner
<1>3. ASSUME NEW m \in sent, NEW num \in LotterNums, Sale(m, num)
      PROVE  WentToWinner(k)'
  BY <1>1, <1>2, <1>3, SaleEffect DEF OthersKept, WentToWinner
<1>4. ASSUME NEW m \in sent, Refund(m)
      PROVE  WentToWinner(k)'
  BY <1>1, <1>2, <1>4, RefundEffect DEF OthersKept, WentToWinner
<1>5. ASSUME NEW m \in sent, Award(m)
      PROVE  WentToWinner(k)'
  <2>1. CASE k = m.nft
    BY <1>1, <1>5, <2>1, AwardEffect DEF WentToWinner
  <2>2. CASE k # m.nft
    BY <1>1, <1>2, <1>5, <2>2, AwardEffect DEF WentToWinner
  <2>3. QED
    BY <2>1, <2>2
<1>6. QED
  BY <1>1, <1>2, <1>3, <1>4, <1>5, StepCases
  DEF AccountsKept, CreateLottery, WentToWinner

(* While the lottery has been created at most once, its pool moves by      *)
(* exactly the price of the ticket that is sold or refunded.               *)
LEMMA DepositStep == IInv /\ [Next]_vars => DepositInv'
<1> SUFFICES ASSUME IInv, [Next]_vars, lottery'.tokenPool <= 1
             PROVE  DepositInv'
  BY DEF DepositInv
<1> DEFINE price == lottery.ticketPrice
<1>1. /\ Core /\ TypeInv /\ PoolInv /\ ReceiptInv /\ lottery \in LotteryType
      /\ DepositInv /\ price \in Nat /\ lottery.tokenPool \in Nat
  BY ProgramAssumption DEF IInv, Core, TypeInv, TypeOK, LotteryType
<1>2. /\ 1 \in Pools /\ pool[1] \in Nat /\ pool \in [Pools -> Nat]
      /\ \A t \in Tickets : receipt[t].paid \in Nat /\ receipt[t].refunded \in Nat
  BY SMTT(30), <1>1, ProgramAssumption DEF TypeInv, TypeOK, Pools
<1>3. IsFiniteSet(Unrefunded) /\ Cardinality(Unrefunded) \in Nat
  BY FS_Subset, FS_CardinalityType, ProgramAssumption DEF Unrefunded
<1>4. CASE AccountsKept
  <2>1. Unrefunded' = Unrefunded
    BY <1>4 DEF AccountsKept, Unrefunded
  <2>2. QED
    BY <1>1, <1>4, <2>1 DEF AccountsKept, DepositInv
<1>5. ASSUME NEW a \in Authorities, NEW args \in CreateArgs,
             CreateLottery(a, args)
      PROVE  lottery.tokenPool = 0 /\ UNCHANGED <<ticket, receipt, pool>>
  BY <1>1, <1>5 DEF CreateLottery
<1>6. CASE lottery.tokenPool = 0 /\ UNCHANGED <<ticket, receipt, pool>>
  <2>1. \A t \in Tickets :
          ticket[t].state = "Empty" /\ receipt[t] = NoReceipt
    BY <1>1, <1>6 DEF ReceiptInv
  <2>2. Unrefunded = {} /\ Unrefunded' = {}
    BY <1>6, <2>1 DEF Unrefunded, NoReceipt
  <2>3. Cardinality(Unrefunded) = 0 /\ pool[1] = 0
    BY <1>1, <1>6, <2>2, FS_EmptySet DEF DepositInv, PoolInv
  <2>4. lottery'.ticketPrice * 0 = 0
    <3>1. lottery'.ticketPrice \in Nat
      BY <1>1, NextTyped DEF TypeInv, TypeOK
    <3>2. QED
      BY <3>1
  <2>5. QED
    BY <1>6, <2>1, <2>2, <2>3, <2>4 DEF NoReceipt, DepositInv
<1>7. \A m \in sent : m.type # "ClaimNft" /\ lottery.tokenPool <= 1 => m.pool = 1
  <2> SUFFICES ASSUME NEW m \in sent, m.type # "ClaimNft",
                      lottery.tokenPool <= 1
               PROVE  m.pool = 1
    OBVIOUS
  <2>1. m.pool \in Pools /\ m.pool <= lottery.tokenPool
    BY <1>1, RightTicket DEF Core, PoolInv
  <2>2. QED
    BY <1>1, <2>1, ProgramAssumption DEF Pools
<1>8. ASSUME NEW m \in sent, NEW num \in LotterNums, Sale(m, num)
      PROVE  DepositInv'
  <2>1. /\ LotteryKept /\ OthersKept(m) /\ m.ticket \in Tickets
        /\ receipt[m.ticket] = NoReceipt /\ lottery.state = "Started"
        /\ receipt'[m.ticket].paid = price /\ receipt'[m.ticket].refunded = 0
        /\ pool' = [pool EXCEPT ![m.pool] = @ + price]
    BY <1>1, <1>8, SaleEffect
  <2>2. m.pool = 1 /\ price > 0 /\ lottery.tokenPool <= 1
    BY <1>1, <1>7, <1>8, <2>1 DEF PoolInv, LotteryKept, Sale
  <2>3. Unrefunded' = Unrefunded \cup {m.ticket} /\ m.ticket \notin Unrefunded
    BY <2>1, <2>2 DEF Unrefunded, OthersKept, NoReceipt
  <2>4. Cardinality(Unrefunded') = Cardinality(Unrefunded) + 1
    BY <1>3, <2>3, FS_AddElement
  <2>5. pool'[1] = pool[1] + price /\ pool[1] = price * Cardinality(Unrefunded)
    BY <1>1, <1>2, <2>1, <2>2 DEF DepositInv
  <2>6. \A c \in Nat : price * (c + 1) = price * c + price
    BY <1>1
  <2>7. pool'[1] = price * Cardinality(Unrefunded')
    BY <1>3, <2>4, <2>5, <2>6
  <2>8. QED
    BY <1>1, <2>1, <2>2, <2>7 DEF DepositInv, LotteryKept, OthersKept
<1>9. ASSUME NEW m \in sent, Refund(m)
      PROVE  DepositInv'
  <2>1. /\ OthersKept(m) /\ m.ticket \in Tickets /\ UNCHANGED lottery
        /\ ticket[m.ticket].state = "NotWinned" /\ receipt[m.ticket].refunded = 0
        /\ receipt'[m.ticket].refunded = price
        /\ receipt'[m.ticket].paid = receipt[m.ticket].paid
        /\ pool' = [pool EXCEPT ![m.pool] = @ - price]
    BY <1>1, <1>9, RefundEffect
  <2>2. /\ m.pool = 1 /\ price > 0 /\ lottery.tokenPool <= 1
        /\ receipt[m.ticket].paid = price
    <3>1. receipt[m.ticket].round \in 1..lottery.tokenPool
      BY <1>1, <2>1 DEF ReceiptInv
    <3>2. lottery.tokenPool > 0 /\ lottery.tokenPool <= 1
      BY <1>1, <2>1, <3>1
    <3>3. QED
      BY <1>1, <1>7, <1>9, <2>1, <3>2 DEF PoolInv, DepositInv, Refund
  <2>3. Unrefunded' = Unrefunded \ {m.ticket} /\ m.ticket \in Unrefunded
    BY <2>1, <2>2 DEF Unrefunded, OthersKept
  <2>4. /\ Cardinality(Unrefunded') \in Nat
        /\ Cardinality(Unrefunded) = Cardinality(Unrefunded') + 1
    <3>1. /\ IsFiniteSet(Unrefunded \ {m.ticket})
          /\ Cardinality(Unrefunded \ {m.ticket}) = Cardinality(Unrefunded) - 1
      BY <1>3, <2>3, FS_RemoveElement
    <3>2. Cardinality(Unrefunded \ {m.ticket}) \in Nat
      BY <3>1, FS_CardinalityType
    <3>3. QED
      BY <1>3, <2>3, <3>1, <3>2
  <2>5. pool'[1] = pool[1] - price /\ pool[1] = price * Cardinality(Unrefunded)
    BY <1>1, <1>2, <2>1, <2>2 DEF DepositInv
  <2>6. \A c \in Nat : price * (c + 1) = price * c + price
    BY <1>1
  <2>7. pool'[1] = price * Cardinality(Unrefunded')
    <3>1. price * Cardinality(Unrefunded')  \in Nat
      BY <1>1, <2>4
    <3>2. pool[1] = price * Cardinality(Unrefunded') + price
      BY <2>4, <2>5, <2>6
    <3>3. QED
      BY <1>1, <2>5, <3>1, <3>2
  <2>8. QED
    BY <1>1, <2>1, <2>2, <2>7 DEF DepositInv, OthersKept
<1>10. ASSUME NEW m \in sent, Award(m)
       PROVE  DepositInv'
  <2>1. /\ UNCHANGED <<lottery, pool, receipt>> /\ m.ticket \in Tickets
        /\ ticket[m.ticket].state = "Winned"
        /\ \A s \in Tickets \ {m.ticket} : ticket'[s] = ticket[s]
    BY <1>1, <1>10, AwardEffect
  <2>2. Unrefunded' = Unrefunded
    BY <2>1 DEF Unrefunded
  <2>3. QED
    BY <1>1, <2>1, <2>2 DEF DepositInv
<1>11. QED
  BY <1>1, <1>4, <1>5, <1>6, <1>8, <1>9, <1>10, StepCases

(* The part about the settings create_lottery stored. *)
LEMMA SettingsStep == IInv /\ [Next]_vars => SettingsInv'
<1> SUFFICES ASSUME IInv, [Next]_vars PROVE SettingsInv'
  OBVIOUS
<1>1. Core /\ TypeInv /\ SettingsInv
  BY DEF IInv, Core
<1>2. ASSUME NEW a \in Authorities, NEW args \in CreateArgs,
             CreateLottery(a, args)
      PROVE  SettingsInv'
  BY <1>2 DEF CreateLottery, SettingsInv
<1>3. ASSUME NEW m \in sent,
             (\E num \in LotterNums : Sale(m, num)) \/ Refund(m) \/ Award(m)
      PROVE  SettingsInv'
  BY <1>1, <1>3, SaleEffect, RefundEffect, AwardEffect
  DEF LotteryKept, SettingsInv
<1>4. CASE AccountsKept
  BY <1>1, <1>4 DEF AccountsKept, SettingsInv
<1>5. QED
  BY <1>1, <1>2, <1>3, <1>4, StepCases

(* Every step keeps the inductive invariant: one lemma per part. *)
LEMMA NextIInv == IInv /\ [Next]_vars => IInv'
<1> SUFFICES ASSUME IInv, [Next]_vars PROVE IInv'
  OBVIOUS
<1>1. TypeInv /\ Core
  BY DEF IInv, Core
<1>2. TypeInv' /\ PoolInv' /\ MessageInv' /\ ReceiptInv'
  BY <1>1, NextTyped, PoolStep, MessageStep, ReceiptStep
<1>3. /\ DrawInv' /\ WinningNumbersDistinct' /\ NumbersInRange'
      /\ CounterCounts' /\ PrizesWentToWinners' /\ DepositInv'
      /\ SettingsInv'
  BY DrawStep, CountStep, PrizeStep, DepositStep, SettingsStep
<1>4. QED
  BY <1>2, <1>3 DEF IInv

(* The inductive invariant holds in every reachable state. *)
THEOREM Inductive == Spec => []IInv
<1>1. QED
  BY InitIInv, NextIInv, PTL DEF Spec

-----------------------------------------------------------------------------
(* What follows *)

(* Every account, page and transaction keeps its type.                     *)
THEOREM TypeCorrect == Spec => []TypeOK
<1>1. IInv => TypeOK
  BY DEF IInv, TypeInv
<1>2. QED
  BY <1>1, Inductive, PTL

(* No two tickets of one creation of the lottery hold the same number, and *)
(* every number is one of an NFT the creator announced: carryout_lotter    *)
(* and the counter of get_ticket agree, whatever number a ticket draws.    *)
THEOREM NumbersUnique == Spec => [](WinningNumbersDistinct /\ NumbersInRange)
<1>1. IInv => WinningNumbersDistinct /\ NumbersInRange
  BY DEF IInv
<1>2. QED
  BY <1>1, Inductive, PTL

(* get_ticket's limit and carryout_lotter's hold: no creation sells more   *)
(* tickets than it announced or draws a number beyond its NFTs, because    *)
(* sold_amount counts every ticket (and every winner once more) and only   *)
(* a winner takes it past ticket_amount.                                   *)
THEOREM NeverOversells == Spec => []NeverOversold
<1>1. ASSUME IInv PROVE NeverOversold
  <2> DEFINE r == lottery.tokenPool
  <2>1. /\ TypeInv /\ PoolInv /\ ReceiptInv /\ NumbersInRange /\ CounterCounts
        /\ lottery.ticketAmount \in Nat /\ lottery.soldAmount \in Nat
    BY <1>1 DEF IInv, TypeInv, TypeOK
  <2>2. IsFiniteSet(Sold(r)) /\ IsFiniteSet(Winners(r))
    BY FS_Subset, ProgramAssumption DEF Sold, Winners
  <2>3. Cardinality(Sold(r)) \in Nat /\ Cardinality(Winners(r)) \in Nat
    BY <2>2, FS_CardinalityType
  <2>4. CASE lottery.state = "Absent"
    <3>1. Sold(r) = {}
      BY <2>1, <2>4 DEF PoolInv, ReceiptInv, Sold
    <3>2. QED
      BY <2>1, <3>1, FS_EmptySet DEF NeverOversold, NumbersInRange
  <2>5. CASE lottery.state # "Absent"
    <3>1. Winners(r) # {} => Cardinality(Winners(r)) # 0
      BY <2>2, FS_EmptySet
    <3>2. Cardinality(Sold(r)) <= lottery.ticketAmount
      BY <2>1, <2>3, <2>5, <3>1 DEF CounterCounts
    <3>3. QED
      BY <2>1, <3>2 DEF NeverOversold, NumbersInRange
  <2>6. QED
    BY <2>4, <2>5
<1>2. QED
  BY <1>1, Inductive, PTL

(* An NFT leaves its pool for the owner of the ticket that drew it.        *)
THEOREM PrizesAwarded == Spec => []PrizesWentToWinners
<1>1. IInv => PrizesWentToWinners
  BY DEF IInv
<1>2. QED
  BY <1>1, Inductive, PTL

(* The pool of a lottery created once holds what it owes to the deposit.   *)
THEOREM RefundsCovered == Spec => []PoolCoversRefunds
<1>1. IInv => PoolCoversRefunds
  BY DEF IInv, DepositInv, PoolCoversRefunds, OnlyCreation
<1>2. QED
  BY <1>1, Inductive, PTL

(* In a lottery created once, a refund is exactly what the ticket cost.    *)
THEOREM RefundsExact == Spec => []RefundIsDeposit
<1>1. ASSUME IInv PROVE RefundIsDeposit
  <2> SUFFICES ASSUME OnlyCreation, NEW t \in Tickets
               PROVE  receipt[t].refunded \in {0, receipt[t].paid}
    BY DEF RefundIsDeposit
  <2>1. /\ receipt[t].refunded \in {0, lottery.ticketPrice}
        /\ ticket[t].state # "Empty" => receipt[t].paid = lottery.ticketPrice
    BY <1>1 DEF IInv, DepositInv, OnlyCreation
  <2>2. ticket[t].state = "Empty" => receipt[t].refunded = 0
    BY <1>1 DEF IInv, ReceiptInv, NoReceipt
  <2>3. QED
    BY <2>1, <2>2
<1>2. QED
  BY <1>1, Inductive, PTL

(* A prize that was won and not yet claimed has not left its pool: the     *)
(* number is the winner's alone, and only its own claim moves the NFT.     *)
THEOREM PrizesReserved == Spec => []PrizeReserved
<1>1. ASSUME IInv PROVE PrizeReserved
  <2> SUFFICES ASSUME OnlyCreation, NEW t \in Tickets, NEW k \in NftNumbers,
                      ticket[t].state = "Winned",
                      ticket[t].winnedNftNumber = k,
                      nft[k].holder \in Users
               PROVE  FALSE
    BY <1>1 DEF PrizeReserved, IInv, TypeInv, TypeOK
  <2>1. PICK s \in Tickets : /\ ticket[s].winnedNftNumber = k
                             /\ ticket[s].state = "Claimed"
    BY <1>1 DEF IInv, PrizesWentToWinners, WentToWinner
  <2>2. /\ 1 \in Pools /\ k > 0 /\ receipt[s].round = 1 /\ receipt[t].round = 1
    BY <1>1, <2>1, ProgramAssumption
    DEF IInv, ReceiptInv, OnlyCreation, Pools, NftNumbers
  <2>3. s \in Winners(1) /\ t \in Winners(1) /\ s # t
    BY <2>1, <2>2 DEF Winners, Sold
  <2>4. QED
    BY <1>1, <2>1, <2>2, <2>3 DEF IInv, WinningNumbersDistinct
<1>2. QED
  BY <1>1, Inductive, PTL

(* No transaction, late or repeated, pays a claimed ticket again or        *)
(* rewrites the result of a ticket.                                        *)
THEOREM TicketsSettleOnce == Spec => SettledOnce
<1> DEFINE Settles ==
      \A t \in Tickets :
        /\ ticket[t].state = "Claimed" => UNCHANGED <<ticket[t], receipt[t]>>
        /\ ticket[t].state # "Empty" =>
             /\ ticket'[t].winnedNftNumber = ticket[t].winnedNftNumber
             /\ ticket'[t].owner = ticket[t].owner
<1>1. ASSUME IInv, [Next]_vars PROVE [Settles]_vars
  <2>1. Core /\ TypeInv
    BY <1>1 DEF IInv, Core
  <2>2. ASSUME NEW m \in sent, NEW num \in LotterNums, Sale(m, num)
        PROVE  Settles
    BY <2>1, <2>2, SaleEffect DEF OthersKept
  <2>3. ASSUME NEW m \in sent, Refund(m) PROVE Settles
    BY <2>1, <2>3, RefundEffect DEF OthersKept
  <2>4. ASSUME NEW m \in sent, Award(m) PROVE Settles
    BY <2>1, <2>4, AwardEffect
  <2>5. QED
    BY <1>1, <2>1, <2>2, <2>3, <2>4, StepCases DEF AccountsKept, CreateLottery
<1>2. QED
  BY <1>1, Inductive, PTL DEF Spec, SettledOnce

-----------------------------------------------------------------------------
(* A lottery created once implements the abstract raffle *)

(* The initial accounts read as a ledger with no ticket sold. *)
LEMMA LedgerInit == MaxCreations = 1 /\ Init => Ledger!Init
<1> SUFFICES ASSUME MaxCreations = 1, Init PROVE Ledger!Init
  OBVIOUS
<1>1. \A t \in Tickets : EntryOf(t) = "unsold"
  BY DEF Init, ProgramInit, EmptyTicket, EntryOf
<1>2. {k \in NftNumbers : nft[k].holder \in Users} = {}
  BY ProgramAssumption DEF Init, ProgramInit, Unminted
<1>3. pool[1] = 0 /\ lottery.ticketPrice = 0
  BY DEF Init, ProgramInit, NoLottery, Pools
<1>4. \A t \in Tickets : ticket[t].winnedNftNumber = 0
  BY DEF Init, ProgramInit, EmptyTicket
<1>5. QED
  BY <1>1, <1>2, <1>3, <1>4 DEF Ledger!Init

(* Each of the three transactions is the ledger's step of that name; to    *)
(* create the lottery opens the ledger, and nothing else is seen there.    *)
LEMMA LedgerNext ==
  ASSUME MaxCreations = 1, IInv, [Next]_vars
  PROVE  [Ledger!Next]_(Ledger!ledgerVars)
<1> DEFINE awarded == {k \in NftNumbers : nft[k].holder \in Users}
<1>1. /\ Core /\ TypeInv /\ PoolInv /\ lottery \in LotteryType
      /\ lottery.tokenPool \in {0, 1} /\ 1 \in Pools /\ pool \in [Pools -> Nat]
      /\ \A m \in sent : m.type # "ClaimNft" => m.pool = 1
  <2>1. /\ Core /\ TypeInv /\ PoolInv /\ lottery \in LotteryType
        /\ pool \in [Pools -> Nat]
    BY DEF IInv, Core, TypeInv, TypeOK, LotteryType
  <2>2. Pools = {1} /\ lottery.tokenPool \in {0, 1}
    BY <2>1 DEF Pools, LotteryType
  <2>3. \A m \in sent : m.type # "ClaimNft" => m.pool = 1
    BY <2>1, <2>2, RightTicket DEF Core
  <2>4. QED
    BY <2>1, <2>2, <2>3
<1>2. CASE AccountsKept
  <2>1. \A t \in Tickets : EntryOf(t)' = EntryOf(t)
    BY <1>2 DEF AccountsKept, EntryOf
  <2>2. awarded' = awarded
    BY <1>2 DEF AccountsKept
  <2>3. UNCHANGED Ledger!ledgerVars
    BY <1>2, <2>1, <2>2 DEF AccountsKept, Ledger!ledgerVars
  <2>4. QED
    BY <2>3
<1>3. ASSUME NEW u \in Authorities, NEW args \in CreateArgs,
             CreateLottery(u, args)
      PROVE  \E p \in {a.ticketPrice : a \in CreateArgs} : Ledger!Open(p)
  <2>1. lottery.ticketPrice = 0 /\ lottery'.ticketPrice = args.ticketPrice
    BY <1>1, <1>3 DEF CreateLottery, PoolInv
  <2>2. UNCHANGED <<ticket, pool, nft>>
    BY <1>3 DEF CreateLottery
  <2>3. \A t \in Tickets : EntryOf(t)' = EntryOf(t)
    BY <2>2 DEF EntryOf
  <2>4. Ledger!Open(args.ticketPrice)
    BY <2>1, <2>2, <2>3 DEF Ledger!Open
  <2>5. QED
    BY <2>4
<1>4. ASSUME NEW m \in sent, NEW num \in LotterNums, Sale(m, num)
      PROVE  \E n \in UNION {0..a.nftAmount : a \in CreateArgs} :
               Ledger!Buy(m.ticket, n)
  <2> DEFINE n == CarryoutLotter(num)
  <2>1. /\ m.ticket \in Tickets /\ m.pool = 1
        /\ LotteryKept /\ lottery.state = "Started"
        /\ ticket[m.ticket].state = "Empty"
        /\ ticket'[m.ticket].state = IF Wins(num) THEN "Winned" ELSE "NotWinned"
        /\ ticket'[m.ticket].winnedNftNumber = n
        /\ \A s \in Tickets \ {m.ticket} : ticket'[s] = ticket[s]
        /\ pool' = [pool EXCEPT ![m.pool] = @ + lottery.ticketPrice]
        /\ UNCHANGED nft
    BY <1>1, <1>4, SaleEffect DEF OthersKept, Sale
  <2>2. /\ lottery.ticketPrice > 0 /\ pool'[1] = pool[1] + lottery.ticketPrice
        /\ lottery.tokenPool = 1
    BY <1>1, <2>1 DEF PoolInv
  <2>3. /\ n \in 0..lottery.nftAmount
        /\ Wins(num) <=> n # 0
        /\ n > 0 => n = lottery.soldAmount + 1
    BY <1>1 DEF CarryoutLotter, Wins, LotteryType
  <2>4. n \in UNION {0..a.nftAmount : a \in CreateArgs}
    BY <2>1, <2>3 DEF IInv, SettingsInv
  <2> HIDE DEF n
  <2>5. ASSUME NEW s \in Tickets, n > 0 PROVE ticket[s].winnedNftNumber # n
    <3>1. ticket[s].winnedNftNumber \in Nat
      BY <1>1 DEF TypeInv, TypeOK
    <3>2. CASE ticket[s].state = "Empty"
      BY <2>3, <2>5, <3>2 DEF IInv, ReceiptInv
    <3>3. CASE ticket[s].state # "Empty"
      <4>1. receipt[s].round = 1
        BY <2>2, <3>3 DEF IInv, ReceiptInv
      <4>2. ticket[s].winnedNftNumber <= lottery.soldAmount
        BY <2>2, <4>1 DEF IInv, DrawInv
      <4>3. QED
        BY <1>1, <2>3, <2>5, <3>1, <4>2 DEF LotteryType
    <3>4. QED
      BY <3>2, <3>3
  <2>6. /\ EntryOf(m.ticket) = "unsold"
        /\ EntryOf(m.ticket)' = IF n = 0 THEN "lost" ELSE "won"
        /\ \A s \in Tickets \ {m.ticket} : EntryOf(s)' = EntryOf(s)
    BY <2>1, <2>3 DEF EntryOf
  <2>7. [t \in Tickets |-> EntryOf(t)]'
          = [[t \in Tickets |-> EntryOf(t)] EXCEPT
               ![m.ticket] = IF n = 0 THEN "lost" ELSE "won"]
    BY <2>1, <2>6
  <2>8. [t \in Tickets |-> ticket[t].winnedNftNumber]'
          = [[t \in Tickets |-> ticket[t].winnedNftNumber] EXCEPT
               ![m.ticket] = n]
    BY <2>1
  <2>9. Ledger!Buy(m.ticket, n)
    BY <2>1, <2>2, <2>5, <2>6, <2>7, <2>8 DEF Ledger!Buy, LotteryKept
  <2>10. QED
    BY <2>4, <2>9 DEF Ledger!Buy
<1>5. ASSUME NEW m \in sent, Refund(m)
      PROVE  Ledger!Refund(m.ticket)
  <2>1. /\ m.ticket \in Tickets /\ m.pool = 1
        /\ ticket[m.ticket].state = "NotWinned"
        /\ ticket'[m.ticket].state = "Claimed"
        /\ ticket'[m.ticket].winnedNftNumber = ticket[m.ticket].winnedNftNumber
        /\ \A s \in Tickets \ {m.ticket} : ticket'[s] = ticket[s]
        /\ pool[1] >= lottery.ticketPrice
        /\ pool' = [pool EXCEPT ![m.pool] = @ - lottery.ticketPrice]
        /\ UNCHANGED <<lottery, nft>>
    BY <1>1, <1>5, RefundEffect DEF OthersKept, Refund
  <2>2. pool'[1] = pool[1] - lottery.ticketPrice
    BY <1>1, <2>1
  <2>3. /\ EntryOf(m.ticket) = "lost" /\ EntryOf(m.ticket)' = "settled"
        /\ \A s \in Tickets \ {m.ticket} : EntryOf(s)' = EntryOf(s)
    BY <2>1 DEF EntryOf
  <2>4. [t \in Tickets |-> EntryOf(t)]'
          = [[t \in Tickets |-> EntryOf(t)] EXCEPT ![m.ticket] = "settled"]
    BY <2>1, <2>3
  <2>5. QED
    BY <2>1, <2>2, <2>3, <2>4 DEF Ledger!Refund
<1>6. ASSUME NEW m \in sent, Award(m)
      PROVE  Ledger!Award(m.ticket)
  <2>1. /\ m.ticket \in Tickets /\ m.nft \in NftNumbers /\ m.user \in Users
        /\ ticket[m.ticket].state = "Winned"
        /\ ticket[m.ticket].winnedNftNumber = m.nft
        /\ ticket'[m.ticket].state = "Claimed"
        /\ ticket'[m.ticket].winnedNftNumber = m.nft
        /\ \A s \in Tickets \ {m.ticket} : ticket'[s] = ticket[s]
        /\ nft[m.nft].holder = "pool" /\ nft'[m.nft].holder = m.user
        /\ \A k \in NftNumbers \ {m.nft} : nft'[k] = nft[k]
        /\ UNCHANGED <<lottery, pool>>
    BY <1>1, <1>6, AwardEffect
  <2>2. m.nft \notin awarded /\ awarded' = awarded \cup {m.nft}
    BY <2>1, ProgramAssumption
  <2>3. /\ EntryOf(m.ticket) = "won" /\ EntryOf(m.ticket)' = "settled"
        /\ \A s \in Tickets \ {m.ticket} : EntryOf(s)' = EntryOf(s)
    BY <2>1 DEF EntryOf
  <2>4. [t \in Tickets |-> EntryOf(t)]'
          = [[t \in Tickets |-> EntryOf(t)] EXCEPT ![m.ticket] = "settled"]
    BY <2>1, <2>3
  <2>5. QED
    BY <2>1, <2>2, <2>3, <2>4 DEF Ledger!Award
<1>7. CASE \E m \in sent : \E num \in LotterNums : Sale(m, num)
  BY <1>1, <1>4, <1>7, RightTicket DEF Ledger!Next, Core
<1>8. QED
  BY <1>1, <1>2, <1>3, <1>5, <1>6, <1>7, StepCases, RightTicket
  DEF Ledger!Next, Core

(* The program, the store and the pages together implement the ledger:     *)
(* tickets are bought at one price and settled once, by the refund or by   *)
(* the prize, and no two tickets are promised the same prize.              *)
THEOREM ImplementsTheLedger ==
  ASSUME MaxCreations = 1
  PROVE  Spec => ImplementsLedger
<1>1. Init => Ledger!Init
  BY LedgerInit
<1>2. IInv /\ [Next]_vars => [Ledger!Next]_(Ledger!ledgerVars)
  BY LedgerNext
<1>3. QED
  BY <1>1, <1>2, Inductive, PTL DEF Spec, ImplementsLedger, Ledger!Spec

-----------------------------------------------------------------------------
(* Between two creations the lottery only moves forward: its state never   *)
(* steps back, tickets are counted while it is started, and the price they *)
(* are sold at does not change.                                            *)
THEOREM LotteryMovesForward == Spec => ForwardOnly
<1> DEFINE Forward ==
      \/ lottery'.tokenPool > lottery.tokenPool
      \/ /\ StateRank(lottery.state) <= StateRank(lottery'.state)
         /\ lottery.soldAmount # lottery'.soldAmount =>
              lottery.state = "Started" /\ lottery'.state = "Started"
         /\ lottery'.soldAmount >= lottery.soldAmount
         /\ lottery'.ticketPrice = lottery.ticketPrice
<1>1. ASSUME TypeOK, [Next]_vars PROVE [Forward]_vars
  <2>1. /\ lottery.soldAmount \in Nat /\ lottery.tokenPool \in Nat
        /\ StateRank(lottery.state) \in 0..3
    BY <1>1 DEF TypeOK, LotteryStates, StateRank
  <2>2. ASSUME UNCHANGED lottery PROVE Forward
    BY <2>1, <2>2
  <2>3. ASSUME NEW a \in Authorities, NEW args \in CreateArgs, Create(a, args)
        PROVE  Forward
    BY <2>1, <2>3 DEF Create, CreateLottery
  <2>4. ASSUME Start \/ \E u \in Users : End(u) \/ \E v \in Users : HandOver(u, v)
        PROVE  Forward
    <3>1. /\ lottery'.tokenPool = lottery.tokenPool
          /\ lottery'.soldAmount = lottery.soldAmount
          /\ lottery'.ticketPrice = lottery.ticketPrice
          /\ \/ lottery'.state = lottery.state
             \/ lottery.state = "Created" /\ lottery'.state = "Started"
             \/ /\ lottery.state \in {"Created", "Started"}
                /\ lottery'.state = "Ended"
      BY <1>1, <2>4
      DEF Start, StartLottery, End, EndLottery, HandOver, SetAuthority, TypeOK
    <3>2. /\ StateRank("Created") = 1 /\ StateRank("Started") = 2
          /\ StateRank("Ended") = 3
      BY DEF StateRank
    <3>3. StateRank(lottery.state) <= StateRank(lottery'.state)
      BY <2>1, <3>1, <3>2
    <3>4. QED
      BY <2>1, <3>1, <3>3
  <2>5. ASSUME NEW m \in sent, DeliverGetTicket(m) PROVE Forward
    BY <1>1, <2>1, <2>5
    DEF DeliverGetTicket, GetTicket, SoldAfter, TypeOK, StateRank
  <2>6. QED
    BY <1>1, <2>2, <2>3, <2>4, <2>5
    DEF Next, LoadLottery, MintNft, PressGetTicket, PressClaimToken,
        PressClaimNft, Tick, DeliverClaimToken, ClaimToken, DeliverClaimNft,
        ClaimNft, Expire, programVars, vars
<1>2. QED
  BY <1>1, TypeCorrect, PTL DEF Spec, ForwardOnly

=============================================================================
