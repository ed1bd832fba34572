------------------------------- MODULE Raffle -------------------------------
(***************************************************************************)
(* The raffle as its users run it: the lottery program (LotteryProgram),   *)
(* the store that holds the prizes, and the web client that sends the      *)
(* program its instructions.                                               *)
(*                                                                         *)
(* A page decodes the lottery account once and keeps the copy: what it     *)
(* shows, and the accounts and amounts it puts into a transaction, come    *)
(* from that copy.  A transaction lands later, or never; a button pressed  *)
(* twice makes two transactions for the same ticket.                       *)
(***************************************************************************)
EXTENDS LotteryProgram

VARIABLES
  view,  \* the copy of the lottery account in each user's page
  sent   \* transactions on their way to the chain

vars == <<now, lottery, ticket, pool, nft, receipt, view, sent>>

(* The fields of a decoded lottery that the pages use. *)
Decoded(l) == [state |-> l.state, endLotteryAt |-> l.endLotteryAt,
               ticketPrice |-> l.ticketPrice, tokenPool |-> l.tokenPool]

Messages ==
  [type : {"GetTicket"}, user : Users, ticket : Tickets, pool : Pools,
   wrapped : Nat]
    \cup [type : {"ClaimToken"}, user : Users, ticket : Tickets, pool : Pools]
    \cup [type : {"ClaimNft"}, user : Users, ticket : Tickets, nft : NftNumbers]

Init ==
  /\ ProgramInit
  /\ view = [u \in Users |-> Decoded(NoLottery)]
  /\ sent = {}

-----------------------------------------------------------------------------
(* The creator.  End and HandOver are for lotteries whose authority is a   *)
(* wallet: no page sends either, and they would be refused for a lottery   *)
(* the page makeLottery created.                                           *)

Create(authority, args) ==
  CreateLottery(authority, args) /\ UNCHANGED <<view, sent>>
Start == StartLottery /\ UNCHANGED <<view, sent>>
End(u) == EndLottery(u) /\ UNCHANGED <<view, sent>>
HandOver(u, v) == SetAuthority(u, v) /\ UNCHANGED <<view, sent>>

(* The store numbers the NFTs it mints one after the other. *)
NextNumber(k) == nft[k] = Unminted /\ \A j \in 1..(k - 1) : nft[j] # Unminted

(***************************************************************************)
(* One mintNFTStore transaction: a token account that the lottery owns     *)
(* receives the NFT, and the store's mint_nft gives it the next number.    *)
(* The upload that follows only changes where the NFT's picture is.        *)
(***************************************************************************)
MintNft ==
  \E k \in NftNumbers :
    /\ NextNumber(k)
    /\ nft' = [nft EXCEPT ![k] = [holder |-> "pool", existNft |-> 1]]
    /\ UNCHANGED <<now, lottery, ticket, pool, receipt, view, sent>>

-----------------------------------------------------------------------------
(* What a page puts into its instruction: every other account of the       *)
(* instruction follows from these.                                         *)

GetTicketMessage(u, t) ==
  [type |-> "GetTicket", user |-> u, ticket |-> t,
   pool |-> view[u].tokenPool, wrapped |-> view[u].ticketPrice]

ClaimTokenMessage(u, t) ==
  [type |-> "ClaimToken", user |-> u, ticket |-> t, pool |-> view[u].tokenPool]

ClaimNftMessage(u, t, k) ==
  [type |-> "ClaimNft", user |-> u, ticket |-> t, nft |-> k]

-----------------------------------------------------------------------------
(* The pages of a buyer *)

LoadLottery(u) ==
  /\ lottery.state # "Absent"
  /\ view' = [view EXCEPT ![u] = Decoded(lottery)]
  /\ UNCHANGED <<programVars, sent>>

(* The ticket page offers the button in every state but Created. *)
CanBuy(u) == view[u].state \in {"Started", "Ended"}

(* Faulty variant: only the state on the chain counts. *)
ShownEndedByState(u) == view[u].state = "Ended"

(* The claim page calls a lottery ended once its end date is past, even    *)
(* when the chain still says Started.                                      *)
ShownEnded(u) ==
  /\ view[u].state # "Absent"
  /\ view[u].endLotteryAt < now \/ view[u].state = "Ended"

FreshKey(t) == ticket[t].state = "Empty" /\ \A m \in sent : m.ticket # t

(* The buyer wraps the price the page knows. *)
PressGetTicket(u, t) ==
  /\ CanBuy(u)
  /\ FreshKey(t)
  /\ sent' = sent \cup {GetTicketMessage(u, t)}
  /\ UNCHANGED <<programVars, view>>

PressClaimToken(u, t) ==
  /\ ShownEnded(u)
  /\ ticket[t].owner = u /\ ticket[t].state = "NotWinned"
  /\ sent' = sent \cup {ClaimTokenMessage(u, t)}
  /\ UNCHANGED <<programVars, view>>

(* Faulty variant: any NFT of the store that is still there will do. *)
PressClaimAnyNft(u, t) ==
  /\ ShownEnded(u)
  /\ ticket[t].owner = u /\ ticket[t].state = "Winned"
  /\ \E k \in NftNumbers :
       /\ nft[k].holder = "pool"
       /\ sent' = sent \cup {ClaimNftMessage(u, t, k)}
  /\ UNCHANGED <<programVars, view>>

(* The page looks the NFT up by its number among the store's NFTs. *)
PressClaimNft(u, t) ==
  /\ ShownEnded(u)
  /\ ticket[t].owner = u /\ ticket[t].state = "Winned"
  /\ ticket[t].winnedNftNumber \in NftNumbers
  /\ nft[ticket[t].winnedNftNumber] # Unminted
  /\ sent' = sent \cup {ClaimNftMessage(u, t, ticket[t].winnedNftNumber)}
  /\ UNCHANGED <<programVars, view>>

-----------------------------------------------------------------------------
(* The chain *)

Tick ==
  /\ now < MaxTime
  /\ now' = now + 1
  /\ UNCHANGED <<lottery, ticket, pool, nft, receipt, view, sent>>

(* A signature lands at most once, and a ticket key signs one transaction. *)
DeliverGetTicket(m) ==
  /\ m \in sent /\ m.type = "GetTicket"
  /\ m.wrapped >= lottery.ticketPrice
  /\ \E num \in LotterNums : GetTicket(m.user, m.ticket, m.pool, num)
  /\ sent' = sent \ {m}
  /\ UNCHANGED view

(* After a claim lands, the transaction of a second press may remain. *)
Landed(m) == sent' \in {sent, sent \ {m}}

DeliverClaimToken(m) ==
  /\ m \in sent /\ m.type = "ClaimToken"
  /\ ClaimToken(m.ticket, m.pool)
  /\ Landed(m)
  /\ UNCHANGED view

DeliverClaimNft(m) ==
  /\ m \in sent /\ m.type = "ClaimNft"
  /\ ClaimNft(m.user, m.ticket, m.nft)
  /\ Landed(m)
  /\ UNCHANGED view

(* Its blockhash expires, or the program refuses it. *)
Expire(m) ==
  /\ m \in sent
  /\ sent' = sent \ {m}
  /\ UNCHANGED <<programVars, view>>

Next ==
  \/ \E a \in Authorities, args \in CreateArgs : Create(a, args)
  \/ Start
  \/ \E u \in Users : End(u) \/ LoadLottery(u)
  \/ \E u, v \in Users : HandOver(u, v)
  \/ MintNft
  \/ \E u \in Users, t \in Tickets :
       PressGetTicket(u, t) \/ PressClaimToken(u, t) \/ PressClaimNft(u, t)
  \/ Tick
  \/ \E m \in sent :
       DeliverGetTicket(m) \/ DeliverClaimToken(m) \/ DeliverClaimNft(m)
                           \/ Expire(m)

Spec == Init /\ [][Next]_vars

(***************************************************************************)
(* The clock runs, and a buyer with something to claim keeps reloading the *)
(* page and pressing the button.  A transaction is rebroadcast every half  *)
(* second while it is pending, so one that is sent again and again lands.  *)
(* Nothing obliges the creator to start or to end the lottery.             *)
(***************************************************************************)
Fairness ==
  /\ WF_vars(Tick)
  /\ \A u \in Users : WF_vars(LoadLottery(u))
  /\ \A u \in Users, t \in Tickets :
       WF_vars(PressClaimToken(u, t) \/ PressClaimNft(u, t))
  /\ \A t \in Tickets :
       /\ SF_vars(\E m \in sent : m.ticket = t /\ DeliverClaimToken(m))
       /\ SF_vars(\E m \in sent : m.ticket = t /\ DeliverClaimNft(m))

FairSpec == Spec /\ Fairness

-----------------------------------------------------------------------------
(* What the raffle promises *)

TypeOK ==
  /\ now \in 0..MaxTime
  /\ lottery \in [state : LotteryStates, authority : Authorities \cup {NoOne},
                  tokenPool : 0..MaxCreations, endedAt : 0..MaxTime,
                  endLotteryAt : Nat, ticketPrice : Nat, ticketAmount : Nat,
                  nftAmount : Nat, soldAmount : Nat]
  /\ ticket \in [Tickets -> [owner : Users \cup {NoOne},
                             state : TicketStates, winnedNftNumber : Nat]]
  /\ pool \in [Pools -> Nat]
  /\ nft \in [NftNumbers -> [holder : Users \cup {"nobody", "pool"},
                             existNft : {0, 1}]]
  /\ receipt \in [Tickets -> [paid : Nat, refunded : Nat,
                              round : 0..MaxCreations]]
  /\ view \in [Users -> [state : LotteryStates, endLotteryAt : Nat,
                         ticketPrice : Nat, tokenPool : 0..MaxCreations]]
  /\ sent \subseteq Messages

Sold(r) == {t \in Tickets : receipt[t].round = r /\ ticket[t].state # "Empty"}
Winners(r) == {t \in Sold(r) : ticket[t].winnedNftNumber > 0}

(* get_ticket hands out winning numbers by bumping sold_amount: in one     *)
(* creation of the lottery no two tickets ever hold the same number.       *)
WinningNumbersDistinct ==
  \A r \in Pools : \A s, t \in Winners(r) :
    s # t => ticket[s].winnedNftNumber # ticket[t].winnedNftNumber

(* A creation never sells more tickets than ticket_amount announced, and   *)
(* draws no number beyond the NFTs announced: get_ticket's limit is kept   *)
(* although its counter, which a winner raises twice, may pass the limit.  *)
(* (The converse fails: the counter is not the number of tickets sold, so  *)
(* a lottery with winners may stop selling below ticket_amount.)           *)
NeverOversold ==
  /\ Cardinality(Sold(lottery.tokenPool)) <= lottery.ticketAmount
  /\ \A t \in Winners(lottery.tokenPool) :
       ticket[t].winnedNftNumber <= lottery.nftAmount

OnlyCreation == lottery.tokenPool = 1

Unrefunded == {t \in Tickets : receipt[t].paid > 0 /\ receipt[t].refunded = 0}

(* While the lottery has been created once, its pool holds the price of    *)
(* every ticket not yet refunded, so no refund can find the pool short,    *)
(* and claim_token pays back exactly what get_ticket took.                 *)
PoolCoversRefunds ==
  OnlyCreation =>
    pool[1] = lottery.ticketPrice * Cardinality(Unrefunded)

RefundIsDeposit ==
  OnlyCreation => \A t \in Tickets : receipt[t].refunded \in {0, receipt[t].paid}

(* A minted NFT that a ticket has won and not yet claimed is still in its  *)
(* pool account, so that claim_nft cannot fail for it.                     *)
PrizeReserved ==
  OnlyCreation =>
    \A t \in Tickets : \A k \in NftNumbers :
      (ticket[t].state = "Winned" /\ ticket[t].winnedNftNumber = k)
        => nft[k].holder \in {"nobody", "pool"}

(* Every NFT that left its pool went to the owner of a claimed ticket that *)
(* drew its number, and that ticket was not refunded as well.              *)
WentToWinner(k) ==
  \E t \in Tickets :
    /\ ticket[t].winnedNftNumber = k
    /\ ticket[t].state = "Claimed" /\ ticket[t].owner = nft[k].holder
    /\ receipt[t].refunded = 0

PrizesWentToWinners ==
  \A k \in NftNumbers : nft[k].holder \in Users => WentToWinner(k)

(* A claimed ticket is settled: whatever transactions still arrive for it, *)
(* it is never paid again; and no step rewrites the result of a ticket.    *)
SettledOnce ==
  [][\A t \in Tickets :
       /\ ticket[t].state = "Claimed" =>
            UNCHANGED <<ticket[t], receipt[t]>>
       /\ ticket[t].state # "Empty" =>
            /\ ticket'[t].winnedNftNumber = ticket[t].winnedNftNumber
            /\ ticket'[t].owner = ticket[t].owner]_vars

(* A creation of the lottery only moves forward, and the settings tickets  *)
(* are sold under do not change until the lottery is created again.        *)
StateRank(s) ==
  CASE s = "Absent" -> 0 [] s = "Created" -> 1 [] s = "Started" -> 2
    [] s = "Ended" -> 3

ForwardOnly ==
  [][\/ lottery'.tokenPool > lottery.tokenPool
     \/ /\ StateRank(lottery.state) <= StateRank(lottery'.state)
        /\ lottery.soldAmount # lottery'.soldAmount =>
             lottery.state = "Started" /\ lottery'.state = "Started"
        /\ lottery'.soldAmount >= lottery.soldAmount
        /\ lottery'.ticketPrice = lottery.ticketPrice]_vars

(* In a lottery created once, a losing ticket is refunded and a winner of  *)
(* a minted NFT receives it, whether or not anyone ends the lottery.       *)
LosersRefunded ==
  \A t \in Tickets :
    ticket[t].state = "NotWinned" ~> receipt[t].refunded > 0

WinnersPaid ==
  \A t \in Tickets, k \in NftNumbers :
    (ticket[t].winnedNftNumber = k /\ nft[k].holder # "nobody")
      ~> nft[k].holder \in Users

(* The abstract raffle, which a lottery created once implements. *)
EntryOf(t) ==
  CASE ticket[t].state = "Empty" -> "unsold"
    [] ticket[t].state = "Winned" -> "won"
    [] ticket[t].state = "NotWinned" -> "lost"
    [] ticket[t].state = "Claimed" -> "settled"

Ledger == INSTANCE RaffleLedger WITH
  Prices <- {args.ticketPrice : args \in CreateArgs},
  Numbers <- UNION {0..args.nftAmount : args \in CreateArgs},
  price <- lottery.ticketPrice,
  entry <- [t \in Tickets |-> EntryOf(t)],
  prize <- [t \in Tickets |-> ticket[t].winnedNftNumber],
  escrow <- pool[1],
  awarded <- {k \in NftNumbers : nft[k].holder \in Users}

ImplementsLedger == Ledger!Spec

=============================================================================
