--------------------------- MODULE LotteryProgram ---------------------------
(***************************************************************************)
(* The on-chain lottery program, rust/lottery-nft/program: the accounts it *)
(* reads and writes and one operator per instruction.  The lottery account *)
(* of a store is a single address derived from the store, so there is one  *)
(* lottery record; every CreateLottery brings a pool account of its own.   *)
(*                                                                         *)
(* An instruction that returns an error leaves every account as it was     *)
(* (the runtime rolls the transaction back), so the early returns of the   *)
(* handlers are guards here.  Who sends which instruction, and when, is    *)
(* the business of module Raffle.                                          *)
(***************************************************************************)
EXTENDS Integers, FiniteSets

CONSTANTS
  Users,         \* wallets that sign transactions
  DataAccounts,  \* the wallets whose account holds data (see SetAuthority)
  Tickets,       \* ticket key pairs; a buyer generates a fresh one per ticket
  CreateArgs,    \* the settings a creator may choose
  MaxCreations,  \* bound: how often the lottery of this store is created
  MaxNfts,       \* bound: how many NFTs are minted into the store
  MaxTime,       \* bound on the clock
  NoOne          \* the owner of an account that does not exist yet

Settings == [endLotteryAt : Nat, ticketPrice : Nat \ {0},
             ticketAmount : Nat \ {0}, nftAmount : Nat]

(***************************************************************************)
(* The form that creates a lottery (views/lotteryNFT) sends nothing when   *)
(* the end date, the price or the number of tickets is zero.               *)
(***************************************************************************)
ASSUME ProgramAssumption ==
  /\ DataAccounts \subseteq Users
  /\ {NoOne, "nobody", "pool", "lottery"} \cap Users = {}
  /\ CreateArgs \subseteq Settings
  /\ MaxCreations \in Nat \ {0}
  /\ MaxNfts \in Nat
  /\ MaxTime \in Nat
  /\ IsFiniteSet(Tickets)

VARIABLES
  now,      \* the clock sysvar
  lottery,  \* LotteryData
  ticket,   \* Ticket accounts, by ticket key
  pool,     \* SPL balance of each pool account
  nft,      \* the store's NFTs, by nft_number
  receipt   \* history: what a ticket's buyer paid, got back, and when it drew

programVars == <<now, lottery, ticket, pool, nft, receipt>>

Pools == 1..MaxCreations
NftNumbers == 1..MaxNfts
LotteryStates == {"Absent", "Created", "Started", "Ended"}
TicketStates == {"Empty", "Winned", "NotWinned", "Claimed"}

NoLottery ==
  [state |-> "Absent", authority |-> NoOne, tokenPool |-> 0, endedAt |-> 0,
   endLotteryAt |-> 0, ticketPrice |-> 0, ticketAmount |-> 0, nftAmount |-> 0,
   soldAmount |-> 0]

EmptyTicket == [owner |-> NoOne, state |-> "Empty", winnedNftNumber |-> 0]
NoReceipt == [paid |-> 0, refunded |-> 0, round |-> 0]
Unminted == [holder |-> "nobody", existNft |-> 0]

ProgramInit ==
  /\ now = 0
  /\ lottery = NoLottery
  /\ ticket = [t \in Tickets |-> EmptyTicket]
  /\ pool = [p \in Pools |-> 0]
  /\ nft = [k \in NftNumbers |-> Unminted]
  /\ receipt = [t \in Tickets |-> NoReceipt]

-----------------------------------------------------------------------------
(* The lottery's life cycle *)

(***************************************************************************)
(* The account is allocated when it is empty and then written in full,     *)
(* whether or not it already held a lottery.  makeLottery generates the    *)
(* key of the pool account, so each creation has the next fresh pool.  The *)
(* program takes any account as the authority and asks for no signature of *)
(* it: the web client names the lottery's own address (LotteryKey), which  *)
(* never signs anything; another client may name a wallet.                 *)
(***************************************************************************)
LotteryKey == "lottery"
Authorities == Users \cup {LotteryKey}

CreateLottery(authority, args) ==
  /\ lottery.tokenPool < MaxCreations
  /\ lottery' = [state |-> "Created", authority |-> authority,
                 tokenPool |-> lottery.tokenPool + 1, endedAt |-> 0,
                 endLotteryAt |-> args.endLotteryAt,
                 ticketPrice |-> args.ticketPrice,
                 ticketAmount |-> args.ticketAmount,
                 nftAmount |-> args.nftAmount, soldAmount |-> 0]
  /\ UNCHANGED <<now, ticket, pool, nft, receipt>>

(* Faulty variant: the transition check is dropped, Ended restarts. *)
StartLotteryAgain ==
  /\ now <= lottery.endLotteryAt
  /\ lottery.state # "Absent"
  /\ lottery' = [lottery EXCEPT !.state = "Started"]
  /\ UNCHANGED <<now, ticket, pool, nft, receipt>>

StartLottery ==
  /\ now <= lottery.endLotteryAt
  /\ lottery.state = "Created"
  /\ lottery' = [lottery EXCEPT !.state = "Started"]
  /\ UNCHANGED <<now, ticket, pool, nft, receipt>>

(* The authority signs, so only a wallet ends a lottery.                   *)
EndLottery(u) ==
  /\ lottery.state \in {"Created", "Started"}
  /\ u = lottery.authority
  /\ lottery' = [lottery EXCEPT !.state = "Ended", !.endedAt = now]
  /\ UNCHANGED <<now, ticket, pool, nft, receipt>>

(* An ordinary wallet is an account without data and cannot take over. *)
SetAuthority(u, v) ==
  /\ lottery.state # "Absent"
  /\ u = lottery.authority
  /\ v \in DataAccounts
  /\ lottery' = [lottery EXCEPT !.authority = v]
  /\ UNCHANGED <<now, ticket, pool, nft, receipt>>

-----------------------------------------------------------------------------
(* Tickets *)

(* The number a ticket draws lies in 1..ticketAmount; the hash of the      *)
(* ticket key and the clock decide which.                                  *)
LotterNums == 1..lottery.ticketAmount

Wins(num) == num <= lottery.nftAmount /\ lottery.soldAmount < lottery.nftAmount

(* carryout_lotter counts the winning ticket once before its number is     *)
(* read; get_ticket counts every ticket again.                             *)
CarryoutLotter(num) == IF Wins(num) THEN lottery.soldAmount + 1 ELSE 0

(* Faulty variant: only losing tickets are counted. *)
SoldAfterLosersOnly(num) == lottery.soldAmount + (IF Wins(num) THEN 0 ELSE 1)

SoldAfter(num) == lottery.soldAmount + (IF Wins(num) THEN 2 ELSE 1)

(* Faulty variant: ExceedTiketAmount is not checked. *)
GetTicketUnlimited(u, t, p, num) ==
  /\ lottery.state = "Started"
  /\ pool' = [pool EXCEPT ![p] = @ + lottery.ticketPrice]
  /\ ticket' = [ticket EXCEPT ![t] =
       [owner |-> u, winnedNftNumber |-> CarryoutLotter(num),
        state |-> IF Wins(num) THEN "Winned" ELSE "NotWinned"]]
  /\ lottery' = [lottery EXCEPT !.soldAmount = SoldAfter(num)]
  /\ receipt' = [receipt EXCEPT ![t] =
       [paid |-> @.paid + lottery.ticketPrice, refunded |-> @.refunded,
        round |-> lottery.tokenPool]]
  /\ UNCHANGED <<now, nft>>

GetTicket(u, t, p, num) ==
  /\ lottery.soldAmount < lottery.ticketAmount
  /\ lottery.state = "Started"
  /\ pool' = [pool EXCEPT ![p] = @ + lottery.ticketPrice]
  /\ IF ticket[t].state = "Empty"
     THEN ticket' = [ticket EXCEPT ![t] =
            [owner |-> u, winnedNftNumber |-> CarryoutLotter(num),
             state |-> IF Wins(num) THEN "Winned" ELSE "NotWinned"]]
     ELSE UNCHANGED ticket
  /\ lottery' = [lottery EXCEPT !.soldAmount = SoldAfter(num)]
  /\ receipt' = [receipt EXCEPT ![t] =
       [paid |-> @.paid + lottery.ticketPrice, refunded |-> @.refunded,
        round |-> lottery.tokenPool]]
  /\ UNCHANGED <<now, nft>>

(* Faulty variant: AlreadyClaimed is not checked. *)
ClaimableAgain(t) == ticket[t].state # "Empty"

(* Faulty variant: a winning ticket has no transition to Claimed. *)
ClaimableLosers(t) == ticket[t].state = "NotWinned"

(* TicketState::claim, behind the AlreadyClaimed check. *)
Claimable(t) == ticket[t].state \in {"Winned", "NotWinned"}

Claimed(t) == [ticket EXCEPT ![t].state = "Claimed"]

(* Faulty variant: the pool may be overdrawn. *)
ClaimTokenUnchecked(t, p) ==
  /\ lottery.state # "Absent"
  /\ Claimable(t)
  /\ pool' = [pool EXCEPT ![p] = @ - lottery.ticketPrice]
  /\ ticket' = Claimed(t)
  /\ receipt' = [receipt EXCEPT ![t].refunded = @ + lottery.ticketPrice]
  /\ UNCHANGED <<now, lottery, nft>>

(* The refund is the price the lottery has now; the transfer fails when    *)
(* the pool account holds less.                                            *)
ClaimToken(t, p) ==
  /\ lottery.state # "Absent"
  /\ Claimable(t)
  /\ pool[p] >= lottery.ticketPrice
  /\ pool' = [pool EXCEPT ![p] = @ - lottery.ticketPrice]
  /\ ticket' = Claimed(t)
  /\ receipt' = [receipt EXCEPT ![t].refunded = @ + lottery.ticketPrice]
  /\ UNCHANGED <<now, lottery, nft>>

(* The NFT leaves its pool account; the transfer fails when it has left.   *)
(* The exist_nft flag of the store is not written.                         *)
ClaimNft(u, t, k) ==
  /\ lottery.state # "Absent"
  /\ Claimable(t)
  /\ nft[k].holder = "pool"
  /\ nft' = [nft EXCEPT ![k].holder = u]
  /\ ticket' = Claimed(t)
  /\ UNCHANGED <<now, lottery, pool, receipt>>

=============================================================================
