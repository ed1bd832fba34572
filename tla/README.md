# NFT launchpad: TLA+ models, checks and proofs

The repository is a Solana launchpad for NFTs: a raffle of its own, and the
auctions, vaults, editions and candy machine it is built on. This directory
models the programs and pages that carry state which several parties change, or
one party over several transactions.

| part | code | modules | checked by | proved in |
|---|---|---|---|---|
| raffle: lottery program, store, pages | `src/rust/lottery-nft`, `src/rust/lottery-store`, `packages/web` | `LotteryProgram`, `Raffle`, `RaffleLedger` | `MCRaffle` | `RaffleProofs` |
| auction program | `src/rust/auction` | `Auction` | `MCAuction` | `AuctionProofs` |
| candy machine, and the command line that fills it | `src/rust/nft-candy-machine`, `packages/cli` | `CandyMachine`, `CandyUpload` | `MCCandy` | `CandyProofs` |
| transaction sender, long jobs | `packages/common/src/contexts/connection.tsx`, `settle.ts`, `convertMasterEditions.ts`, `mintEditionsIntoWallet.ts` | `Batches`, `TxSender` | `MCSender` | `CommonProofs` |
| setting up a sale: vault, manager, page | `src/rust/token-vault`, `src/rust/metaplex`, `createAuctionManager.ts`, `unwindVault.ts`, ... | `Passes`, `SaleChain`, `SaleSetup` | `MCSale` | `SaleProofs` |
| settling a sale: manager, metadata, pages | `src/rust/metaplex`, `sendRedeemBid.ts`, `claimUnusedPrizes.ts`, ... | `Passes`, `PrizeChain`, `Settlement` | `MCSettlement` | `SettlementProofs` |
| describing a sale | `views/auctionCreate/index.tsx` | `TierTable`, `SaleWizard` | `MCWizard` | `SaleProofs` |
| making an artwork and its prints | `src/rust/token-metadata`, `views/artCreate/index.tsx`, `nft.tsx`, `ArtMinting` | `TokenMetadata`, `ArtCreate` | `MCArt` | `ArtProofs` |
| cache of the wallet's token accounts | `packages/common/src/contexts/accounts.tsx` | `AccountCache` | `MCCache` | `CommonProofs` |

(`packages` is `src/js-binding/packages`.) To parse, check and prove: `tlasany M.tla`,
`tlc -config X.cfg M`, `tlapm XProofs.tla`. `PROJECT.json` lists every run with
its properties, the source lines of every definition, a mutation for every
property, the findings, the theorems, and the hazards the properties are aimed at; the
note of a hazard says which part of it the properties leave out.
`Recursion` has the lemmas about induction and recursion that the proof modules share. Operators
that stand for a function of the code have its name. An operator called a "faulty
variant", or "a mutation of the next one", is a plausible bug kept beside the right
definition; no specification uses it.

## 1. Inventory

An on-chain program is a function from accounts to accounts. The runtime runs
one transaction at a time on an account and undoes a transaction that fails, so
inside a program there is no concurrency. The hard behaviour is in what lies
between transactions: the clock moves, a page or a cache file holds a copy that
has gone stale, a transaction lands late, twice (as two transactions for one
intention) or never, and a process stops halfway.

**Lottery program** (`rust/lottery-nft/program`). State: one lottery account for
each store (settings, state, `sold_amount`, the pool it pays into), a ticket
account for each ticket key, the pool token accounts. Operations: CreateLottery,
StartLottery, EndLottery, SetAuthority, GetTicket, ClaimToken, ClaimNFT.
GetTicket draws the result at the moment of sale. Hard: the number a winner gets
comes out of the same counter that bounds the sales, and the counter is raised
in two places, so it is not the number of tickets sold; a lottery account can be created again over itself; nothing ties
the end of the lottery to the clock. Correct when winning numbers are distinct
and name announced NFTs, no more tickets are sold than announced, every loser gets the deposit back once, every winner
gets the NFT drawn, and the pool can always pay.

**Lottery store program** (`rust/lottery-store/program`). State: the store and
the NFTs minted into it, numbered in order. The lottery does not read it; the
page does, to find the NFT for a number.

**Raffle pages** (`packages/web/src/views/{lotteryNFT,getTicket,claim}`,
`actions/`). State: the lottery account as it was when the page was loaded.
Hard: the buttons shown, the amount wrapped and the accounts put into the
transaction come from that copy.

**Auction program** (`rust/auction/program`). State: the auction account with its
sorted list of bids, the extended account with the tick sizes and the count of
bids, a metadata account and a pot for each bidder. Operations: CreateAuction,
StartAuction, EndAuction, SetAuthority, PlaceBid, CancelBid, ClaimBid. Hard: an
auction ends by the clock without an instruction, the last bid may move the end,
and the recorded state says Started meanwhile; the list, the metadata, the pot
and the count are separate records of one bid. Correct when the list, the pots
and the count agree, the winners are fixed at the end, and every pot is emptied
to its bidder or, for a winner, to the authority.

**Candy machine program** (`rust/nft-candy-machine`). State: the config account
(lines, bit mask, count), the machine (items available and redeemed, start
date). Operations: InitializeConfig, AddConfigLines, InitializeCandyMachine,
UpdateCandyMachine, MintNft. Hard: lines are overwritten, repeated and may be
left blank; the machine trusts the count.

**Candy machine command line** (`packages/cli`). State: a cache file that
outlives the process. Operations: upload, verify, create_candy_machine,
set_start_date, mint_one_token (also sign, sign_all). Hard: images fail one by
one, slices of lines are written side by side, a transaction is given up and
lands later, the process stops anywhere, and the next pass trusts the cache.

**Token vault program** (`rust/token-vault/program`). State: the vault (inactive,
active, combined, deactivated), its safety deposit boxes, their stores. Hard: a
vault is filled and emptied by many transactions, and each checks only its own
step. Correct when a box is emptied once, by whoever has authority.

**Auction manager program** (`rust/metaplex/program`). State: the manager (status,
count of validated boxes), a config for each box, redemption tickets, tracking
tickets of the master editions. Calls the auction, vault and metadata programs.
Hard: what was redeemed is kept in bits whose place depends on the arguments; what
is still owed of a master is guessed from counts. Correct when an auction starts
only on a complete sale, every prize goes once to whoever won it, and a master
comes back when its prints are made and not before.

**Token metadata program** (`rust/token-metadata/program`). State: metadata with its
creators' approvals, master editions, markers of numbered prints, mints. Correct when
no number is printed twice, the supply is respected, and a token of a work is never
joined by another.

**Transaction sender** (`packages/common/src/contexts/connection.tsx`,
`packages/cli/src/helpers/transactions.ts`, and four loops that pack instructions
into transactions). Signs a list, sends one after the other, resends a pending one,
gives up after a timeout, and starts again where it thinks it stopped. Hard: the
outcome of a transaction is known late, wrongly or never.

**Auction manager client** (`packages/web/src/actions`, `components/Notifications`,
`components/AuctionCard`). Builds the lists of transactions that set a sale up, take
it back, start it by hand, and settle it, from accounts read before. Several wallets
and tabs do so at once.

**Sale pages** (`views/auctionCreate`). State: the answers of up to nine pages, the
table of tiers, the step in the URL. Hard: entries hold numbers into a list that
shrinks; the page that publishes comes up like any other.

**Art pages** (`views/artCreate`, `actions/nft.tsx`, `components/ArtMinting`). State:
the answers, the running call of mintNFT, the supply each tab has read. Hard: two
transactions with an upload between them; other creators approve meanwhile.

**Account cache** (`packages/common/src/contexts/accounts.tsx`). State: the cache of
parsed accounts, subscriptions, the list of the connected wallet's accounts. Hard:
snapshots and notifications arrive in any order, also after the wallet changed.

**Store loader, other views, deprecated instructions, landing page, test drivers**:
see `components` in `PROJECT.json` and section 12.

How they interact: the pages and the command line reach the programs by
transactions only, and read accounts; the auction manager calls auction, vault
and metadata; the candy machine calls metadata; lottery and store share nothing
but the NFT numbers that the page translates. In the models, `Raffle`, `CandyUpload`,
`SaleSetup`, `Settlement` and `ArtCreate` compose a client with the part of the chain
it works on (`LotteryProgram`, `CandyMachine`, `SaleChain`, `PrizeChain`,
`TokenMetadata`); `SaleSetup` and `Settlement` send through `Passes`, which is `TxSender`
at one step for each transaction; what `SaleWizard` publishes is what `SaleSetup`
sets up, and `Settlement` starts where the auction of `Auction` is over.

## 2. Order of the work

The modules were written in the order of what matters most to the product and of
dependence: the raffle; the auction; the candy machine; the sender; the set-up and the
settlement of a sale; the pages; the cache. All of them are there. Proofs followed in the
same order. Every invariant and action property that a run checks is now a theorem for
every value of the constants (section 9).

What would come next: first-version prizes (`PrintingV1`) and instant sales in `PrizeChain`;
fractional shares in `SaleChain`.

Modules with proofs hold no RECURSIVE operator; constants have named assumptions;
histories are variables of their own that no guard reads.

## 3. The raffle

### Correspondence

`LotteryProgram` has one operator for each instruction. The lottery account is
derived from the store, so there is one record `lottery`; `tokenPool` is the
number of the pool account that the current creation brought. `ticket`, `pool`
and `nft` are accounts. `receipt` is a history variable that no guard reads: what
the buyer of a ticket paid, got back, and in which creation. The guards are the
error returns; an instruction that fails changes nothing.

`GetTicket` takes the drawn number as a parameter from 1..`ticketAmount`: in the
code it comes from a hash of the ticket key and the clock. `CarryoutLotter` is
the number a winner gets, read between the two increments that `SoldAfter`
counts. `SetAuthority` keeps the code's condition, under which only an account
that holds data can take over (`DataAccounts`).

`CreateLottery` takes any account as the authority, as the program does. The form on the
web (`makeLottery.ts`) names the lottery's own address (`LotteryKey`), which signs nothing,
so the buttons that end such a lottery or hand it over fail; `End` and `HandOver` fire for
a lottery that another client created with a wallet as its authority.

`Raffle` adds `view`, what the page of each user decoded when it was loaded, and
`sent`, the transactions on their way. Pressing a button puts a transaction into
`sent` with the accounts and amounts of `view` (`GetTicketMessage`,
`ClaimTokenMessage`, `ClaimNftMessage`); delivering it runs the
instruction on the chain as it is then. A buy is signed by the fresh key of its
ticket and lands once. Of a claim, a second transaction may remain after the
first has landed (the button pressed twice), and any transaction may expire.
`ShownEnded` is the page's own idea of an ended lottery: by state, or by its end
date, which the chain never looks at. `MintNft` puts a prize into the store under the
next number (`NextNumber`).

Left out: SOL and rent, the accounts created on the way, account validation that
is the same for everyone, the number of decimals of the price. A claim of a
losing ticket by someone other than its owner is not offered by the page and is
not an action. The pages' own list of tickets is read from the chain when the
button is pressed, since only results that never change are used from it.

### Runs

| run | instance | shows |
|---|---|---|
| `raffle` | two users, two tickets, two creations, one prize minted | all safety properties below |
| `raffle_settles` | one user, three tickets, one creation, two prizes minted, fairness | `LosersRefunded`, `WinnersPaid`, `ImplementsLedger` |

The settings of the instances (`MCCreateArgs`) are three announced prizes with a
counter limit of four, in which both tickets can win (numbers 1 and 3) or either
can lose; and one prize with a limit of one, in which the first winner pushes the
counter past its limit. Two users make one's page stale when the other acts; two
creations make every page, pool and ticket of the first stale; `MaxTime = 1` has
a now at and a now after the end date 0. `MaxNfts` is smaller than the number of
prizes announced, so that a ticket may win an NFT that nobody minted. Ticket keys
are never compared, so they are symmetric; the liveness run uses no symmetry.

- `WinningNumbersDistinct`: winning numbers of one creation.
- `NeverOversold`: a creation sells no more tickets than announced and draws no number
  beyond its NFTs. The counter behind the limit counts a winner twice and may pass the limit;
  the converse, that all announced tickets can be sold, fails for that reason (section 10).
- `PoolCoversRefunds`, `RefundIsDeposit`: in a lottery created once the pool is
  the sum of the deposits not paid back, and a refund is the deposit. They are
  restricted to a lottery created once because they are false otherwise
  (section 10).
- `PrizeReserved`: the prize of an unclaimed winner is still there. Also for a
  lottery created once: numbers start over with each creation.
- `PrizesWentToWinners`: an NFT that left went to a winner of its number, who was
  not refunded as well. This holds for any number of creations.
- `SettledOnce`, `ForwardOnly`: action properties, over all late and repeated
  transactions.
- `LosersRefunded`, `WinnersPaid`: although nobody need end the lottery.
- `ImplementsLedger`: the raffle created once refines `RaffleLedger`, where a sale,
  a refund and an award are single steps with the obvious guards.

Fairness (`Fairness` in `Raffle`): the clock runs; a page with something to claim
is reloaded and its button pressed again (what a holder who wants the money
does); a claim that is sent over and over is delivered in the end, which is
strong fairness because each single transaction may expire. The client resends a
pending transaction every half second (`connection.tsx`). The creator has no
obligation.

### Proofs

`RaffleProofs` proves, for any finite set of tickets and any users, settings,
bounds and number of creations, from `ProgramAssumption` alone:

| theorem | statement |
|---|---|
| `TypeCorrect` | `Spec => []TypeOK` |
| `NumbersUnique` | `Spec => [](WinningNumbersDistinct /\ NumbersInRange)` |
| `NeverOversells` | `Spec => []NeverOversold` |
| `PrizesAwarded` | `Spec => []PrizesWentToWinners` |
| `RefundsCovered`, `RefundsExact`, `PrizesReserved` | the properties of a lottery created once |
| `TicketsSettleOnce`, `LotteryMovesForward` | `Spec => SettledOnce`, `Spec => ForwardOnly` |
| `ImplementsTheLedger` | `MaxCreations = 1 => (Spec => ImplementsLedger)` |

None of the safety properties is inductive. `IInv` joins them with what they rest
on:

- `TypeInv`: types, and that pool numbers known to a page exist;
- `PoolInv`: nothing refers to a pool that is not yet created, and a price is
  positive once there is one;
- `MessageInv`: what may be under way. A buy is the only transaction for its
  ticket, and that ticket is unsold; a claim under way fits the result of its
  ticket. Without it a late claim could pay a ticket of another kind;
- `ReceiptInv`: what the history says in each state of a ticket;
- `DrawInv`: every number drawn in this creation is at most `sold_amount`. This is
  why the next number is new;
- `CounterCounts`: `sold_amount` is the number of tickets plus the number of winners, and
  passes `ticket_amount` by one at most, which is then a winner's. So tickets alone never
  pass it, which `NeverOversold` by itself does not tell of the next sale;
- `DepositInv`: `PoolCoversRefunds` in the form a step preserves, with each receipt
  at the price of the lottery;
- `SettingsInv`: the lottery carries settings somebody chose, for the ledger.

The argument: `StepCases` and `SentCases` sort the actions by what they touch;
`SaleEffect`, `RefundEffect`, `AwardEffect` state once what a sale, a refund and an
award change; one lemma for each conjunct of `IInv` (`PoolStep`, `MessageStep`,
`ReceiptStep`, `DrawStep`, `CountStep`, `PrizeStep`, `DepositStep`, `SettingsStep`)
uses them; cardinalities of the sets of tickets come from `FiniteSetTheorems`.
The refinement maps a sale to `Buy`, a refund to `Refund`, an award to `Award`, the
creation to `Open`, and everything else to a stutter.

Only model-checked: the liveness properties.

## 4. The auction

`Auction` has one action for each instruction, with `LateBid` for the PlaceBid that
arrives after the end, records the end and places nothing. `bids` is the list with
the best bid last, as in the code; `Insert` and `Prune` are the loop of
`BidState::place_bid`. `None` is an unset Option. `claimed` is a history variable:
what the authority took from each pot. `SmallestArray` is the code's 8, so that a
small list is pruned in an instance. A bidder has one pot and one metadata
account. `IsWinner` is the auction program's reading of who wins (for the other one see
section 10).

Left out: the SPL accounts behind the pots (their balance is `pot`), and the name of
the auction.

| run | instance | shows |
|---|---|---|
| `auction` | three bidders, two amounts, four kinds of auction, clock to 3 | the properties below |

The four kinds: a timed auction with a gap that outlasts its end, a gap tick and
room for two bids; two winners over a minimum price with a tick; a blinded price,
ended by hand; an open edition. Three bidders are the fewest that make a list of
two overflow; two amounts make ties and differences; the clock reaches the second
of the end, the second after it, and the second after the gap.

`ListOrdered`, `ListedBidsBacked` and `UncancelledCount` relate the list to the
metadata, the pots and the count. `ClaimsFromWinners` and `WinnersFinal` are about
the end: nobody becomes or ceases to be a winner after it. `PruneSparesWinners`: a
bid leaves the list only by cancelling, or when there are enough bids as good.
`PotsDrain` is liveness: fairness on the clock, on a bidder who asks for money
back after the end, and on the authority collecting; nobody has to bid, start or
end. `ListedBidsBacked` and `UncancelledCount` say nothing once the state is Ended,
because CancelBid then leaves the list and the count alone.

`AuctionProofs` proves all six safety properties for any bidders, amounts, settings and room
for bids:

| theorem | statement |
|---|---|
| `CountsOpenBids` | `Spec => []UncancelledCount` |
| `KeepsOrder` | `Spec => []ListOrdered` |
| `BidsAreBacked` | `Spec => []ListedBidsBacked` |
| `WinnersPayOnce` | `Spec => []ClaimsFromWinners` |
| `WinnersAreFinal`, `WinnersAreSpared` | `Spec => WinnersFinal`, `Spec => PruneSparesWinners` |

The count: `CountInv` adds that a bidder has no metadata before the auction exists,
which starts the count at zero, and the types of the metadata. The count is then the
cardinality of the bidders with an open bid (`Open`), which one bid raises by one and
one cancellation lowers by one (`OpenCount`).

The list: `AuctionInv` joins the order of the list and what was collected with what each
needs of the other: nothing is recorded before the auction (`NothingBefore`), a pot holds
the last bid until it is emptied (`PotsHold`), and a bid on the list is the open bid of its
bidder (`ListedOpen`). The lemmas before it say what the loop of `place_bid` does to a list
of any length: in a sorted list the bids below an amount are a prefix (`LowerIsPrefix`),
inserting behind them and dropping the first keep the order and lose nobody else, and
a cancellation takes out one place.

## 5. The candy machine

`CandyMachine` is the program (`InitializeConfig` leaves the lines of an account as they are;
`Lines` is a constant, so a config initialised again has as many): `line`, `mask` and `count` are the config account,
`machine` the machine, `minted` a history of the items minted. A line holds the
number of an item, for its name and link. `CandyUpload` is the command line over
it. `cache` is the file, saved after each change; `phase`, `next`, `offset`,
`waiting` and `failed` are the locals of a running upload, and are forgotten when a
pass ends or the process stops (`EndPass`). `Keys` are the cached items in order:
names that are numbers are sorted by a JavaScript object. The lines of a
transaction are a chunk of `Keys`, its index is the name of the first.
`LoseChunk` gives a transaction up, and it may stay in `late` and land at any later
time; so may those under way when the process stops (`Abort`).
`verified` and `sound` are history: whether a verify saw every item with nothing
under way, and whether the machine was created after that with a good verdict.

Assumed: one command runs at a time; the directory is complete and is the same for
every upload, named from 0, as the README of the command line asks; an item's name and
link are unlike those of any other. Left out: prices, the metadata accounts that
a mint creates, and re-signing.

| run | instance | shows |
|---|---|---|
| `candy` | three items, chunks of two, two parallel slices of one chunk each, one late transaction, fairness | `CountIsLinesWritten`, `MintsInOrder`, `UploadMends`, `UploadEnds` |

With chunks of two, a single missing image moves its neighbours by a line and
across chunks; three items are a full chunk and a short one, in two slices
written side by side, and leave room for a line that is wrong, right, or blank. One late
transaction is enough to undo any one chunk.

`CountIsLinesWritten`: repeated, overlapping and late chunks are counted once.
`UploadMends`: verify unflags the items whose line is wrong, and the upload that
reports success after that leaves every item on its own line. `MintsInOrder`: a
machine created after a good verify of all items mints each once, although uploads
go on beside it. They need the verify: without it an upload may report success and
leave a line blank (section 10). `UploadEnds` has
weak fairness for what the event loop runs by itself, and strong fairness for
storing each image and confirming a transaction of each slice: a network that
always fails keeps the loop running.

`CandyProofs` proves the three invariants for any number of items, any size of chunk
and slice, and any number of late transactions:

| theorem | statement |
|---|---|
| `LinesStayCounted` | the program by itself, under any transactions whose chunks fit: `[]CountIsLinesWritten` |
| `LinesAreCounted` | `Spec => []CountIsLinesWritten`: the command line's chunks do fit |
| `VerifiedUploadMends` | `Spec => []UploadMends` |
| `SoundMachineMintsInOrder` | `Spec => []MintsInOrder` |

The inductive invariant has four parts, each resting on those before it. `UploadInv`: what
is under way fits in the account, which follows from what `Keys` is, a list of the cached
items in order whose length is their number. `LinesInv`: the mask is the set of lines that
hold an item, and the count its cardinality. `VerifiedInv`: after a verify of every item
with nothing under way, an item flagged as on chain is on its own line, and a transaction
still to land writes every item to its own line (`InPlace`), since every item is then
in `Keys` at its own number. `MachineInv`: a machine created after a good verdict has minted
its lines from the front, all of them in place. None holds without the ones before: an upload
moves lines as long as some item is not cached.

## 6. The sender

`Batches` is the loop with which four actions cut a long job into transactions and
transactions into batches: `given` counts the items taken, `open` is the transaction
being filled, `batch` the batch, `packed` what was handed over. The four copies differ
in what an item adds and in the test that closes a transaction (`Closes`).

`TxSender` is `sendTransactions`, `sendSignedTransaction` and the loops around them.
`pc` walks through a pass: `signing`, then for each transaction `sending`, `awaiting`
and, after an error, `simulating`; `round` is the loop between two passes. `todo`, `at`,
`breakEarly`, `stopPoint`, `tries` and `lastLength` are the code's locals. `job` is who
sends: the retry loop of createAuctionManager, the one of connection.tsx, one of the
packing jobs, or the command line, whose copy sends a single transaction. The chain is
`applied`, how often each item took effect; `late` is what was given up and may land.
A failure sets `breakEarly` in a handler of the promise that `.then` returned, and the
await resumes one microtask earlier: the pass goes on after its first failure and
stops at the second, with the index of the first (`Failed`). `misjudged`, `lone` and
`skipped` are histories of the three ways in which the sender is blind.

`tx_sender` has four items, so that the retry loop can cut a list in several places
and be cut again; batches of two transactions; sizes that keep the proportions of the
code (a claim adds one instruction, a settlement one or two, a conversion up to
several, an edition a full transaction). Items of a sale need the one before, and some
may land twice. Fairness is weak on the sender's own steps: the event loop runs what
is ready and the timer fires.

- `CreatedIsComplete`: a sale reported as created is on the chain, unless the sender
  was blind. The three exceptions are real (section 10).
- `JobsPackAll`: each item of a claim, a settlement or an order of prints is handed over once.
- `Ends`: the sender ends, or hangs on a web socket that could not be set up.

`CommonProofs` proves the two safety properties for any number of items, any sizes and
any needs. For packing, `PackInv` says where each item taken is (`Placed`), that it is in
one place only (`Apart`), and that what is open is short of a transaction and the batch
of a batch (`Short`). `Short` is what the conversion lacks, whose transaction can
step over its size; the invariant is about the jobs in `Exact`. For the
retry loop, `SaleInv` says that `todo` is an end of the list (`EndOfList`) and that,
while the sender sees its failures, everything before the list, the stop and the first
failure is on the chain (`Known`).

## 7. Setting a sale up, and settling it

### Set-up

`SaleChain` is the vault, the auction account and the manager of one sale, as one
record. An instruction is a record named by its builder; `Allowed` is what its handler
checks, `Do` what it writes, and a transaction (`Apply`) does all or nothing.
`SaleSetup` adds the pages: `createAuctionManager` is the list of transactions in the
order of the code, `unwindVault` and `decommAuctionManager` those of the notifications,
built from the accounts when the button is pressed. Two tabs send, one the creation and
one what the seller presses on the notifications, each in passes of `Passes`. A
transaction may be lost, may land late (`late`), and the wallet may refuse to sign
(`Refuse`); `MaxFaults` bounds these together.

`sale_setup` has three items of three kinds: full rights, prints off a master, and
the participation. One is foreign, so that a mark as sold comes first; three boxes make
a batch of two and one alone. Two faults can stop a pass and harm the
next. `Hasty = {0, 1}` lets the seller press a notification while the creation still
runs as long as at most one fault has happened. The auction's and the manager's
authority changes, validation of every box, start and decommission all occur.

- `OpensComplete`: whatever was lost, late, repeated or taken back, an auction that is
  validated or running has each box validated once, in order, holding its token, and out
  of the seller's hands.
- `CreatedIsReady`: a creation reported as done can be opened, unless a round threw.
- `ItemsComeBack`: a creation that went wrong ends running or with every item back, if the
  seller pressed nothing while it ran. Fairness: the sender goes on; a notification that
  keeps being shown is pressed in the end (strong, because it comes and goes while
  transactions are under way).

`SaleProofs` proves the first two for any items, any of them foreign, and any number of
faults (`SalesOpenComplete`, `CreatedSalesAreReady`). `SetupInv` says of the chain
(`ChainInv`) that vault, auction and manager have authorities that fit together
(`AuthoritiesAgree`), that boxes hold their tokens once the vault is combined (`BoxesFilled`),
and that a manager is validated exactly when every box is (`BoxesValidated`); of each tab
that what it sends is a transaction one of the pages can build (`TabInv`); and of the creation
that what it has gone past is on the chain (`Creation`, with `Landed`), unless a round threw
after an earlier one had stopped. A transaction is a recursive
function along its instructions (`Applied` unfolds it), so each instruction is shown to keep `ChainInv` by itself, except where
only the whole transaction does: handing over both authorities (`PairKeeps`) and taking a sale
back (`TakesBackKeeps`).

### Settlement

`PrizeChain` is the chain after the end of an auction: stores, redemption tickets with
their bits at one of two places (`Save`, `Redeemed`), tracking tickets, edition markers,
pots. `recorded` says whether the auction account says Ended, which the manager asks for
while the auction goes by its clock; whoever settles first sends a bid for that (`ended`).
`Settlement` is the button of the auction's page for every wallet: `list` is what it
builds from the accounts it has, `redeemItem`, `claimUnusedPrizes` and the others its
parts. The lists of all wallets are sent side by side. `Given` is to whom the
participation goes, `KeyByte` which bits of a box are set in the byte of the
manager's key that a save with a winning index writes where the other bits were. `MayClaim` and `MayCancel` are what the
manager and the auction check before a pot is emptied. A box given with full rights holds one
token, at one place: that transfer is always of one (`PrizeAssumption`).

| run | instance | shows |
|---|---|---|
| `settlement` | two places with a token and a print for each and a participation for losers, won by both bidders, by one of them or by nobody, one bidder perhaps gone before the end; one lost transaction; fairness | `PrizesByPlace`, `MasterAfterPrints`, `AllDelivered` |
| `settlement_once` | two winners, everybody gets a participation | `OncePerMint` fails |
| `settlement_unused` | two places, one of them won | `UnusedOnce` fails |

Two places are the fewest in which a prize can go to the wrong one; two bidders and a seller
are a winner at each place, or a winner and a loser, or two losers.

- `PrizesByPlace`: a bidder has at most what its place is given, the seller nothing of
  an auction all of whose places were won, and store, places and seller together hold what
  was deposited, however the wallets' lists interleave. The seller's part is bounded only where
  every place is won (see `settlement_unused` below).
- `MasterAfterPrints`: a master is back with the seller only when every print won is made, and
  every participation promised, if no bid was cancelled while the auction ran. The condition
  is needed: who cancelled then may still claim a participation, while `withdraw_master_edition`
  expects none of it, and its print is counted in place of a loser's.
- `AllDelivered`: in the end everybody has what is theirs, the pots are empty, and masters are
  back, save one of which nobody could have a print while there are more bids than
  `get_max_bids_allowed_before_removal_is_stopped` returns: no tracking ticket is ever opened for it,
  so it stays (`Stranded`). Fairness: senders go on, and those in `Returning` press again
  while their page builds a list. It is written out as a formula instead of WF for the speed
  of TLC, with the condition under which Press or Sender is enabled.

Two findings. `settlement_once`: `state.rs:1407` promises that a token is redeemed
once for each mint. A ticket saved with a winning index keeps its bits eight bytes further
on than one saved without. When the seller prints the participation of a winner, it names no
winning index; the winner's redeemed bit is no longer seen, and the prize is handed out
again, out of what another place won. `settlement_unused`: the comment at
`redeem_unused_winning_config_items_as_auctioneer.rs:19` says a prize is not claimed more than
once, but no ticket is kept of what the seller takes (metaplex `utils.rs:686` only compares the
store with the amount), so a seller who presses again takes what a winner has not redeemed yet.

`SettlementProofs` proves, for any number of bidders, places, boxes and wallets, any losses and
any retries:

| theorem | statement |
|---|---|
| `PrizesGoByPlace` | `TicketsLast`: `Spec => []PrizesByPlace` |
| `MastersLeaveLast` | `TicketsLast`: `Spec => []MasterAfterPrints` |
| `TicketsAreKept` | `TicketsLast`: `Spec => []OncePerMint` |

`TicketsLast` is the condition that no winner is given a participation. It is a hypothesis
because of `settlement_once`: with it a winner's ticket is only ever saved with a winning
index and a loser's only ever without, so no bit is forgotten. `TicketsAreKept` is the promise
that the run refutes, under this condition.

The inductive invariant `SettlementInv` says of each box of the chain, by kind: a token is in its
store, at its place or with the seller, and who has it has its bit (`TransferInv`); the prints
given to a place are the editions taken of that place, what is redeemed is their sum, and
the master left when that sum reached what was expected (`PrintInv`); a participation was printed
once for each loser served, and what was expected counts the uncancelled bids after the end, when
that count stands (`ParticipationInv`); no winner has cancelled and no fewer bids are counted than
are left (`Ended`). Of each tab it says that its list consists of instructions that a page can
build for it, and that it is at one of them (`TabInv`): a page that sent an offset of another place
would break `PrintInv`. Each instruction changes one box, and `BoxStays` carries the others over.
That `MasterAfterPrints` follows needs sums to be monotone: the prints of each place are no more than
its editions, so equal sums mean equal parts (`SumNoLarger`). Sums, choices and flattened lists are
recursive functions over sequences of any length; their lemmas come first in the module.

## 8. The pages: a sale, an artwork, the cache

### Describing a sale

`TierTable` has the handlers of the tier page and the amounts that `createAuction`
computes for each place (`TierRanges`, `Merge`, `RangesOf`); `Meant` is the reference:
the sum over the tiers a place is a spot of. `art` in an entry remembers what the seller chose, for
the property only. `SaleWizard` has a page for each step of each category (`Pages`), the
answers, and the publication: `Show` brings a step up, and the waiting page publishes as
it comes up. A publication that is done goes to the step after the one it was started on,
wherever the seller is by then. `Browser` and `Reload` are the browser's own controls.
Prices, durations and ticks are one number, `terms`, that any change makes new.

`wizard` has two artworks, one limited master and one of the old kind, since
they differ in category and prize type; two tiers with two entries between them and
three places, the least with a gap, an overlap and a shared artwork; four changes, nine
moves and changes together, which is enough to fill both tiers and to reach
publication; one use of the browser's controls, with few changes beside it.

- `EntriesNameTheirItem`: each entry's number still names what was chosen for it.
- `TierAmounts`: merged ranges give each place what its tiers give, when no tier has a gap
  before its second spot (there they do not: section 10).
- `OneSalePerPress`: a press of "Publish Auction" publishes one sale and nothing else does, whatever
  pages the seller goes back to and whichever publications fail or finish late. `tally` counts presses
  less sales while the pages' own buttons are used, and begins again with a press made when no
  publication is running. Of what is published the review page shows only the first item, the
  copies and the dates.

`SaleProofs` proves the three for any artworks, counts and bounds.
`EachPressPublishesOnce`: `WizardInv` says that the answers always have a category
(`HasCategory`) and (`Underway`) that while presses are tallied, the pages' buttons are there exactly
before the waiting page, and from it on at most one publication runs, which leads past it. So the
waiting page comes up only by a press (`TallyStep`). `EntriesKeepTheirItem`: `TableInv` adds the types of the table and that
there are as many rows of boxes as tiers; each handler keeps it, the longest argument being
`ClearKeeps`, where an artwork goes and the numbers behind it move up. `TiersGiveTheirAmounts`
adds that there are ten winners at most (`Asked`), so spots are below ten, where `sort()`, which
orders them as strings, orders them as numbers. That is an assumption about the seller
(`WizardAssumption`): the page enforces no such limit, and with more winners the ranges are
wrong. The rest is about the operators: a place belongs to
one range at most (`AmountHere`); taking the first n places off moves the others up
(`AmountOfRest`); a round of the merge leaves what the two lists and the result say together of
each place as it is, and takes a range off one of the lists (`MergeRound`), so at the end the
result says the sum (`AmountOfMerge`); a tier's ranges give its amount to its spots alone
(`AmountOfTier`), because the gap before a spot reaches back to the end of the ranges so far. That
last fact is where the hypothesis on the second spot is used (`GapLength`).

### Making an artwork

`TokenMetadata` runs instructions over an artwork and a mint, all or none (`Transact`);
its checks are those of the metadata program and, as far as needed, of the token
program. `ArtCreate` has the pages, `mintNFT` as a job with two transactions and the
upload between, the approval of other creators, and tabs that order prints numbered from
the supply they read. A transaction may be refused, lost, or land though it was given up
(`Finish`, `SendNext`).

`art` has one other creator, shares of 0 and 100, a supply of two or none, and two tabs
that order up to three prints with numbers to three. That is enough for tabs to number
the same edition, for one to overtake the other, and for the supply to be exceeded.

- `EditionsOnce`: a number is printed once and the supply covers it, within the maximum.
- `TokensAreWhole`: the wallet never holds the token of a half-made work, and no second
  token can come.
- `ApprovalsStay`: what another creator approved between the two transactions stays
  approved, though the second names every creator unverified.

`ArtProofs` proves all three for any creators, shares, supplies, tabs and orders
(`NumbersAreUnique`, `NoHalfMadeToken`, `ApprovalsAreKept`). `ArtInv` is: the form on the page is
well typed (`PageInv`); a job that has made its artwork names exactly the creators the chain has, so
that its second transaction takes none away (`JobsInv`); the prints of an artwork are distinct
numbers that its supply covers, and a mint that has a token has one, with the link and the
master edition and no authority left to make another (`ArtsInv`); a tab that has prints to send
has an artwork to print (`TabsInv`). The lemmas before it say what each instruction does and what a
transaction that lands does, unfolded instruction by instruction.

### The cache of token accounts

`AccountCache` keeps of each account its history on chain, as states that parse or do
not, and in every other variable the place of a state in it. `Connect` changes the wallet;
snapshots answer and arrive later (`AnswerSnapshot`, `precacheUserTokenAccounts`), or fail;
each cached account has a subscription, and the connected wallet one of the whole
program, which waits for more confirmations.

`account_cache` has two wallets with one account each, two changes of one and one of
the other, and three changes of the wallet: there and back again, or out and in, with all snapshots
under way at once. Fairness: the node answers, and the web socket goes on.

- `OnlyOwnAccounts`: no snapshot or notification, however late, makes the pages list
  another wallet's account.
- `ChangesShown`: a change made while the program is listened to and no snapshot is under
  way is shown and not undone, unless its owner disconnects. Both conditions are needed: a
  snapshot taken before the change may arrive after it and put the old state back.

`CommonProofs` proves `OnlyOwnAccounts` for any wallets, accounts and number of changes.
It is inductive as it stands, because every list is selected anew for the wallet of now
(`setTokenAccounts`).

## 9. What is proved, and what only checked

| module | about | theorems | from |
|---|---|---|---|
| `RaffleProofs` | `Raffle` | section 3 | `ProgramAssumption` |
| `AuctionProofs` | `Auction` | section 4 | `AuctionAssumption` |
| `CandyProofs` | `CandyUpload`, `CandyMachine` | section 5 | `CandyAssumption`, `UploadAssumption` |
| `CommonProofs` | `TxSender`, `AccountCache` | `PacksAllItems`, `CreatedSalesAreComplete`, `ListsOnlyOwn` | `BatchesAssumption`, `AddsAssumption` |
| `SaleProofs` | `SaleSetup`, `SaleWizard` | `SalesOpenComplete`, `CreatedSalesAreReady`, `EachPressPublishesOnce`, `EntriesKeepTheirItem`, `TiersGiveTheirAmounts` | `SaleAssumption`, `WizardAssumption`, `ArtsAssumption` |
| `SettlementProofs` | `Settlement` | `PrizesGoByPlace`, `MastersLeaveLast`, `TicketsAreKept`, each under `TicketsLast` | `PrizeAssumption`, `ResultAssumption` |
| `ArtProofs` | `ArtCreate` | `NumbersAreUnique`, `NoHalfMadeToken`, `ApprovalsAreKept` | `ArtCreateAssumption` |
| `Recursion` | numbers | lemmas only | - |

`SaleSetup` and `SaleWizard` are proved about in one module, as are `TxSender` and `AccountCache`; the
specifications of the second of each pair are called `WizardSpec` and `CacheSpec` for that.

What a recursive definition computes is proved through `Recursion`: `LeastNatural` is a least
element of a set of numbers, from the library's theorem on the order of the naturals;
`StepByStep` is induction with the set of the numbers at which something holds in place of a
predicate; `StepFunction` gives the function a recursive definition chooses. So sums, chosen
sublists, flattened lists and transactions are unfolded for sequences of any length. The prover
cannot expand a fold or a filter that takes a LAMBDA, so the models it is to reach have recursive
functions there (`Sum` and `Chosen` in `PrizeChain`, `Apply` in `SaleChain`, `Transact` in
`TokenMetadata`, `Without` in `Auction`, `KeysOf` in `CandyUpload`, `TierRanges`, `Merge`, `RangesOf`
and `Meant` in `TierTable`).

Only model-checked: liveness under fairness (`LosersRefunded`, `WinnersPaid`, `PotsDrain`,
`UploadEnds`, `Ends`, `ItemsComeBack`, `AllDelivered`, `ChangesShown`), which is out of the prover's
reach. `OncePerMint` and `UnusedOnce` are refuted by their runs; the first is a theorem where `TicketsLast` holds.

## 10. Observations

Found while modelling, beside the findings of section 7, which runs check as the
violation of a promise the repository makes. These are the reasons for the conditions in
the properties above, or follow from a line or two of the code without a search: each is a case
that the property named for it leaves out, not one that it covers.

- Raffle: after a second creation a refund pays the new price, and open tickets of the first
  have numbers that are drawn again. `sold_amount`, documented as the "current sold ticket
  count" (`processor.rs:86`), counts a winner twice: it is above the number of tickets from the first
  winner on, passes `ticket_amount` by one when the last sale wins, and sales may end with
  fewer tickets than announced. Tickets sell after
  `end_lottery_at`, documented as a cut-off, which GetTicket never reads.
- Auction: in the second in which EndAuction lands a winner can still cancel and stays listed
  with an empty pot (`ListedBidsBacked` and `UncancelledCount` stop there). `is_winner` read off the raw bytes (`processor.rs:178`) ignores the price floor
  that the parsed one applies, so the manager and the auction may differ on a blinded price.
- Candy machine: an upload may report success and leave a line blank, when an image that
  failed shifts its neighbours; a verify and another upload mend it. `UploadMends` begins with that
  verify. A machine is accepted on the count of lines alone, and one created without a good verify
  may mint an item twice or stop at a blank line; `MintsInOrder` is about the others.
- Sender: a pass goes on after its first failure, and one alone goes by unseen; a round that
  throws cuts the list again at an old stop; a failed transaction whose simulation passes is
  taken for sent. `CreatedIsComplete` leaves out a sender that met one of the three. An error while the
  web socket is set up hangs the sender, which `Ends` counts as an end. Packing the conversion of
  masters steps over its exact size and drops what it packed; `JobsPackAll` is about the other
  three copies of the loop.
- Sale: a vault of four boxes or more is not unwound once its first three boxes are empty:
  the list starts with their two transactions each time, both fail, and three rounds make no progress (`ItemsComeBack` is checked with three boxes). A
  participation for losers only, with no loser, holds its master back for ever (`Stranded`).
- Tiers: with a gap before a tier's second spot its ranges are one place too long (`Packed`). Spots
  are sorted as strings (`index.tsx:252`), so from the eleventh on they are out of order; the page
  sets no limit, and the models have ten winners at most.
- Sale pages: the review page shows the first item, the copies and the dates, and nothing of tiers, amounts,
  participation or prices. The browser's buttons, the publishing step typed into the URL, or a reload on it publish
  without a press; `OneSalePerPress` is about the pages' own buttons.
- Cache: a snapshot taken before a change and arriving after it puts the old state back, which
  `ChangesShown` leaves out. A failed look-up of one account stays in `pendingCalls` and fails for everyone after.

## 11. Bounds

Every bound is a constant whose name begins with `Max`, or is named in the module that
declares it: creations, prizes and time of a raffle; time of an auction; late chunks of an
upload; items of a job; faults of a sale and of a settlement; tiers, entries, edits, moves
and strays of the wizard; artworks, prints, edition numbers and strays of the art pages;
changes and wallet switches of the cache. `tries < 3` in the sender is the code's own. Each
section above says why its bounds let the interesting cases happen. The larger runs take a
few minutes at most (`wizard`, `candy`), most of the others under one.

## 12. What is not modelled

- **Store loader** (`contexts/meta`): the effects of MetaProvider that call it are empty in this
  version (`meta.tsx:111` and `125`). The models of the sale, settlement and art pages take
  accounts as loaded, which is what the pages are written for.
- **Deprecated instructions**: the first version of the manager's accounts, reservation lists,
  printing tokens.
- **Parts of modelled components**: creating the lottery store and rewriting its settings;
  fractional shares and redemption in the vault; the manager's store, whitelist, payment of
  creators and instant sales; the change of a metadata's update authority; `sign` and
  `sign_all` and the price options of the command line; `SequenceType.Parallel` of
  the sender, which no page uses; look-ups of single accounts and the native account in the cache.
- **Other views, the landing page, the auction's command line, test drivers**: rendering,
  forms, or programs that only exercise the instructions.
- Key derivation, signatures, rent and account layouts are taken as the runtime provides them.
