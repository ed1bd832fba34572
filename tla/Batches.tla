------------------------------- MODULE Batches -------------------------------
(***************************************************************************)
(* How the pages cut a long job into transactions and batches of           *)
(* transactions: claimAllBids and emptyPaymentAccountForAllTokens of       *)
(* settle.ts, convertMasterEditions and mintEditionsToWallet.  The four    *)
(* are copies of one loop; they differ in the instructions an item adds    *)
(* and in the test that closes a transaction.                              *)
(***************************************************************************)
EXTENDS Naturals, Sequences, SequencesExt, FiniteSets

CONSTANTS
  MaxItems,         \* bound: items of a job
  TransactionSize,  \* for each job, the instructions of a full transaction
  Adds,             \* for each job, the numbers of instructions an item may add
  BatchSize         \* transactions of a full batch (10 in the code)

Jobs == {"claim", "settle", "convert", "mint"}

ASSUME BatchesAssumption ==
  /\ MaxItems \in Nat \ {0}
  /\ BatchSize \in Nat \ {0}
  /\ TransactionSize \in [Jobs -> Nat \ {0}]
  /\ Adds \in [Jobs -> SUBSET (Nat \ {0})]

(* An item of the list claimAllBids works through adds one instruction,    *)
(* and an edition fills a transaction.                                     *)
ASSUME AddsAssumption ==
  /\ Adds["claim"] = {1}
  /\ Adds["mint"] = {TransactionSize["mint"]}

Items == 1..MaxItems

VARIABLES
  packing,  \* the loop is running
  given,    \* items taken so far
  open,     \* the transaction being filled: its items and instructions
  batch,    \* the batch being filled
  packed    \* the batches handed to the sender

packVars == <<packing, given, open, batch, packed>>

Empty == [items |-> {}, count |-> 0]

(* Bids to claim, one instruction each, close at exactly the size.         *)
ClosesClaims(n) == n = TransactionSize["claim"]

(* A mutation of the next one: the test of the other three loops.          *)
ClosesSettlementsExactly(n) == n = TransactionSize["settle"]

(* Settlements, one or two instructions each, close at the size or over.   *)
ClosesSettlements(n) == n >= TransactionSize["settle"]

(* A conversion may add one to five instructions, and closes at exactly    *)
(* the size, which it can step over.                                       *)
ClosesConversions(n) == n = TransactionSize["convert"]

(* An edition adds the four instructions of its mint and one that prints.  *)
ClosesEditions(n) == n = TransactionSize["mint"]

Closes(job, n) ==
  \/ job = "claim"   /\ ClosesClaims(n)
  \/ job = "settle"  /\ ClosesSettlements(n)
  \/ job = "convert" /\ ClosesConversions(n)
  \/ job = "mint"    /\ ClosesEditions(n)

PackInit ==
  /\ given = 0
  /\ open = Empty
  /\ batch = <<>>
  /\ packed = <<>>

(* One turn of the loop: the item's instructions, then the transaction if  *)
(* it is full, then the batch if it is full.                               *)
PackItem(job, n) ==
  LET filled == [items |-> open.items \union {given + 1}, count |-> open.count + n]
      closes == Closes(job, filled.count)
      grown  == IF closes THEN Append(batch, filled.items) ELSE batch
      flush  == Len(grown) = BatchSize
  IN /\ given < MaxItems
     /\ given' = given + 1
     /\ open' = IF closes THEN Empty ELSE filled
     /\ batch' = IF flush THEN <<>> ELSE grown
     /\ packed' = IF flush THEN Append(packed, grown) ELSE packed
     /\ UNCHANGED packing

(* After the loop: what is left, if it is less than a full transaction.    *)
PackRest(job) ==
  LET left  == open.count > 0 /\ open.count < TransactionSize[job]
      grown == IF left THEN Append(batch, open.items) ELSE batch
  IN /\ packing' = FALSE
     /\ packed' = IF Len(grown) \in 1..BatchSize THEN Append(packed, grown) ELSE packed
     /\ batch' = grown
     /\ UNCHANGED <<given, open>>

(***************************************************************************)
(* Properties.                                                             *)
(***************************************************************************)

(* Every item of the job is in a transaction of a batch handed over, and   *)
(* in one only.                                                            *)
PacksAll ==
  /\ \A i \in 1..given :
       \E b \in DOMAIN packed : \E k \in DOMAIN packed[b] : i \in packed[b][k]
  /\ \A b, c \in DOMAIN packed : \A k \in DOMAIN packed[b], l \in DOMAIN packed[c] :
       packed[b][k] \cap packed[c][l] # {} => b = c /\ k = l

=============================================================================
