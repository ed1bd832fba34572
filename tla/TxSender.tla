------------------------------- MODULE TxSender -------------------------------
(***************************************************************************)
(* How the pages send a list of transactions: sendTransactions and         *)
(* sendSignedTransaction of common/src/contexts/connection.tsx, the loops  *)
(* that send the rest again (sendTransactionsWithManualRetry and its copy  *)
(* in createAuctionManager.ts), and the jobs of Batches, which send each   *)
(* batch once and look at no result.                                       *)
(*                                                                         *)
(* A failure sets breakEarly in a handler put on the promise that .then    *)
(* returned, one turn of the microtask queue after the await on the        *)
(* promise itself has resumed the loop (the package is compiled to es2019, *)
(* where await is the engine's).  So the loop tests breakEarly before this *)
(* failure has set it: it goes on with the next transaction and stops only *)
(* at a second failure, returning the index of the first.                  *)
(***************************************************************************)
EXTENDS Batches

CONSTANTS
  Needs,       \* for each transaction of a sale, those it cannot run without
  Repeatable   \* transactions of a sale that the programs accept again

Loops == {"createAuctionManager", "manualRetry"}
Callers == Jobs \union Loops \union {"commandLine"}

ASSUME SenderAssumption ==
  /\ Needs \in [Items -> SUBSET Items]
  /\ Repeatable \subseteq Items

VARIABLES
  job,         \* who is sending
  pc,          \* where the sender is
  queue,       \* batches of a job not begun
  todo,        \* instructions: the transactions of this pass
  at,          \* i: the transaction being sent, from 0
  breakEarly,  \* breakEarlyObject
  stopPoint, tries, lastLength,
  verdict,     \* what the chain did with the transaction being sent
  applied,     \* the chain: how often an item took effect (counted to 2)
  late,        \* transactions given up that may still land
  misjudged,   \* history: a failed transaction was taken for a good one
  lone,        \* history: a pass with a failure returned its full length
  skipped      \* history: a round that threw kept the stop of an earlier one

senderVars == <<job, pc, queue, todo, at, breakEarly, stopPoint, tries,
                lastLength, verdict>>
chainVars == <<applied, late>>
history == <<misjudged, lone, skipped>>
vars == <<packVars, senderVars, chainVars, history>>

Unbroken == [early |-> FALSE, i |-> 0]
Current == todo[at + 1]

Init ==
  /\ PackInit
  /\ job \in Callers
  /\ packing = (job \in Jobs)
  /\ pc = IF job = "commandLine" THEN "sending" ELSE "round"
  /\ queue = <<>>
  /\ todo = IF job \in Loops THEN [i \in Items |-> {i}]
            ELSE IF job \in Jobs THEN <<>> ELSE <<{1}>>
  /\ at = 0
  /\ breakEarly = Unbroken
  /\ stopPoint = 0 /\ tries = 0 /\ lastLength = 0
  /\ verdict = "none"
  /\ applied = [i \in Items |-> 0]
  /\ late = {}
  /\ misjudged = FALSE /\ lone = FALSE /\ skipped = FALSE

-----------------------------------------------------------------------------
(* The chain.                                                              *)

(* The programs refuse a transaction whose accounts are not there yet, and *)
(* one that has already been done.                                         *)
Executable(t) ==
  \A i \in t : /\ job \in Loops => \A n \in Needs[i] : applied[n] > 0
               /\ applied[i] > 0 => job \in Loops /\ i \in Repeatable

Apply(t) ==
  applied' = [i \in Items |-> IF i \in t THEN IF applied[i] < 2 THEN applied[i] + 1 ELSE 2
                                         ELSE applied[i]]

(* The transaction being sent lands; it may fail for reasons of its own.   *)
Land ==
  /\ pc = "awaiting" /\ verdict = "none"
  /\ \/ Executable(Current) /\ Apply(Current) /\ verdict' = "ok"
     \/ verdict' = "err" /\ UNCHANGED applied
  /\ UNCHANGED <<packVars, job, pc, queue, todo, at, breakEarly, stopPoint, tries,
                 lastLength, late, history>>

(* One that was given up lands after all, before its blockhash expires.    *)
LandLate(t) ==
  /\ t \in late
  /\ late' = late \ {t}
  /\ IF Executable(t) THEN Apply(t) ELSE UNCHANGED applied
  /\ UNCHANGED <<packVars, senderVars, history>>

-----------------------------------------------------------------------------
(* The jobs pack, then take one batch after the other.                     *)

Pack ==
  /\ packing
  /\ \/ \E n \in Adds[job] : PackItem(job, n) /\ UNCHANGED queue
     \/ PackRest(job) /\ queue' = packed'
  /\ UNCHANGED <<job, pc, todo, at, breakEarly, stopPoint, tries, lastLength, verdict,
                 chainVars, history>>

NextBatch ==
  /\ job \notin Loops /\ pc = "round" /\ ~packing
  /\ IF queue = <<>> THEN pc' = "returned" /\ UNCHANGED <<queue, todo>>
                     ELSE pc' = "signing" /\ todo' = Head(queue) /\ queue' = Tail(queue)
  /\ UNCHANGED <<packVars, job, at, breakEarly, stopPoint, tries, lastLength, verdict,
                 chainVars, history>>

(* The retry loops: the list is cut at the stop of the round before, and a *)
(* third round that cuts nothing is the last.                              *)
MoreRounds == stopPoint < Len(todo) /\ tries < 3

(* A mutation of the next one: every round counts as the first.            *)
TriesAfterReset(n) == 0

(* A round that cut nothing off counts as another try.                     *)
TriesAfter(n) == IF n = lastLength THEN tries + 1 ELSE 0

SaleRound ==
  LET rest == SubSeq(todo, stopPoint + 1, Len(todo))
  IN /\ job \in Loops /\ pc = "round" /\ MoreRounds
     /\ todo' = rest
     /\ tries' = TriesAfter(Len(rest))
     /\ lastLength' = Len(rest)
     /\ pc' = "signing"
     /\ UNCHANGED <<packVars, job, queue, at, breakEarly, stopPoint, verdict, chainVars,
                    history>>

(* A mutation: as sendTransactionsWithManualRetry does.                    *)
GivesUpSilently == FALSE

(* createAuctionManager throws if the last list was not finished; the      *)
(* other loop returns as if it had.                                        *)
GivesUpLoudly == job = "createAuctionManager" /\ stopPoint < Len(todo)

LoopEnds ==
  /\ job \in Loops /\ pc = "round" /\ ~MoreRounds
  /\ pc' = IF GivesUpLoudly THEN "thrown" ELSE "returned"
  /\ UNCHANGED <<packVars, job, queue, todo, at, breakEarly, stopPoint, tries, lastLength,
                 verdict, chainVars, history>>

-----------------------------------------------------------------------------
(* One pass.                                                               *)

(* An exception ends a job; a loop catches it and keeps its stop.          *)
Raise ==
  /\ pc' = IF job \in Loops THEN "round" ELSE "thrown"
  /\ skipped' = (skipped \/ stopPoint > 0)
  /\ UNCHANGED <<at, breakEarly, stopPoint, lone>>

(* No blockhash, or the wallet refuses to sign.                            *)
Refuse ==
  /\ pc = "signing"
  /\ Raise
  /\ UNCHANGED <<packVars, job, queue, todo, tries, lastLength, verdict, chainVars, misjudged>>

(* All transactions of the pass are signed over one blockhash.             *)
Sign ==
  /\ pc = "signing"
  /\ pc' = "sending"
  /\ at' = 0
  /\ breakEarly' = Unbroken
  /\ UNCHANGED <<packVars, job, queue, todo, stopPoint, tries, lastLength, verdict, chainVars,
                 misjudged, lone, skipped>>

Send ==
  /\ pc = "sending"
  /\ pc' = "awaiting"
  /\ verdict' = "none"
  /\ UNCHANGED <<packVars, job, queue, todo, at, breakEarly, stopPoint, tries, lastLength,
                 chainVars, history>>

Advance ==
  IF at + 1 < Len(todo)
  THEN /\ pc' = "sending" /\ at' = at + 1 /\ UNCHANGED <<stopPoint, lone>>
  ELSE /\ pc' = "round" /\ stopPoint' = Len(todo) /\ UNCHANGED at
       /\ lone' = (lone \/ breakEarly'.early)

Passed == UNCHANGED <<breakEarly, skipped>> /\ Advance

(* The test of breakEarly comes before the handler of this failure.        *)
StopsHere == breakEarly.early

(* A list of one is sent alone, and its failure is an exception.           *)
Failed ==
  IF Len(todo) = 1 THEN Raise
  ELSE /\ UNCHANGED skipped
       /\ IF StopsHere
          THEN /\ pc' = "round" /\ stopPoint' = breakEarly.i
               /\ UNCHANGED <<at, breakEarly, lone>>
          ELSE /\ breakEarly' = [early |-> TRUE, i |-> at]
               /\ Advance

(* The node takes no transaction: sendRawTransaction throws.               *)
SendFails ==
  /\ pc = "sending"
  /\ Failed
  /\ UNCHANGED <<packVars, job, queue, todo, tries, lastLength, verdict, chainVars, misjudged>>

(* The web socket or a status query reports success.                       *)
HearSuccess ==
  /\ pc = "awaiting" /\ verdict = "ok"
  /\ Passed
  /\ UNCHANGED <<packVars, job, queue, todo, tries, lastLength, verdict, chainVars, misjudged>>

HearError ==
  /\ pc = "awaiting" /\ verdict = "err"
  /\ pc' = "simulating"
  /\ UNCHANGED <<packVars, job, queue, todo, at, breakEarly, stopPoint, tries, lastLength,
                 verdict, chainVars, history>>

(* The timer: what was sent may have landed, or may land later.            *)
Timeout ==
  /\ pc = "awaiting"
  /\ Failed
  /\ late' = IF verdict = "none" THEN late \union {Current} ELSE late
  /\ UNCHANGED <<packVars, job, queue, todo, tries, lastLength, verdict, applied, misjudged>>

(* An error in setting up the web socket sets done: the timer returns, no  *)
(* status is asked for, and the promise is never settled.                  *)
SocketError ==
  /\ pc = "awaiting" /\ verdict = "none"
  /\ pc' = "hung"
  /\ late' = late \union {Current}
  /\ UNCHANGED <<packVars, job, queue, todo, at, breakEarly, stopPoint, tries, lastLength,
                 verdict, applied, history>>

(* After an error the transaction is simulated, now and not as it was.     *)
SimulationFails ==
  /\ pc = "simulating" /\ ~Executable(Current)
  /\ Failed
  /\ UNCHANGED <<packVars, job, queue, todo, tries, lastLength, verdict, chainVars, misjudged>>

(* If the simulation passes, or the call throws, the function returns as   *)
(* after a success: the throw at its end is commented out.                 *)
SimulationPasses ==
  /\ pc = "simulating"
  /\ Passed
  /\ misjudged' = TRUE
  /\ UNCHANGED <<packVars, job, queue, todo, tries, lastLength, verdict, chainVars>>

-----------------------------------------------------------------------------
(* The command line has a copy of the lower half: it signs with its own    *)
(* key and sends one transaction (cli/src/helpers/transactions.ts).        *)
KeypairSends == Send \/ SendFails
KeypairAwaits == HearSuccess \/ HearError \/ Timeout
KeypairSimulates == SimulationFails \/ SimulationPasses

WalletStep ==
  \/ Pack \/ NextBatch \/ SaleRound \/ LoopEnds \/ Refuse \/ Sign \/ Send \/ SendFails
  \/ HearSuccess \/ HearError \/ Timeout \/ SimulationFails \/ SimulationPasses

SenderStep ==
  \/ job # "commandLine" /\ WalletStep
  \/ job = "commandLine" /\ (KeypairSends \/ KeypairAwaits \/ KeypairSimulates \/ NextBatch)

Next == SenderStep \/ Land \/ SocketError \/ \E t \in late : LandLate(t)

Spec == Init /\ [][Next]_vars

(* The event loop runs what is ready, and the timer fires: the sender is   *)
(* never blocked while one of its steps can be taken.                      *)
FairSpec == Spec /\ WF_vars(SenderStep)

(***************************************************************************)
(* Properties.                                                             *)
(***************************************************************************)

(* A sale reported as created has every transaction on the chain, unless   *)
(* the sender was blind in one of three ways: a failure was taken for a    *)
(* success after a simulation, one failure alone in its pass went by, or a *)
(* round threw and the next one cut the list again at an old stop.  The    *)
(* code promises no less: it throws "Failed to create" for what is left.   *)
CreatedIsComplete ==
  /\ pc = "returned" /\ job = "createAuctionManager"
  /\ ~misjudged /\ ~lone /\ ~skipped
  => \A i \in Items : applied[i] > 0

(* Every bid claimed, every share paid and every edition minted by a long  *)
(* job is in one transaction handed to the sender, and in one only.        *)
JobsPackAll == job \in {"claim", "settle", "mint"} /\ ~packing => PacksAll

(* The sender ends, unless its web socket could not be set up.             *)
Ends == <>(pc \in {"returned", "thrown", "hung"})

=============================================================================
