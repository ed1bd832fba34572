----------------------------- MODULE CandyUpload -----------------------------
(***************************************************************************)
(* The command line that fills a candy machine, js-binding/packages/cli:   *)
(* the commands upload, verify, create_candy_machine, set_start_date and   *)
(* mint_one_token, over a cache file that survives a crash.                *)
(*                                                                         *)
(* upload stores every image, then writes the cached items as lines, ten   *)
(* to a transaction and thousands side by side, and starts over until      *)
(* nothing failed.  The position of an item is its place among the items   *)
(* the cache holds, while the index of a transaction is the name of its    *)
(* first item; the two agree only when no item is missing.  The cache is   *)
(* saved right after each change, so the file and the memory are one.      *)
(***************************************************************************)
EXTENDS CandyMachine, Functions, FiniteSetsExt

CONSTANTS
  ChunkSize,  \* lines in a transaction (10 in the code)
  SliceSize,  \* items written one chunk after the other (1000 in the code)
  MaxLate     \* bound: how many given up transactions may still land

ASSUME UploadAssumption ==
  /\ ChunkSize \in Nat \ {0}
  /\ SliceSize \in Nat \ {0}
  /\ MaxLate \in Nat

VARIABLES
  cache,      \* of each item: absent, linkless (stored, but the answer named
              \* no manifest), stored or onChain
  hasConfig,  \* cacheContent.program is filled in
  phase,      \* what the command line is doing: storing or writing, or it
              \* is stopped or has uploaded
  next,       \* the image being stored
  offset,     \* how far each slice has been written
  waiting,    \* slices whose transaction awaits its confirmation
  failed,     \* ~uploadSuccessful
  late,       \* transactions given up that may still land
  ready,      \* no upload began since a verify said "ready to deploy"
  verified,   \* history: a verify saw every item, nothing being under way
  sound       \* history: the machine was created when all was ready

uploadVars == <<cache, hasConfig, phase, next, offset, waiting, failed, ready>>
history == <<verified, sound>>
vars == <<candyVars, uploadVars, late, history>>

Slices == 1..(((Lines - 1) \div SliceSize) + 1)

Idle == phase \in {"stopped", "uploaded"}

Init ==
  /\ CandyInit
  /\ cache = [i \in Items |-> "absent"]
  /\ hasConfig = FALSE
  /\ phase = "stopped"
  /\ next = 0
  /\ offset = [s \in Slices |-> 0]
  /\ waiting = [s \in Slices |-> FALSE]
  /\ failed = FALSE
  /\ late = {}
  /\ ready = FALSE
  /\ verified = FALSE
  /\ sound = FALSE

(* The keys of the cached items; names that are numbers come in order.     *)
KeysOf(items) ==
  LET found[i \in 0..Lines] ==
        IF i = 0 THEN <<>>
        ELSE IF items[i - 1] = "absent" THEN found[i - 1]
        ELSE Append(found[i - 1], i - 1)
  IN found[Lines]

Keys == KeysOf(cache)

(* The items of the chunk a slice has come to; empty when it is through.   *)
Chunk(s) ==
  LET before == (s - 1) * SliceSize + offset[s] IN
    SubSeq(Keys, before + 1, Min({before + ChunkSize, s * SliceSize, Len(Keys)}))

InChunk(s, what) == \A p \in DOMAIN Chunk(s) : cache[Chunk(s)[p]] \in what

Transaction(s) == [index |-> Chunk(s)[1], lines |-> Chunk(s)]

-----------------------------------------------------------------------------
(* upload: the images *)

StartUpload ==
  /\ Idle
  /\ phase' = "storing" /\ ready' = FALSE
  /\ UNCHANGED <<candyVars, cache, hasConfig, next, offset, waiting, failed, late, history>>

(* Each attempt has a new key; one whose confirmation fails is abandoned.  *)
CreateConfig ==
  /\ phase = "storing" /\ next = 0 /\ ~hasConfig
  /\ InitializeConfig
  /\ hasConfig' = TRUE
  /\ UNCHANGED <<cache, phase, next, offset, waiting, failed, late, ready, history>>

(* Faulty variant: an item without a link passes for stored. *)
StoredAtAll(i) == cache[i] # "absent"

Stored(i) == cache[i] \in {"stored", "onChain"}

(* An image is stored once; storing it may fail, or yield no link.         *)
StoreImage ==
  /\ phase = "storing" /\ hasConfig /\ next < Lines
  /\ next' = next + 1
  /\ \/ Stored(next) /\ UNCHANGED <<cache, failed>>
     \/ /\ ~Stored(next)
        /\ \/ cache' = [cache EXCEPT ![next] = "stored"] /\ UNCHANGED failed
           \/ cache' = [cache EXCEPT ![next] = "linkless"] /\ UNCHANGED failed
           \/ failed' = TRUE /\ UNCHANGED cache
  /\ UNCHANGED <<candyVars, hasConfig, phase, offset, waiting, late, ready, history>>

-----------------------------------------------------------------------------
(* upload: the lines *)

StartWriting ==
  /\ phase = "storing" /\ next = Lines
  /\ phase' = "writing" /\ next' = 0
  /\ UNCHANGED <<candyVars, cache, hasConfig, offset, waiting, failed, late, ready, history>>

Written(s) == InChunk(s, {"onChain"})

AtChunk(s) == phase = "writing" /\ ~waiting[s] /\ Chunk(s) # <<>>

NextChunk(s) == offset' = [offset EXCEPT ![s] = @ + ChunkSize]

(* Flagged throughout, or a line without a link, which cannot be encoded.  *)
PassChunk(s) ==
  /\ AtChunk(s)
  /\ \/ Written(s) /\ UNCHANGED failed
     \/ ~InChunk(s, {"stored", "onChain"}) /\ failed' = TRUE
  /\ NextChunk(s)
  /\ UNCHANGED <<candyVars, cache, hasConfig, phase, next, waiting, late, ready, history>>

SendChunk(s) ==
  /\ AtChunk(s)
  /\ ~Written(s) /\ InChunk(s, {"stored", "onChain"})
  /\ waiting' = [waiting EXCEPT ![s] = TRUE]
  /\ UNCHANGED <<candyVars, cache, hasConfig, phase, next, offset, failed, late, ready, history>>

Flagged(items) == [i \in Items |-> IF i \in items THEN "onChain" ELSE cache[i]]

(* The transaction lands and the command line hears of it.                 *)
ConfirmChunk(s) ==
  /\ waiting[s]
  /\ AddConfigLines(Transaction(s).index, Transaction(s).lines)
  /\ cache' = Flagged(Range(Chunk(s)))
  /\ waiting' = [waiting EXCEPT ![s] = FALSE]
  /\ NextChunk(s)
  /\ UNCHANGED <<hasConfig, phase, next, failed, late, ready, history>>

(* It is given up: rejected, expired, or on its way to land late.          *)
LoseChunk(s) ==
  /\ waiting[s]
  /\ late' \in {late, late \cup {Transaction(s)}}
  /\ Cardinality(late') <= MaxLate
  /\ failed' = TRUE
  /\ waiting' = [waiting EXCEPT ![s] = FALSE]
  /\ NextChunk(s)
  /\ UNCHANGED <<candyVars, cache, hasConfig, phase, next, ready, history>>

(* What a pass keeps for itself is forgotten with it.                      *)
EndPass ==
  /\ next' = 0 /\ failed' = FALSE
  /\ offset' = [s \in Slices |-> 0]
  /\ waiting' = [s \in Slices |-> FALSE]

(* When something failed, the upload starts over by itself.                *)
FinishUpload ==
  /\ phase = "writing"
  /\ \A s \in Slices : ~waiting[s] /\ Chunk(s) = <<>>
  /\ phase' = IF failed THEN "storing" ELSE "uploaded"
  /\ EndPass
  /\ UNCHANGED <<candyVars, cache, hasConfig, late, ready, history>>

(* A payment that throws, or the operator, ends the process.               *)
Abort ==
  /\ phase \in {"storing", "writing"}
  /\ phase' = "stopped"
  /\ late' \in {late \cup {Transaction(s) : s \in S} :
                  S \in SUBSET {s \in Slices : waiting[s]}}
  /\ Cardinality(late') <= MaxLate
  /\ EndPass
  /\ UNCHANGED <<candyVars, cache, hasConfig, ready, history>>

-----------------------------------------------------------------------------
(* The other commands, and the chain *)

(* Faulty variant: the cache is left as it is. *)
UnflaggedNever == cache

(* Items whose line is not what the cache says lose their flag.            *)
Unflagged ==
  [i \in Items |->
     IF cache[i] = "onChain" /\ \E p \in DOMAIN Keys : Keys[p] = i /\ line[p - 1] # i
     THEN "stored" ELSE cache[i]]

(* Faulty variant: the lines are not looked at. *)
CheckedOutUnread == TRUE

(* Every cached item is on the line of its place in the cache.             *)
CheckedOut == \A p \in DOMAIN Keys : line[p - 1] = Keys[p]

Verify ==
  /\ Idle /\ hasConfig
  /\ cache' = Unflagged
  /\ ready' = (CheckedOut /\ count >= Lines)
  /\ phase' = "stopped"
  /\ verified' = (verified \/ (late = {} /\ Len(Keys) = Lines))
  /\ UNCHANGED <<candyVars, hasConfig, next, offset, waiting, failed, late, sound>>

CreateMachine ==
  /\ Idle /\ hasConfig
  /\ InitializeCandyMachine(Len(Keys))
  /\ sound' = (ready /\ verified)
  /\ UNCHANGED <<uploadVars, late, verified>>

SetStartDate(date) ==
  /\ Idle
  /\ UpdateCandyMachine(date)
  /\ UNCHANGED <<uploadVars, late, history>>

Mint(payer) == MintNft(payer) /\ UNCHANGED <<uploadVars, late, history>>

GoLive == DateArrives /\ UNCHANGED <<uploadVars, late, history>>

LandLate(tx) ==
  /\ tx \in late
  /\ AddConfigLines(tx.index, tx.lines)
  /\ late' = late \ {tx}
  /\ UNCHANGED <<uploadVars, history>>

Expire(tx) ==
  /\ tx \in late
  /\ late' = late \ {tx}
  /\ UNCHANGED <<candyVars, uploadVars, history>>

Next ==
  \/ StartUpload \/ CreateConfig \/ StoreImage \/ StartWriting
  \/ \E s \in Slices :
       PassChunk(s) \/ SendChunk(s) \/ ConfirmChunk(s) \/ LoseChunk(s)
  \/ FinishUpload \/ Abort
  \/ Verify \/ CreateMachine
  \/ \E date \in {"future", "past"} : SetStartDate(date)
  \/ \E payer \in Payers : Mint(payer)
  \/ GoLive
  \/ \E tx \in late : LandLate(tx) \/ Expire(tx)

Spec == Init /\ [][Next]_vars

StoreWithLink(i) ==
  StoreImage /\ next = i /\ cache[i] # "stored" /\ cache'[i] = "stored"

(* The event loop runs the upload on, and the network fails no image and   *)
(* no slice each time it is tried.                                         *)
Fairness ==
  /\ WF_vars(CreateConfig) /\ WF_vars(StoreImage)
  /\ WF_vars(StartWriting) /\ WF_vars(FinishUpload)
  /\ \A i \in Items : SF_vars(StoreWithLink(i))
  /\ \A s \in Slices : WF_vars(PassChunk(s) \/ SendChunk(s))
                     /\ SF_vars(ConfirmChunk(s))

FairSpec == Spec /\ Fairness

-----------------------------------------------------------------------------
(* What the upload promises *)

(* The count that initialize_candy_machine trusts is the number of lines   *)
(* that hold an item, however often chunks are repeated, overlap or land   *)
(* late.                                                                   *)
CountIsLinesWritten ==
  count = Cardinality({p \in Positions : line[p] # Blank})

(* A machine created once verify said "ready to deploy", of all items and  *)
(* with nothing under way, mints every item once and in order, even while  *)
(* later uploads rewrite lines, crash, and leave transactions to land late.*)
MintsInOrder == sound => minted = [i \in DOMAIN minted |-> i - 1]

(* verify takes the flag from an item whose line is wrong; the upload that *)
(* follows leaves every item on its own line, whatever earlier uploads,    *)
(* crashes and given up transactions left behind.                          *)
UploadMends ==
  verified /\ phase = "uploaded" => \A p \in Positions : line[p] = p

(* The loop around upload ends unless it is broken off: each pass leaves   *)
(* behind in the cache what the next one need not do again.                *)
UploadEnds == phase \in {"storing", "writing"} ~> Idle

=============================================================================
