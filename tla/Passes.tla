-------------------------------- MODULE Passes --------------------------------
(***************************************************************************)
(* The sender of TxSender at the grain of one step per transaction, for    *)
(* the modules whose pages send lists: a pass goes on after its first      *)
(* failure and ends at its second, and the loop slices the list at the     *)
(* stop and sends the rest again, three times without progress at most     *)
(* (sendTransactionsWithManualRetry; createAuctionManager has its own copy *)
(* of the loop).                                                           *)
(***************************************************************************)
EXTENDS Naturals, Sequences

Idle == [pc |-> "idle", todo |-> <<>>, at |-> 1, first |-> 0, stop |-> 0, tries |-> 0,
         last |-> 0, then |-> "none"]

Start(list, then) == [Idle EXCEPT !.pc = "round", !.todo = list, !.then = then]

MoreRounds(b) == b.stop < Len(b.todo) /\ b.tries < 3

NextRound(b) ==
  LET rest == SubSeq(b.todo, b.stop + 1, Len(b.todo))
  IN [b EXCEPT !.todo = rest, !.last = Len(rest), !.at = 1, !.first = 0,
               !.tries = IF Len(rest) = b.last THEN @ + 1 ELSE 0]

After(b) ==
  IF b.at < Len(b.todo) THEN [b EXCEPT !.at = @ + 1]
                        ELSE [b EXCEPT !.pc = "round", !.stop = Len(b.todo)]

(* A mutation of the next one: a pass that does stop at its first failure. *)
AfterFirstFailure(b) == [b EXCEPT !.pc = "round", !.stop = b.at - 1]

(* The first failure of a pass is seen too late to stop it.                *)
AfterFailure(b) ==
  IF b.first # 0 THEN [b EXCEPT !.pc = "round", !.stop = b.first - 1]
                 ELSE After([b EXCEPT !.first = b.at])

(* A list of one is sent alone, and its failure is an exception that       *)
(* leaves the stop as it was.                                              *)
AfterException(b) == [b EXCEPT !.pc = "round"]

Current(b) == b.todo[b.at]

=============================================================================
