------------------------------ MODULE MCRaffle ------------------------------
(***************************************************************************)
(* Small instances of the raffle.                                          *)
(***************************************************************************)
EXTENDS Raffle, TLC

(***************************************************************************)
(* Three prizes and a counter of four: both of two buyers can win, with    *)
(* the numbers 1 and 3, and either can lose.  One prize and a counter of   *)
(* one: the winner pushes the counter past the number of tickets.          *)
(***************************************************************************)
MCCreateArgs ==
  {[endLotteryAt |-> 0, ticketPrice |-> 1, ticketAmount |-> 4, nftAmount |-> 3],
   [endLotteryAt |-> 0, ticketPrice |-> 2, ticketAmount |-> 1, nftAmount |-> 1]}

(* Ticket keys are interchangeable: nothing compares or orders them.       *)
MCSymmetry == Permutations(Tickets)

=============================================================================
