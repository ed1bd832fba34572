---------------------------- MODULE RaffleLedger ----------------------------
(***************************************************************************)
(* What a raffle owes its ticket holders, without the machinery: every     *)
(* ticket is bought at one price and lost or won when it is bought, a won  *)
(* ticket names a prize nobody else was promised, and a ticket is settled  *)
(* once, by its refund out of the escrow or by its own prize.              *)
(***************************************************************************)
EXTENDS Integers

CONSTANTS
  Tickets,
  Prices,   \* what a ticket may cost
  Numbers   \* the numbers a ticket may draw; zero loses

VARIABLES
  price,    \* zero until the raffle opens
  entry,    \* what became of each ticket
  prize,    \* the number a ticket won, zero otherwise
  escrow,   \* money held for refunds
  awarded   \* prizes handed over

ledgerVars == <<price, entry, prize, escrow, awarded>>

Init ==
  /\ price = 0
  /\ entry = [t \in Tickets |-> "unsold"]
  /\ prize = [t \in Tickets |-> 0]
  /\ escrow = 0
  /\ awarded = {}

Open(p) ==
  /\ price = 0
  /\ price' = p
  /\ UNCHANGED <<entry, prize, escrow, awarded>>

Buy(t, n) ==
  /\ price > 0
  /\ entry[t] = "unsold"
  /\ n > 0 => \A s \in Tickets : prize[s] # n
  /\ entry' = [entry EXCEPT ![t] = IF n = 0 THEN "lost" ELSE "won"]
  /\ prize' = [prize EXCEPT ![t] = n]
  /\ escrow' = escrow + price
  /\ UNCHANGED <<price, awarded>>

Refund(t) ==
  /\ entry[t] = "lost"
  /\ escrow >= price
  /\ entry' = [entry EXCEPT ![t] = "settled"]
  /\ escrow' = escrow - price
  /\ UNCHANGED <<price, prize, awarded>>

Award(t) ==
  /\ entry[t] = "won"
  /\ prize[t] \notin awarded
  /\ entry' = [entry EXCEPT ![t] = "settled"]
  /\ awarded' = awarded \cup {prize[t]}
  /\ UNCHANGED <<price, prize, escrow>>

Next ==
  \/ \E p \in Prices : Open(p)
  \/ \E t \in Tickets, n \in Numbers : Buy(t, n)
  \/ \E t \in Tickets : Refund(t) \/ Award(t)

Spec == Init /\ [][Next]_ledgerVars

=============================================================================
