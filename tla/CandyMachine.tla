---------------------------- MODULE CandyMachine ----------------------------
(***************************************************************************)
(* The on-chain candy machine, rust/nft-candy-machine: a config account    *)
(* with room for Lines lines, each naming one NFT to mint, and the machine *)
(* that mints the lines in order.                                          *)
(*                                                                         *)
(* A line is the number of the item whose name and link it holds.  The     *)
(* price is left out: a payer who cannot pay does not mint, and no other   *)
(* account of the model depends on it.                                     *)
(***************************************************************************)
EXTENDS Integers, Sequences, FiniteSets

CONSTANTS
  Lines,      \* max_number_of_lines
  Payers,     \* wallets that mint
  Authority   \* the one that owns config and machine

ASSUME CandyAssumption ==
  /\ Lines \in Nat \ {0}
  /\ Authority \in Payers

VARIABLES
  line,     \* the lines of the config account, by position
  mask,     \* the positions whose bit is set in the bit mask
  count,    \* the number of lines at the front of the array
  machine,  \* CandyMachine
  minted    \* history: the items minted so far

candyVars == <<line, mask, count, machine, minted>>

Items == 0..(Lines - 1)
Positions == 0..(Lines - 1)

Blank == -1

(* goLive: "unset", a date in the "future", or one in the "past".          *)
NoMachine == [exists |-> FALSE, available |-> 0, redeemed |-> 0, goLive |-> "unset"]

CandyInit ==
  /\ line = [p \in Positions |-> Blank]
  /\ mask = {}
  /\ count = 0
  /\ machine = NoMachine
  /\ minted = <<>>

(***************************************************************************)
(* Only the header and the length of the mask are written: the lines, the  *)
(* mask and the count are what the account holds, zeroes in a new one and  *)
(* what was there in one that is initialised again.  Room for another      *)
(* number of lines would then move the mask; Lines is a constant here.     *)
(***************************************************************************)
InitializeConfig == UNCHANGED candyVars

Span(index, lines) == index..(index + Len(lines) - 1)

(* Faulty variant: every line counts, also one that replaces another. *)
CountAfterAll(span) == count + Cardinality(span)

(* A position counts when its bit is set for the first time. *)
CountAfter(span) == count + Cardinality(span \ mask)

(* Only the first index is checked against the length. *)
AddConfigLines(index, lines) ==
  /\ index <= Lines - 1
  /\ line' = [p \in Positions |->
       IF p \in Span(index, lines) THEN lines[p - index + 1] ELSE line[p]]
  /\ mask' = mask \cup Span(index, lines)
  /\ count' = CountAfter(Span(index, lines))
  /\ UNCHANGED <<machine, minted>>

EnoughLines(available) == count >= available

(* The account can be initialised only once; a blank line does not parse.  *)
InitializeCandyMachine(available) ==
  /\ ~machine.exists
  /\ EnoughLines(available)
  /\ line[0] # Blank
  /\ machine' = [NoMachine EXCEPT !.exists = TRUE, !.available = available]
  /\ UNCHANGED <<line, mask, count, minted>>

UpdateCandyMachine(date) ==
  /\ machine.exists
  /\ machine' = [machine EXCEPT !.goLive = date]
  /\ UNCHANGED <<line, mask, count, minted>>

DateArrives ==
  /\ machine.goLive = "future"
  /\ machine' = [machine EXCEPT !.goLive = "past"]
  /\ UNCHANGED <<line, mask, count, minted>>

MintNft(payer) ==
  /\ machine.exists
  /\ machine.goLive # "past" => payer = Authority
  /\ machine.redeemed < machine.available
  /\ machine.redeemed <= count
  /\ line[machine.redeemed] # Blank
  /\ minted' = Append(minted, line[machine.redeemed])
  /\ machine' = [machine EXCEPT !.redeemed = @ + 1]
  /\ UNCHANGED <<line, mask, count>>

=============================================================================
