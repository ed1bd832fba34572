------------------------------- MODULE ArtProofs -------------------------------
(***************************************************************************)
(* Proofs about module ArtCreate, for any creators, supplies, tabs and     *)
(* bounds: a number is printed once and within the maximum, a token comes  *)
(* with its link and its master edition, and an approval stays.            *)
(*                                                                         *)
(* First what an instruction does, then what a transaction that lands      *)
(* does, then the inductive invariant ArtInv and a lemma for each step.    *)
(***************************************************************************)
EXTENDS ArtCreate, Recursion, FiniteSetTheorems, SequenceTheorems

-----------------------------------------------------------------------------
(* What an instruction does                                                *)

(* What the accounts of an artwork and of its mint can hold.               *)
People == Others \cup {Seller}
CreatorLists == Seq([who : People, verified : BOOLEAN, share : Nat])
Maxima == Nat \cup {NoLimit}
ArtStates == [made : BOOLEAN, creators : CreatorLists, link : BOOLEAN, master : BOOLEAN,
              max : Maxima, supply : Nat, prints : Seq(Nat)]
MintStates == [made : BOOLEAN, authority : {"wallet", "edition"}, account : BOOLEAN,
               tokens : Nat]
States == [ok : BOOLEAN, art : ArtStates, mint : MintStates]

(* The instructions of the builders.                                       *)
OnMint == {prepPayForFilesTxn, createMint, createAssociatedTokenAccountInstruction,
           createMintToInstruction}
IsInstruction(i) ==
  \/ i \in OnMint
  \/ \E c \in CreatorLists : i \in {createMetadata(c), updateMetadata(c)}
  \/ \E m \in Maxima : i = createMasterEdition(m)
  \/ \E who \in People : i = signMetadata(who)
  \/ \E n \in Nat : i = mintNewEditionFromMasterEditionViaToken(n)

(* These touch the mint only, and only mintTo makes a token.               *)
LEMMA MintEffects ==
  ASSUME NEW s \in States, NEW i \in OnMint
  PROVE  /\ Processed(s, i) \in States /\ Processed(s, i).ok = s.ok
         /\ Processed(s, i).art = s.art
         /\ Processed(s, i).mint.authority = s.mint.authority
         /\ i # createMintToInstruction => Processed(s, i).mint.tokens = s.mint.tokens
         /\ i = createMintToInstruction =>
              /\ Processed(s, i).mint.tokens = s.mint.tokens + 1
              /\ MayProcess(s, i) => s.mint.authority = "wallet"
<1> DEFINE n == Processed(s, i)
<1>1. CASE i = prepPayForFilesTxn
  <2>1. i.op = "pay" /\ i # createMintToInstruction
    BY <1>1 DEF prepPayForFilesTxn, createMintToInstruction, Op
  <2>2. n = s
    BY <2>1 DEF Processed
  <2>3. QED
    BY <2>1, <2>2
<1>2. CASE i = createMint
  <2>1. i.op = "createMint" /\ i # createMintToInstruction
    BY <1>2 DEF createMint, createMintToInstruction, Op
  <2>2. n = [s EXCEPT !.mint.made = TRUE]
    BY <2>1 DEF Processed
  <2> HIDE DEF n
  <2>3. n \in States /\ n.ok = s.ok /\ n.art = s.art /\ n.mint.authority = s.mint.authority
        /\ n.mint.tokens = s.mint.tokens
    BY <2>2 DEF States, MintStates
  <2>4. QED
    BY <2>1, <2>3 DEF n
<1>3. CASE i = createAssociatedTokenAccountInstruction
  <2>1. i.op = "createAccount" /\ i # createMintToInstruction
    BY <1>3 DEF createAssociatedTokenAccountInstruction, createMintToInstruction, Op
  <2>2. n = [s EXCEPT !.mint.account = TRUE]
    BY <2>1 DEF Processed
  <2> HIDE DEF n
  <2>3. n \in States /\ n.ok = s.ok /\ n.art = s.art /\ n.mint.authority = s.mint.authority
        /\ n.mint.tokens = s.mint.tokens
    BY <2>2 DEF States, MintStates
  <2>4. QED
    BY <2>1, <2>3 DEF n
<1>4. CASE i = createMintToInstruction
  <2>1. i.op = "mintTo"
    BY <1>4 DEF createMintToInstruction, Op
  <2>2. n = [s EXCEPT !.mint.tokens = @ + 1]
    BY <2>1 DEF Processed
  <2> HIDE DEF n
  <2>3. s.mint \in MintStates /\ s.mint.tokens + 1 \in Nat
    BY DEF States, MintStates
  <2>4. n \in States /\ n.ok = s.ok /\ n.art = s.art /\ n.mint.authority = s.mint.authority
        /\ n.mint.tokens = s.mint.tokens + 1
    BY <2>2, <2>3 DEF States, MintStates
  <2>5. MayProcess(s, i) => s.mint.authority = "wallet"
    BY <2>1 DEF MayProcess, Rules
  <2>6. QED
    BY <1>4, <2>4, <2>5 DEF n
<1>5. QED
  BY <1>1, <1>2, <1>3, <1>4 DEF OnMint

(* createMetadata writes a new metadata account.                           *)
LEMMA CreateEffects ==
  ASSUME NEW s \in States, NEW c \in CreatorLists
  PROVE  /\ Processed(s, createMetadata(c)) \in States
         /\ Processed(s, createMetadata(c)).ok = s.ok
         /\ Processed(s, createMetadata(c)).art = [NoArt EXCEPT !.made = TRUE, !.creators = c]
         /\ Processed(s, createMetadata(c)).mint = s.mint
<1> DEFINE n == Processed(s, createMetadata(c))
           a == [NoArt EXCEPT !.made = TRUE, !.creators = c]
<1>1. n = [s EXCEPT !.art = a]
  BY DEF Processed, createMetadata
<1>2. a \in ArtStates
  BY EmptySeq DEF NoArt, ArtStates, Maxima
<1> HIDE DEF n, a
<1>3. n \in States /\ n.ok = s.ok /\ n.art = a /\ n.mint = s.mint
  BY <1>1, <1>2 DEF States
<1>4. QED
  BY <1>3 DEF n, a

(* updateMetadata writes the creators and the link.                        *)
LEMMA UpdateEffects ==
  ASSUME NEW s \in States, NEW c \in CreatorLists
  PROVE  /\ Processed(s, updateMetadata(c)) \in States
         /\ Processed(s, updateMetadata(c)).ok = s.ok
         /\ Processed(s, updateMetadata(c)).art = [s.art EXCEPT !.creators = c, !.link = TRUE]
         /\ Processed(s, updateMetadata(c)).mint = s.mint
         /\ MayProcess(s, updateMetadata(c)) => assert_data_valid(c, s.art.creators)
<1> DEFINE n == Processed(s, updateMetadata(c))
<1>1. n = [s EXCEPT !.art.creators = c, !.art.link = TRUE]
  BY DEF Processed, updateMetadata
<1>2. MayProcess(s, updateMetadata(c)) => assert_data_valid(c, s.art.creators)
  BY DEF MayProcess, updateMetadata
<1> HIDE DEF n
<1>3. /\ n \in States /\ n.ok = s.ok /\ n.mint = s.mint
      /\ n.art = [s.art EXCEPT !.creators = c, !.link = TRUE]
  BY <1>1 DEF States, ArtStates
<1>4. QED
  BY <1>2, <1>3 DEF n

(* createMasterEdition closes the mint, which has one token.               *)
LEMMA MasterEffects ==
  ASSUME NEW s \in States, NEW m \in Maxima
  PROVE  /\ Processed(s, createMasterEdition(m)) \in States
         /\ Processed(s, createMasterEdition(m)).ok = s.ok
         /\ Processed(s, createMasterEdition(m)).art = [s.art EXCEPT !.master = TRUE, !.max = m]
         /\ Processed(s, createMasterEdition(m)).mint = [s.mint EXCEPT !.authority = "edition"]
         /\ MayProcess(s, createMasterEdition(m)) => ~s.art.master
<1> DEFINE n == Processed(s, createMasterEdition(m))
<1>1. n = transfer_mint_authority([s EXCEPT !.art.master = TRUE, !.art.max = m])
  BY DEF Processed, createMasterEdition
<1>2. MayProcess(s, createMasterEdition(m)) => ~s.art.master
  BY DEF MayProcess, createMasterEdition
<1> HIDE DEF n
<1> DEFINE t == [s EXCEPT !.art.master = TRUE, !.art.max = m]
<1>3. /\ t \in States /\ t.ok = s.ok /\ t.mint = s.mint
      /\ t.art = [s.art EXCEPT !.master = TRUE, !.max = m]
  BY DEF States, ArtStates
<1>4. n = [t EXCEPT !.mint.authority = "edition"]
  BY <1>1 DEF transfer_mint_authority
<1> HIDE DEF t
<1>5. /\ n \in States /\ n.ok = t.ok /\ n.art = t.art
      /\ n.mint = [t.mint EXCEPT !.authority = "edition"]
  BY <1>3, <1>4 DEF States, MintStates
<1>6. QED
  BY <1>2, <1>3, <1>5 DEF n

(* signMetadata writes the creators.                                       *)
LEMMA SignEffects ==
  ASSUME NEW s \in States, NEW who \in People
  PROVE  /\ Processed(s, signMetadata(who)) \in States
         /\ Processed(s, signMetadata(who)).ok = s.ok
         /\ Processed(s, signMetadata(who)).art =
              [s.art EXCEPT !.creators = process_sign_metadata(@, who)]
         /\ Processed(s, signMetadata(who)).mint = s.mint
<1> DEFINE n == Processed(s, signMetadata(who))
           c == process_sign_metadata(s.art.creators, who)
<1>1. n = [s EXCEPT !.art.creators = process_sign_metadata(@, who)]
  BY DEF Processed, signMetadata
<1>2. s.art.creators \in CreatorLists
  BY DEF States, ArtStates
<1>3. c \in CreatorLists
  <2> DEFINE x == s.art.creators
             C == [who : People, verified : BOOLEAN, share : Nat]
  <2>1. x \in Seq(C) /\ Len(x) \in Nat /\ DOMAIN x = 1..Len(x) /\ \A j \in 1..Len(x) : x[j] \in C
    <3>1. x \in Seq(C)
      BY <1>2 DEF CreatorLists
    <3> HIDE DEF x, C
    <3>2. QED
      BY <3>1, ElementOfSeq
  <2> HIDE DEF x
  <2>2. \A j \in 1..Len(x) : [x[j] EXCEPT !.verified = TRUE] \in C
    BY <2>1
  <2>3. c = [j \in 1..Len(x) |->
               IF x[j].who = who /\ \A k \in 1..j - 1 : x[k].who # who
               THEN [x[j] EXCEPT !.verified = TRUE] ELSE x[j]]
    BY <2>1 DEF process_sign_metadata, x
  <2> HIDE DEF C, c
  <2>4. c \in [1..Len(x) -> C]
    BY <2>1, <2>2, <2>3
  <2>5. QED
    BY <2>1, <2>4 DEF CreatorLists, C
<1>4. n = [s EXCEPT !.art.creators = c]
  BY <1>1 DEF States
<1> HIDE DEF n, c
<1>5. n \in States /\ n.ok = s.ok /\ n.art = [s.art EXCEPT !.creators = c] /\ n.mint = s.mint
  BY <1>3, <1>4 DEF States, ArtStates
<1>6. QED
  BY <1>5 DEF n, c

(* The supply is the largest number given, or more.                        *)
LEMMA SupplyGrows ==
  ASSUME NEW art, art.supply \in Nat, NEW k \in Nat
  PROVE  /\ SupplyAfter(art, k) \in Nat
         /\ k <= SupplyAfter(art, k) /\ art.supply <= SupplyAfter(art, k)
         /\ SupplyAfter(art, k) \in {k, art.supply}
<1> DEFINE S == {k, art.supply}
<1>1. \E x \in S : \A y \in S : x >= y
  OBVIOUS
<1>2. Max(S) \in S /\ \A y \in S : Max(S) >= y
  <2> HIDE DEF S
  <2>1. QED
    BY <1>1, Zenon DEF Max
<1> HIDE DEF S
<1>3. SupplyAfter(art, k) = Max(S)
  BY DEF SupplyAfter, S
<1>4. QED
  BY <1>2, <1>3 DEF S

(* A print takes a number and may raise the supply.                        *)
LEMMA PrintEffects ==
  ASSUME NEW s \in States, NEW k \in Nat
  PROVE  LET i == mintNewEditionFromMasterEditionViaToken(k)
         IN /\ Processed(s, i) \in States /\ Processed(s, i).ok = s.ok
            /\ Processed(s, i).art = [s.art EXCEPT !.prints = Append(@, k),
                                                   !.supply = SupplyAfter(s.art, k)]
            /\ MayProcess(s, i) => s.art.master /\ MayNumber(s.art, k)
<1> DEFINE i == mintNewEditionFromMasterEditionViaToken(k)
           n == Processed(s, i)
           t == [s EXCEPT !.art.prints = Append(@, k), !.art.supply = SupplyAfter(s.art, k)]
           p == Append(s.art.prints, k)
           u == SupplyAfter(s.art, k)
<1>1. n = transfer_mint_authority(t)
  BY DEF Processed, mintNewEditionFromMasterEditionViaToken
<1>2. MayProcess(s, i) => s.art.master /\ MayNumber(s.art, k)
  BY DEF MayProcess, mintNewEditionFromMasterEditionViaToken
<1>3. p \in Seq(Nat) /\ s.art.supply \in Nat
  BY AppendProperties DEF States, ArtStates
<1>4. u \in Nat
  BY <1>3, SupplyGrows
<1>5. t = [s EXCEPT !.art.prints = p, !.art.supply = u]
  BY DEF States
<1> HIDE DEF n, i, t, p, u
<1>6. /\ t \in States /\ t.ok = s.ok
      /\ t.art = [s.art EXCEPT !.prints = p, !.supply = u]
  BY <1>3, <1>4, <1>5 DEF States, ArtStates
<1>7. n = [t EXCEPT !.mint.authority = "edition"]
  BY <1>1 DEF transfer_mint_authority
<1>8. n \in States /\ n.ok = t.ok /\ n.art = t.art
  BY <1>6, <1>7 DEF States, MintStates
<1>9. QED
  BY <1>2, <1>6, <1>8 DEF n, i, p, u

(* What holds of the numbers of an artwork's prints: each is there once,   *)
(* and the supply covers them within the maximum.                          *)
Numbered(art) ==
  /\ IsInjective(art.prints)
  /\ \A i \in DOMAIN art.prints : art.prints[i] <= art.supply
  /\ art.max # NoLimit => art.supply <= art.max
  /\ ~art.master => art.supply = 0 /\ art.prints = <<>>

(* The wallets that an artwork names as its creators.                      *)
Names(list) == {list[i].who : i \in DOMAIN list}

(* A new number appended to distinct ones leaves them distinct.            *)
LEMMA NumberedPrints ==
  ASSUME NEW art \in ArtStates, Numbered(art), NEW k \in Nat, art.master, MayNumber(art, k)
  PROVE  Numbered([art EXCEPT !.prints = Append(@, k), !.supply = SupplyAfter(art, k)])
<1> DEFINE p == art.prints
           q == Append(p, k)
           u == SupplyAfter(art, k)
           n == [art EXCEPT !.prints = Append(@, k), !.supply = SupplyAfter(art, k)]
<1>1. n.prints = q /\ n.supply = u /\ n.max = art.max /\ n.master = art.master
  BY DEF ArtStates
<1>2. p \in Seq(Nat) /\ art.supply \in Nat /\ art.max \in Maxima
  BY DEF ArtStates
<1>3. u \in Nat /\ k <= u /\ art.supply <= u
  BY <1>2, SupplyGrows
<1>4. /\ k \notin ToSet(p) /\ (art.max # NoLimit => u <= art.max)
      /\ IsInjective(p) /\ \A i \in DOMAIN p : p[i] <= art.supply
  BY DEF MayNumber, WithinSupply, Numbered
<1> HIDE DEF u, n
<1>5. /\ q \in Seq(Nat) /\ Len(p) \in Nat /\ DOMAIN p = 1..Len(p)
      /\ DOMAIN q = 1..(Len(p) + 1) /\ q[Len(p) + 1] = k
      /\ \A i \in 1..Len(p) : q[i] = p[i] /\ p[i] \in Nat
  <2>1. q \in Seq(Nat) /\ Len(q) = Len(p) + 1 /\ q[Len(p) + 1] = k
        /\ \A i \in 1..Len(p) : q[i] = p[i]
    BY <1>2, AppendProperties
  <2> HIDE DEF p, q
  <2>2. QED
    BY <1>2, <2>1, ElementOfSeq
<1> HIDE DEF p, q
<1>6. \A i \in 1..Len(p) : p[i] # k
  BY <1>4, <1>5 DEF ToSet
<1>7. \A i \in DOMAIN q : i \in 1..Len(p) \/ i = Len(p) + 1
  BY <1>5
<1>8. IsInjective(q)
  <2> SUFFICES ASSUME NEW i \in DOMAIN q, NEW j \in DOMAIN q, q[i] = q[j] PROVE i = j
    BY DEF IsInjective
  <2>1. CASE i \in 1..Len(p) /\ j \in 1..Len(p)
    BY <1>4, <1>5, <2>1 DEF IsInjective
  <2>2. QED
    BY <1>5, <1>6, <1>7, <2>1
<1>9. \A i \in DOMAIN q : q[i] <= u
  <2> SUFFICES ASSUME NEW i \in DOMAIN q PROVE q[i] <= u
    OBVIOUS
  <2>1. CASE i \in 1..Len(p)
    <3>1. q[i] \in Nat /\ q[i] <= art.supply
      BY <1>4, <1>5, <2>1
    <3>2. QED
      BY <1>2, <1>3, <3>1
  <2>2. CASE i = Len(p) + 1
    BY <1>3, <1>5, <2>2
  <2>3. QED
    BY <1>7, <2>1, <2>2
<1>10. Numbered(n)
  BY <1>1, <1>4, <1>8, <1>9 DEF Numbered
<1>11. QED
  BY <1>10 DEF n

(* What an instruction does that is let through, and that one that is not  *)
(* changes nothing.                                                        *)
LEMMA RunEffects ==
  ASSUME NEW s \in States, NEW i, IsInstruction(i)
  PROVE  /\ Run(s, i) \in States
         /\ Run(s, i).ok => s.ok /\ MayProcess(s, i) /\ Run(s, i) = Processed(s, i)
         /\ Numbered(s.art) => Numbered(Run(s, i).art)
<1> DEFINE n == Processed(s, i)
<1>1. [s EXCEPT !.ok = FALSE] \in States /\ ~[s EXCEPT !.ok = FALSE].ok
      /\ [s EXCEPT !.ok = FALSE].art = s.art
  BY DEF States
<1>2. s.art \in ArtStates
  BY DEF States
<1>3. ASSUME MayProcess(s, i)
      PROVE  n \in States /\ (Numbered(s.art) => Numbered(n.art))
  <2>1. CASE i \in OnMint
    BY <2>1, MintEffects
  <2>2. ASSUME NEW c \in CreatorLists, i = createMetadata(c)
        PROVE  n \in States /\ (Numbered(s.art) => Numbered(n.art))
    <3> DEFINE a == [NoArt EXCEPT !.made = TRUE, !.creators = c]
    <3>1. n \in States /\ n.art = a
      BY <2>2, CreateEffects
    <3>2. a.prints = <<>> /\ a.supply = 0 /\ a.max = NoLimit
      BY DEF NoArt
    <3>3. Numbered(a)
      BY <3>2 DEF Numbered, IsInjective
    <3> HIDE DEF a, n
    <3>4. QED
      BY <3>1, <3>3
  <2>3. ASSUME NEW c \in CreatorLists, i = updateMetadata(c)
        PROVE  n \in States /\ (Numbered(s.art) => Numbered(n.art))
    <3>1. n \in States /\ n.art = [s.art EXCEPT !.creators = c, !.link = TRUE]
      BY <2>3, UpdateEffects
    <3> HIDE DEF n
    <3>2. /\ n.art.prints = s.art.prints /\ n.art.supply = s.art.supply
          /\ n.art.max = s.art.max /\ n.art.master = s.art.master
      BY <1>2, <3>1 DEF ArtStates
    <3>3. QED
      BY <3>1, <3>2 DEF Numbered
  <2>4. ASSUME NEW m \in Maxima, i = createMasterEdition(m)
        PROVE  n \in States /\ (Numbered(s.art) => Numbered(n.art))
    <3>1. n \in States /\ n.art = [s.art EXCEPT !.master = TRUE, !.max = m] /\ ~s.art.master
      BY <1>3, <2>4, MasterEffects
    <3> HIDE DEF n
    <3>2. /\ n.art.prints = s.art.prints /\ n.art.supply = s.art.supply
          /\ n.art.max = m /\ n.art.master
      BY <1>2, <3>1 DEF ArtStates
    <3>3. m # NoLimit => 0 <= m
      BY DEF Maxima
    <3>4. QED
      BY <3>1, <3>2, <3>3 DEF Numbered
  <2>5. ASSUME NEW who \in People, i = signMetadata(who)
        PROVE  n \in States /\ (Numbered(s.art) => Numbered(n.art))
    <3>1. n \in States /\ n.art = [s.art EXCEPT !.creators = process_sign_metadata(@, who)]
      BY <2>5, SignEffects
    <3> HIDE DEF n
    <3>2. /\ n.art.prints = s.art.prints /\ n.art.supply = s.art.supply
          /\ n.art.max = s.art.max /\ n.art.master = s.art.master
      BY <1>2, <3>1 DEF ArtStates
    <3>3. QED
      BY <3>1, <3>2 DEF Numbered
  <2>6. ASSUME NEW k \in Nat, i = mintNewEditionFromMasterEditionViaToken(k)
        PROVE  n \in States /\ (Numbered(s.art) => Numbered(n.art))
    <3>1. /\ n \in States /\ s.art.master /\ MayNumber(s.art, k)
          /\ n.art = [s.art EXCEPT !.prints = Append(@, k), !.supply = SupplyAfter(s.art, k)]
      BY <1>3, <2>6, PrintEffects
    <3> HIDE DEF n
    <3>2. QED
      BY <1>2, <3>1, NumberedPrints
  <2>7. QED
    BY <2>1, <2>2, <2>3, <2>4, <2>5, <2>6 DEF IsInstruction
<1>4. CASE s.ok /\ MayProcess(s, i)
  <2>1. Run(s, i) = n
    BY <1>4 DEF Run
  <2> HIDE DEF n
  <2>2. QED
    BY <1>3, <1>4, <2>1 DEF n
<1>5. CASE ~(s.ok /\ MayProcess(s, i))
  <2>1. Run(s, i) = [s EXCEPT !.ok = FALSE]
    BY <1>5 DEF Run
  <2>2. QED
    BY <1>1, <2>1
<1>6. QED
  BY <1>4, <1>5

(* r runs through the instructions of a transaction.                       *)
Running(r, art, mint, instructions) ==
  /\ r[0] = [ok |-> TRUE, art |-> art, mint |-> mint]
  /\ \A k \in 1..Len(instructions) : r[k] = Run(r[k - 1], instructions[k])
  /\ Transact(art, mint, instructions) = r[Len(instructions)]

(* The transactions of the pages are short.                                *)
LEMMA TransactionRuns ==
  ASSUME NEW art, NEW mint, NEW ins, Len(ins) \in 1..4
  PROVE  \E r : Running(r, art, mint, ins)
<1> DEFINE l == Len(ins)
           v0 == [ok |-> TRUE, art |-> art, mint |-> mint]
           v1 == Run(v0, ins[1])
           v2 == Run(v1, ins[2])
           v3 == Run(v2, ins[3])
           v4 == Run(v3, ins[4])
           f == [k \in 0..l |-> CASE k = 0 -> v0 [] k = 1 -> v1 [] k = 2 -> v2
                                  [] k = 3 -> v3 [] OTHER -> v4]
           Entry(r, k) == IF k = 0 THEN v0 ELSE Run(r[k - 1], ins[k])
           IsFound(r) == r = [k \in 0..l |-> Entry(r, k)]
           found == CHOOSE r : IsFound(r)
<1>a. l \in 1..4
  OBVIOUS
<1>0. v1 = Run(v0, ins[1]) /\ v2 = Run(v1, ins[2]) /\ v3 = Run(v2, ins[3]) /\ v4 = Run(v3, ins[4])
  OBVIOUS
<1>1. IsFound(f)
  <2> HIDE DEF v0, v1, v2, v3, v4
  <2>1. \A k \in 0..l : k \in {0, 1, 2, 3, 4}
    <3> HIDE DEF l
    <3>1. QED
      BY <1>a
  <2>2. \A k \in 0..l : f[k] = Entry(f, k)
    <3> SUFFICES ASSUME NEW k \in 0..l PROVE f[k] = Entry(f, k)
      OBVIOUS
    <3>1. CASE k = 0
      BY <3>1
    <3>2. CASE k = 1
      BY <1>0, <3>2
    <3>3. CASE k = 2
      BY <1>0, <3>3
    <3>4. CASE k = 3
      BY <1>0, <3>4
    <3>5. CASE k = 4
      BY <1>0, <3>5
    <3>6. QED
      BY <2>1, <3>1, <3>2, <3>3, <3>4, <3>5
  <2>3. f = [k \in 0..l |-> f[k]]
    OBVIOUS
  <2> HIDE DEF f, Entry
  <2>4. QED
    BY <2>2, <2>3
<1> HIDE DEF v1, v2, v3, v4, f
<1>2. IsFound(found)
  <2> HIDE DEF IsFound
  <2>1. QED
    BY <1>1, Zenon DEF found
<1>3. Transact(art, mint, ins) = found[l]
  BY Zenon DEF Transact
<1> HIDE DEF found
<1>4. \A k \in 0..l : found[k] = Entry(found, k)
  <2> HIDE DEF Entry, v0
  <2>1. QED
    BY <1>2
<1>5. l \in Nat /\ 0 \in 0..l /\ \A k \in 1..l : k \in 0..l /\ k # 0
  OBVIOUS
<1>6. found[0] = v0 /\ \A k \in 1..l : found[k] = Run(found[k - 1], ins[k])
  <2> HIDE DEF v0, l
  <2>1. QED
    BY <1>4, <1>5
<1>7. Running(found, art, mint, ins)
  BY <1>3, <1>6 DEF Running
<1> HIDE DEF IsFound
<1>8. QED
  BY <1>7

(* In the run r of a transaction every instruction is let through.         *)
Landing(r, art, mint, ins) ==
  /\ r[0] = [ok |-> TRUE, art |-> art, mint |-> mint]
  /\ \A k \in 0..Len(ins) : r[k] \in States /\ (Numbered(art) => Numbered(r[k].art))
  /\ \A k \in 1..Len(ins) : MayProcess(r[k - 1], ins[k]) /\ r[k] = Processed(r[k - 1], ins[k])
  /\ Transact(art, mint, ins) = r[Len(ins)]

(* A transaction that lands went through all of its instructions.          *)
LEMMA TransactionLands ==
  ASSUME NEW art \in ArtStates, NEW mint \in MintStates, NEW ins, Len(ins) \in 1..4,
         \A k \in 1..Len(ins) : IsInstruction(ins[k]),
         Transact(art, mint, ins).ok
  PROVE  \E r : Landing(r, art, mint, ins)
<1> DEFINE l == Len(ins)
<1>1. PICK r : Running(r, art, mint, ins)
  BY TransactionRuns
<1> DEFINE Done(k) == \A m \in 1..k : MayProcess(r[m - 1], ins[m]) /\ r[m] = Processed(r[m - 1], ins[m])
           Good(k) == r[k] \in States /\ (Numbered(art) => Numbered(r[k].art))
           G == {k \in 0..l : (\A m \in 0..k : Good(m)) /\ (r[k].ok => Done(k))}
<1>2. /\ r[0] = [ok |-> TRUE, art |-> art, mint |-> mint]
      /\ \A k \in 1..l : r[k] = Run(r[k - 1], ins[k])
      /\ Transact(art, mint, ins) = r[l]
  BY <1>1 DEF Running
<1>3. l \in Nat /\ l \in 1..4
  OBVIOUS
<1> HIDE DEF l
<1>4. 0 \in G
  <2>1. r[0] \in States /\ r[0].art = art
    BY <1>2 DEF States
  <2>2. QED
    BY <1>3, <2>1
<1>5. ASSUME NEW k \in 1..l, k - 1 \in G PROVE k \in G
  <2> DEFINE p == r[k - 1]
  <2>1. p \in States /\ (Numbered(art) => Numbered(p.art)) /\ (p.ok => Done(k - 1))
        /\ \A m \in 0..(k - 1) : Good(m)
    BY <1>5, <1>3
  <2>2. IsInstruction(ins[k]) /\ r[k] = Run(p, ins[k])
    BY <1>2 DEF l
  <2>3. /\ Run(p, ins[k]) \in States
        /\ Run(p, ins[k]).ok => p.ok /\ MayProcess(p, ins[k]) /\ Run(p, ins[k]) = Processed(p, ins[k])
        /\ Numbered(p.art) => Numbered(Run(p, ins[k]).art)
    <3> HIDE DEF p
    <3>1. QED
      BY <2>1, <2>2, RunEffects
  <2>4. Good(k)
    BY <2>1, <2>2, <2>3
  <2>5. r[k].ok => MayProcess(p, ins[k]) /\ r[k] = Processed(p, ins[k]) /\ Done(k - 1)
    BY <2>1, <2>2, <2>3
  <2> HIDE DEF Good
  <2>6. \A m \in 0..k : Good(m)
    <3>1. \A m \in 0..k : m \in 0..(k - 1) \/ m = k
      BY <1>3
    <3>2. QED
      BY <2>1, <2>4, <3>1
  <2>7. r[k].ok => Done(k)
    <3>1. \A m \in 1..k : m \in 1..(k - 1) \/ m = k
      BY <1>3
    <3>2. QED
      BY <2>5, <3>1
  <2> HIDE DEF Done
  <2>8. k \in 0..l
    BY <1>3
  <2>9. QED
    BY <2>6, <2>7, <2>8
<1> HIDE DEF G
<1>6. l \in G
  BY <1>3, <1>4, <1>5, StepByStep
<1>7. Done(l) /\ \A k \in 0..l : Good(k)
  <2> HIDE DEF Done, Good
  <2>1. (\A m \in 0..l : Good(m)) /\ (r[l].ok => Done(l))
    BY <1>6 DEF G
  <2>2. r[l].ok
    BY <1>2
  <2>3. QED
    BY <2>1, <2>2
<1>8. Landing(r, art, mint, ins)
  BY <1>2, <1>7 DEF Landing, l
<1> HIDE DEF l
<1>9. QED
  BY <1>8

(* The states that a transaction starts from.                              *)
LEMMA NothingYet == NoArt \in ArtStates /\ NoMint \in MintStates /\ Numbered(NoArt)
  BY EmptySeq DEF NoArt, NoMint, ArtStates, MintStates, CreatorLists, Maxima, Numbered, IsInjective

(* The transactions of the pages.                                          *)
FirstOf(c) ==
  <<prepPayForFilesTxn, createMint, createAssociatedTokenAccountInstruction, createMetadata(c)>>
SecondOf(c, m) == <<updateMetadata(c), createMintToInstruction, createMasterEdition(m)>>

(* The first makes the metadata and the mint, and no token.                *)
LEMMA FirstLands ==
  ASSUME NEW c \in CreatorLists, Transact(NoArt, NoMint, FirstOf(c)).ok
  PROVE  LET s == Transact(NoArt, NoMint, FirstOf(c))
         IN /\ s.art \in ArtStates /\ s.mint \in MintStates /\ Numbered(s.art)
            /\ s.art.creators = c /\ s.mint.tokens = 0
<1> DEFINE ins == FirstOf(c)
           s == Transact(NoArt, NoMint, ins)
<1>1. /\ Len(ins) = 4 /\ ins[1] = prepPayForFilesTxn /\ ins[2] = createMint
      /\ ins[3] = createAssociatedTokenAccountInstruction /\ ins[4] = createMetadata(c)
  BY DEF FirstOf
<1> HIDE DEF ins
<1>2. \A k \in 1..Len(ins) : IsInstruction(ins[k])
  <2>1. \A k \in 1..4 : k \in {1, 2, 3, 4}
    OBVIOUS
  <2>2. \A k \in {1, 2, 3, 4} : IsInstruction(ins[k])
    BY <1>1 DEF IsInstruction, OnMint
  <2>3. QED
    BY <1>1, <2>1, <2>2
<1>3. PICK r : Landing(r, NoArt, NoMint, ins)
  <2>1. Len(ins) \in 1..4 /\ s.ok
    BY <1>1 DEF ins
  <2>2. QED
    BY <1>2, <2>1, NothingYet, TransactionLands
<1>4. /\ r[0] = [ok |-> TRUE, art |-> NoArt, mint |-> NoMint]
      /\ r[0] \in States /\ r[1] \in States /\ r[2] \in States /\ r[3] \in States
      /\ r[4] \in States /\ Numbered(r[4].art)
      /\ r[1] = Processed(r[0], ins[1]) /\ r[2] = Processed(r[1], ins[2])
      /\ r[3] = Processed(r[2], ins[3]) /\ r[4] = Processed(r[3], ins[4])
      /\ s = r[4]
  <2>1. /\ \A k \in 0..4 : r[k] \in States /\ Numbered(r[k].art)
        /\ \A k \in 1..4 : r[k] = Processed(r[k - 1], ins[k])
        /\ s = r[4]
        /\ r[0] = [ok |-> TRUE, art |-> NoArt, mint |-> NoMint]
    BY <1>1, <1>3, NothingYet DEF Landing
  <2> HIDE DEF s
  <2>2. QED
    BY <2>1
<1>5. r[0].mint.tokens = 0
  BY <1>4 DEF NoMint
<1>6. r[1].mint.tokens = 0
  BY <1>1, <1>4, <1>5, MintEffects DEF OnMint, prepPayForFilesTxn, createMintToInstruction, Op
<1>7. r[2].mint.tokens = 0
  BY <1>1, <1>4, <1>6, MintEffects DEF OnMint, createMint, createMintToInstruction, Op
<1>8. r[3].mint.tokens = 0
  BY <1>1, <1>4, <1>7, MintEffects
     DEF OnMint, createAssociatedTokenAccountInstruction, createMintToInstruction, Op
<1>9. r[4].mint.tokens = 0 /\ r[4].art.creators = c
  <2>1. r[4].mint = r[3].mint /\ r[4].art = [NoArt EXCEPT !.made = TRUE, !.creators = c]
    <3>1. r[4] = Processed(r[3], createMetadata(c)) /\ r[3] \in States
      BY <1>1, <1>4
    <3>2. /\ Processed(r[3], createMetadata(c)).mint = r[3].mint
          /\ Processed(r[3], createMetadata(c)).art =
               [NoArt EXCEPT !.made = TRUE, !.creators = c]
      BY <3>1, CreateEffects
    <3>3. QED
      BY <3>1, <3>2
  <2>2. QED
    BY <1>8, <2>1 DEF NoArt
<1> HIDE DEF s
<1>10. s.art \in ArtStates /\ s.mint \in MintStates /\ Numbered(s.art)
       /\ s.art.creators = c /\ s.mint.tokens = 0
  BY <1>4, <1>9 DEF States
<1>11. QED
  BY <1>10 DEF s, ins

(* The second mints to a mint of the wallet's, which had no token; it ends *)
(* with one token under a master edition.                                  *)
LEMMA SecondLands ==
  ASSUME NEW art \in ArtStates, NEW mint \in MintStates, Numbered(art),
         mint.tokens > 0 => mint.authority = "edition",
         NEW c \in CreatorLists, NEW m \in Maxima,
         Transact(art, mint, SecondOf(c, m)).ok
  PROVE  LET s == Transact(art, mint, SecondOf(c, m))
         IN /\ s.art \in ArtStates /\ s.mint \in MintStates /\ Numbered(s.art)
            /\ s.art.creators = c /\ assert_data_valid(c, art.creators)
            /\ s.mint.tokens = 1 /\ s.mint.authority = "edition"
            /\ s.art.link /\ s.art.master
<1> DEFINE ins == SecondOf(c, m)
           s == Transact(art, mint, ins)
<1>1. /\ Len(ins) = 3 /\ ins[1] = updateMetadata(c) /\ ins[2] = createMintToInstruction
      /\ ins[3] = createMasterEdition(m)
  BY DEF SecondOf
<1> HIDE DEF ins
<1>2. \A k \in 1..Len(ins) : IsInstruction(ins[k])
  <2>1. \A k \in 1..3 : k \in {1, 2, 3}
    OBVIOUS
  <2>2. \A k \in {1, 2, 3} : IsInstruction(ins[k])
    BY <1>1 DEF IsInstruction, OnMint
  <2>3. QED
    BY <1>1, <2>1, <2>2
<1>3. PICK r : Landing(r, art, mint, ins)
  <2>1. Len(ins) \in 1..4 /\ s.ok
    BY <1>1 DEF ins
  <2>2. QED
    BY <1>2, <2>1, TransactionLands
<1>4. /\ r[0] = [ok |-> TRUE, art |-> art, mint |-> mint]
      /\ r[0] \in States /\ r[1] \in States /\ r[2] \in States
      /\ r[3] \in States /\ Numbered(r[3].art)
      /\ r[1] = Processed(r[0], ins[1]) /\ r[2] = Processed(r[1], ins[2])
      /\ r[3] = Processed(r[2], ins[3])
      /\ MayProcess(r[0], ins[1]) /\ MayProcess(r[1], ins[2])
      /\ s = r[3]
  <2>1. /\ \A k \in 0..3 : r[k] \in States /\ Numbered(r[k].art)
        /\ \A k \in 1..3 : r[k] = Processed(r[k - 1], ins[k]) /\ MayProcess(r[k - 1], ins[k])
        /\ s = r[3]
        /\ r[0] = [ok |-> TRUE, art |-> art, mint |-> mint]
    BY <1>1, <1>3 DEF Landing
  <2> HIDE DEF s
  <2>2. QED
    BY <2>1
<1>5. /\ r[1].art = [art EXCEPT !.creators = c, !.link = TRUE] /\ r[1].mint = mint
      /\ assert_data_valid(c, art.creators)
  <2>1. /\ r[1].art = [r[0].art EXCEPT !.creators = c, !.link = TRUE] /\ r[1].mint = r[0].mint
        /\ assert_data_valid(c, r[0].art.creators)
    <3>1. /\ r[1] = Processed(r[0], updateMetadata(c)) /\ r[0] \in States
          /\ MayProcess(r[0], updateMetadata(c))
      BY <1>1, <1>4
    <3>2. /\ Processed(r[0], updateMetadata(c)).mint = r[0].mint
          /\ Processed(r[0], updateMetadata(c)).art =
               [r[0].art EXCEPT !.creators = c, !.link = TRUE]
          /\ assert_data_valid(c, r[0].art.creators)
      BY <3>1, UpdateEffects
    <3>3. QED
      BY <3>1, <3>2
  <2>2. QED
    BY <1>4, <2>1
<1>6. /\ r[2].art = r[1].art /\ r[2].mint.tokens = mint.tokens + 1 /\ mint.authority = "wallet"
  <2>1. createMintToInstruction \in OnMint
    BY DEF OnMint
  <2>2. /\ r[2].art = r[1].art /\ r[2].mint.tokens = r[1].mint.tokens + 1
        /\ r[1].mint.authority = "wallet"
    BY <1>1, <1>4, <2>1, MintEffects
  <2>3. QED
    BY <1>5, <2>2
<1>7. mint.tokens = 0
  BY <1>6 DEF MintStates
<1>8. r[3].art = [r[2].art EXCEPT !.master = TRUE, !.max = m]
      /\ r[3].mint = [r[2].mint EXCEPT !.authority = "edition"]
  <2>1. r[3] = Processed(r[2], createMasterEdition(m)) /\ r[2] \in States
    BY <1>1, <1>4
  <2>2. /\ Processed(r[2], createMasterEdition(m)).mint = [r[2].mint EXCEPT !.authority = "edition"]
        /\ Processed(r[2], createMasterEdition(m)).art =
             [r[2].art EXCEPT !.master = TRUE, !.max = m]
    BY <2>1, MasterEffects
  <2>3. QED
    BY <2>1, <2>2
<1>9. r[2].mint \in MintStates /\ r[2].art \in ArtStates /\ r[2].mint.tokens = 1
  BY <1>4, <1>6, <1>7 DEF States
<1>10. r[3].mint.tokens = 1 /\ r[3].mint.authority = "edition"
  BY <1>8, <1>9 DEF MintStates
<1>11. r[2].art.creators = c /\ r[2].art.link
  BY <1>5, <1>6 DEF ArtStates
<1>12. r[3].art.creators = c /\ r[3].art.link /\ r[3].art.master
  BY <1>8, <1>9, <1>11 DEF ArtStates
<1> HIDE DEF s
<1>13. /\ s.art \in ArtStates /\ s.mint \in MintStates /\ Numbered(s.art)
       /\ s.art.creators = c /\ assert_data_valid(c, art.creators)
       /\ s.mint.tokens = 1 /\ s.mint.authority = "edition"
       /\ s.art.link /\ s.art.master
  BY <1>4, <1>5, <1>10, <1>12 DEF States
<1>14. QED
  BY <1>13 DEF s, ins

(* Only the approval of one creator is written.                            *)
LEMMA SignLands ==
  ASSUME NEW art \in ArtStates, NEW mint \in MintStates, Numbered(art), NEW who \in People,
         Transact(art, mint, <<signMetadata(who)>>).ok
  PROVE  LET s == Transact(art, mint, <<signMetadata(who)>>)
         IN /\ s.art \in ArtStates /\ Numbered(s.art)
            /\ s.art.creators = process_sign_metadata(art.creators, who)
            /\ s.art.link = art.link /\ s.art.master = art.master
<1> DEFINE ins == <<signMetadata(who)>>
           s == Transact(art, mint, ins)
<1>1. Len(ins) = 1 /\ ins[1] = signMetadata(who)
  OBVIOUS
<1>2. s.ok
  OBVIOUS
<1> HIDE DEF ins
<1>3. \A k \in 1..Len(ins) : IsInstruction(ins[k])
  BY <1>1 DEF IsInstruction
<1>4. PICK r : Landing(r, art, mint, ins)
  <2>1. Len(ins) \in 1..4
    BY <1>1
  <2>2. QED
    BY <1>2, <1>3, <2>1, TransactionLands
<1>5. /\ r[0] = [ok |-> TRUE, art |-> art, mint |-> mint] /\ r[0] \in States
      /\ r[1] \in States /\ Numbered(r[1].art)
      /\ r[1] = Processed(r[0], ins[1]) /\ s = r[1]
  <2>1. /\ \A k \in 0..1 : r[k] \in States /\ Numbered(r[k].art)
        /\ \A k \in 1..1 : r[k] = Processed(r[k - 1], ins[k])
        /\ s = r[1]
        /\ r[0] = [ok |-> TRUE, art |-> art, mint |-> mint]
    BY <1>1, <1>4 DEF Landing
  <2> HIDE DEF s
  <2>2. QED
    BY <2>1
<1>6. r[1].art = [r[0].art EXCEPT !.creators = process_sign_metadata(@, who)]
  BY <1>1, <1>5, SignEffects
<1>7. r[0].art = art
  BY <1>5
<1>8. /\ r[1].art.creators = process_sign_metadata(art.creators, who)
      /\ r[1].art.link = art.link /\ r[1].art.master = art.master
  BY <1>6, <1>7 DEF ArtStates
<1> HIDE DEF s
<1>9. /\ s.art \in ArtStates /\ Numbered(s.art)
      /\ s.art.creators = process_sign_metadata(art.creators, who)
      /\ s.art.link = art.link /\ s.art.master = art.master
  BY <1>5, <1>8 DEF States
<1>10. QED
  BY <1>9 DEF s, ins

(* A print leaves the artwork's creators, link and master edition.         *)
LEMMA PrintLands ==
  ASSUME NEW art \in ArtStates, Numbered(art), NEW n \in Nat,
         Transact(art, NoMint, setupMintEditionIntoWalletInstructions(n)).ok
  PROVE  LET s == Transact(art, NoMint, setupMintEditionIntoWalletInstructions(n))
         IN /\ s.art \in ArtStates /\ Numbered(s.art)
            /\ s.art.creators = art.creators
            /\ s.art.link = art.link /\ s.art.master = art.master
<1> DEFINE ins == setupMintEditionIntoWalletInstructions(n)
           s == Transact(art, NoMint, ins)
<1>1. /\ Len(ins) = 4 /\ ins[1] = createMint
      /\ ins[2] = createAssociatedTokenAccountInstruction /\ ins[3] = createMintToInstruction
      /\ ins[4] = mintNewEditionFromMasterEditionViaToken(n)
  BY DEF setupMintEditionIntoWalletInstructions, createMintAndAccountWithOne
<1>2. s.ok
  OBVIOUS
<1> HIDE DEF ins
<1>3. \A k \in 1..Len(ins) : IsInstruction(ins[k])
  <2>1. \A k \in 1..4 : k \in {1, 2, 3, 4}
    OBVIOUS
  <2>2. \A k \in {1, 2, 3, 4} : IsInstruction(ins[k])
    BY <1>1 DEF IsInstruction, OnMint
  <2>3. QED
    BY <1>1, <2>1, <2>2
<1>4. PICK r : Landing(r, art, NoMint, ins)
  <2>1. Len(ins) \in 1..4
    BY <1>1
  <2>2. QED
    BY <1>2, <1>3, <2>1, NothingYet, TransactionLands
<1>5. /\ r[0] = [ok |-> TRUE, art |-> art, mint |-> NoMint]
      /\ r[0] \in States /\ r[1] \in States /\ r[2] \in States /\ r[3] \in States
      /\ r[4] \in States /\ Numbered(r[4].art)
      /\ r[1] = Processed(r[0], ins[1]) /\ r[2] = Processed(r[1], ins[2])
      /\ r[3] = Processed(r[2], ins[3]) /\ r[4] = Processed(r[3], ins[4])
      /\ s = r[4]
  <2>1. /\ \A k \in 0..4 : r[k] \in States /\ Numbered(r[k].art)
        /\ \A k \in 1..4 : r[k] = Processed(r[k - 1], ins[k])
        /\ s = r[4]
        /\ r[0] = [ok |-> TRUE, art |-> art, mint |-> NoMint]
    BY <1>1, <1>4 DEF Landing
  <2> HIDE DEF s
  <2>2. QED
    BY <2>1
<1>6. r[3].art = art
  <2>1. r[1].art = r[0].art
    BY <1>1, <1>5, MintEffects DEF OnMint
  <2>2. r[2].art = r[1].art
    BY <1>1, <1>5, MintEffects DEF OnMint
  <2>3. r[3].art = r[2].art
    BY <1>1, <1>5, MintEffects DEF OnMint
  <2>4. QED
    BY <1>5, <2>1, <2>2, <2>3
<1>7. r[4].art = [art EXCEPT !.prints = Append(@, n), !.supply = SupplyAfter(art, n)]
  <2>1. r[4].art = [r[3].art EXCEPT !.prints = Append(@, n), !.supply = SupplyAfter(r[3].art, n)]
    <3>1. r[4] = Processed(r[3], mintNewEditionFromMasterEditionViaToken(n)) /\ r[3] \in States
      BY <1>1, <1>5
    <3>2. Processed(r[3], mintNewEditionFromMasterEditionViaToken(n)).art =
            [r[3].art EXCEPT !.prints = Append(@, n), !.supply = SupplyAfter(r[3].art, n)]
      BY <3>1, PrintEffects
    <3>3. QED
      BY <3>1, <3>2
  <2>2. QED
    BY <1>6, <2>1
<1>8. r[4].art.creators = art.creators /\ r[4].art.link = art.link
      /\ r[4].art.master = art.master
  BY <1>7 DEF ArtStates
<1> HIDE DEF s
<1>9. /\ s.art \in ArtStates /\ Numbered(s.art)
      /\ s.art.creators = art.creators
      /\ s.art.link = art.link /\ s.art.master = art.master
  BY <1>5, <1>8 DEF States
<1>10. QED
  BY <1>9 DEF s, ins

-----------------------------------------------------------------------------
(* The inductive invariant                                                 *)

Royalties == Seq([who : People, share : Nat])
JobStates == [pc : {"pay", "upload", "update", "done", "stuck", "shown"},
              creators : CreatorLists, max : Maxima, art : Nat]
TabStates == [read : Nat, todo : Seq(Nat), failed : BOOLEAN]

PageInv == max \in Maxima /\ creators \in CreatorLists /\ royalties \in Royalties

(* A job whose artwork is made names the creators that are on chain: what  *)
(* the second transaction writes takes no creator away.                    *)
SameCreators(job, as) ==
  job.pc \in {"upload", "update"} =>
    job.art \in DOMAIN as /\ Names(as[job.art].creators) = Names(job.creators)
JobsInv == jobs \in Seq(JobStates) /\ \A j \in DOMAIN jobs : SameCreators(jobs[j], arts)

(* The token of a mint comes with the link and the master edition.         *)
Whole(art, mint) ==
  mint.tokens > 0 =>
    mint.tokens = 1 /\ mint.authority = "edition" /\ art.link /\ art.master
ArtsInv ==
  /\ arts \in Seq(ArtStates) /\ mints \in Seq(MintStates) /\ Len(mints) = Len(arts)
  /\ \A a \in DOMAIN arts : Numbered(arts[a]) /\ Whole(arts[a], mints[a])

TabsInv ==
  /\ tabs \in [Tabs -> TabStates]
  /\ \A t \in Tabs : tabs[t].todo # <<>> => Len(arts) > 0

ArtInv == PageInv /\ JobsInv /\ ArtsInv /\ TabsInv

-----------------------------------------------------------------------------
(* Lemmas about lists                                                      *)

(* A list with one entry replaced.                                         *)
LEMMA ReplacedInList ==
  ASSUME NEW S, NEW q \in Seq(S), NEW a \in DOMAIN q, NEW x \in S,
         NEW r, r = [q EXCEPT ![a] = x]
  PROVE  /\ r \in Seq(S) /\ Len(r) = Len(q) /\ DOMAIN r = DOMAIN q /\ r[a] = x
         /\ \A b \in DOMAIN q : b # a => r[b] = q[b]
<1>1. DOMAIN q = 1..Len(q)
  OBVIOUS
<1>2. r \in Seq(S) /\ Len(r) = Len(q)
  BY <1>1, ExceptSeq
<1>3. QED
  BY <1>1, <1>2

(* A list mapped entry by entry.                                           *)
LEMMA MappedList ==
  ASSUME NEW S, NEW T, NEW q \in Seq(S), NEW r, DOMAIN r = DOMAIN q, r = [i \in DOMAIN q |-> r[i]],
         \A i \in 1..Len(q) : r[i] \in T
  PROVE  r \in Seq(T) /\ Len(r) = Len(q)
<1>1. DOMAIN q = 1..Len(q) /\ Len(q) \in Nat
  OBVIOUS
<1>2. r \in [1..Len(q) -> T]
  BY <1>1
<1>3. QED
  BY <1>1, <1>2

(* Signing writes no name, and takes no approval back.                     *)
LEMMA SigningKeeps ==
  ASSUME NEW c \in CreatorLists, NEW who
  PROVE  /\ Names(process_sign_metadata(c, who)) = Names(c)
         /\ \A w : Verified(c, w) => Verified(process_sign_metadata(c, who), w)
<1> DEFINE d == process_sign_metadata(c, who)
           C == [who : People, verified : BOOLEAN, share : Nat]
<1>1. DOMAIN d = DOMAIN c
  BY DEF process_sign_metadata
<1>2. \A i \in DOMAIN c : c[i] \in C
  <2>1. c \in Seq(C)
    BY DEF CreatorLists
  <2> HIDE DEF C
  <2>2. QED
    BY <2>1
<1>3. \A i \in DOMAIN c : d[i] \in {c[i], [c[i] EXCEPT !.verified = TRUE]}
  BY DEF process_sign_metadata
<1>4. ASSUME NEW x \in C
      PROVE  [x EXCEPT !.verified = TRUE].who = x.who /\ [x EXCEPT !.verified = TRUE].verified
  OBVIOUS
<1> HIDE DEF d
<1>5. \A i \in DOMAIN c : d[i].who = c[i].who /\ (c[i].verified => d[i].verified)
  <2> HIDE DEF C
  <2>1. QED
    BY <1>2, <1>3, <1>4
<1>6. Names(d) = Names(c)
  BY <1>1, <1>5 DEF Names
<1>7. \A w : Verified(c, w) => Verified(d, w)
  BY <1>1, <1>5 DEF Verified
<1>8. QED
  BY <1>6, <1>7 DEF d

(* An update that names the same creators keeps the approvals of others.   *)
LEMMA UpdateKeeps ==
  ASSUME NEW c, NEW old, Names(c) = Names(old), assert_data_valid(c, old),
         NEW who, who # Seller, Verified(old, who)
  PROVE  Verified(c, who)
<1>1. PICK k \in DOMAIN old : old[k].who = who
  BY DEF Verified
<1>2. who \in Names(c)
  BY <1>1 DEF Names
<1>3. PICK i \in DOMAIN c : c[i].who = who
  BY <1>2 DEF Names
<1>4. KeepsApprovals(c, old)
  BY DEF assert_data_valid
<1>5. c[i].verified <=> Verified(old, who)
  BY <1>3, <1>4 DEF KeepsApprovals
<1>6. QED
  BY <1>3, <1>5 DEF Verified

-----------------------------------------------------------------------------
(* What the steps do to an artwork and to the jobs                         *)

(* as became bs, and every artwork kept the names of its creators.         *)
NamesKept(as, bs) ==
  /\ DOMAIN as \subseteq DOMAIN bs
  /\ \A a \in DOMAIN as : Names(bs[a].creators) = Names(as[a].creators)

(* Jobs that stay where they are, while no name on chain changes.          *)
LEMMA JobsKept ==
  ASSUME JobsInv, UNCHANGED jobs, NamesKept(arts, arts')
  PROVE  JobsInv'
<1>1. jobs' = jobs
  OBVIOUS
<1>2. \A j \in DOMAIN jobs : SameCreators(jobs[j], arts')
  BY DEF JobsInv, SameCreators, NamesKept
<1>3. jobs' \in Seq(JobStates) /\ \A j \in DOMAIN jobs' : SameCreators(jobs'[j], arts')
  BY <1>1, <1>2 DEF JobsInv
<1>4. QED
  BY <1>3 DEF JobsInv

(* A job that goes on keeps its artwork.                                   *)
LEMMA JobGoes ==
  ASSUME JobsInv, NEW j \in DOMAIN jobs,
         NEW pc \in {"pay", "upload", "update", "done", "stuck", "shown"}, Goes(j, pc),
         pc \in {"upload", "update"} => jobs[j].pc \in {"upload", "update"},
         NamesKept(arts, arts')
  PROVE  JobsInv'
<1> DEFINE x == [jobs[j] EXCEPT !.pc = pc]
<1>1. jobs \in Seq(JobStates) /\ jobs[j] \in JobStates
  BY DEF JobsInv
<1>2. x \in JobStates /\ x.pc = pc /\ x.creators = jobs[j].creators /\ x.art = jobs[j].art
  <2> DEFINE y == jobs[j]
  <2>1. y \in JobStates
    BY <1>1
  <2> HIDE DEF y
  <2>2. [y EXCEPT !.pc = pc] \in JobStates /\ [y EXCEPT !.pc = pc].pc = pc
        /\ [y EXCEPT !.pc = pc].creators = y.creators /\ [y EXCEPT !.pc = pc].art = y.art
    BY <2>1 DEF JobStates
  <2>3. QED
    BY <2>2 DEF y
<1>3. jobs' = [jobs EXCEPT ![j] = x]
  BY <1>1 DEF Goes
<1> HIDE DEF x
<1>4. /\ jobs' \in Seq(JobStates) /\ DOMAIN jobs' = DOMAIN jobs /\ jobs'[j] = x
      /\ \A k \in DOMAIN jobs : k # j => jobs'[k] = jobs[k]
  BY <1>1, <1>2, <1>3, ReplacedInList
<1>5. SameCreators(x, arts')
  BY <1>2 DEF JobsInv, SameCreators, NamesKept
<1>6. \A k \in DOMAIN jobs : SameCreators(jobs[k], arts')
  BY DEF JobsInv, SameCreators, NamesKept
<1>7. \A k \in DOMAIN jobs' : SameCreators(jobs'[k], arts')
  BY <1>4, <1>5, <1>6
<1>8. QED
  BY <1>4, <1>7 DEF JobsInv

(* An artwork and its mint after a transaction.                            *)
LEMMA ArtReplaced ==
  ASSUME ArtsInv, NEW a \in DOMAIN arts, NEW x \in ArtStates, NEW y \in MintStates,
         Numbered(x), Whole(x, y),
         arts' = [arts EXCEPT ![a] = x], mints' = [mints EXCEPT ![a] = y]
  PROVE  /\ ArtsInv'
         /\ DOMAIN arts' = DOMAIN arts /\ Len(arts') = Len(arts) /\ arts'[a] = x
         /\ \A b \in DOMAIN arts : b # a => arts'[b] = arts[b]
<1>1. arts \in Seq(ArtStates) /\ mints \in Seq(MintStates) /\ Len(mints) = Len(arts)
      /\ DOMAIN arts = DOMAIN mints
  BY DEF ArtsInv
<1>2. /\ arts' \in Seq(ArtStates) /\ Len(arts') = Len(arts) /\ DOMAIN arts' = DOMAIN arts
      /\ arts'[a] = x /\ \A b \in DOMAIN arts : b # a => arts'[b] = arts[b]
  BY <1>1, ReplacedInList
<1>3. /\ mints' \in Seq(MintStates) /\ Len(mints') = Len(mints)
      /\ mints'[a] = y /\ \A b \in DOMAIN mints : b # a => mints'[b] = mints[b]
  BY <1>1, ReplacedInList
<1>4. \A b \in DOMAIN arts : Numbered(arts[b]) /\ Whole(arts[b], mints[b])
  BY DEF ArtsInv
<1>5. \A b \in DOMAIN arts' : Numbered(arts'[b]) /\ Whole(arts'[b], mints'[b])
  BY <1>1, <1>2, <1>3, <1>4
<1>6. ArtsInv'
  BY <1>1, <1>2, <1>3, <1>5 DEF ArtsInv
<1>7. QED
  BY <1>2, <1>6

(* Artworks of which one changed, with the same names: the names are kept. *)
LEMMA OneChanged ==
  ASSUME NEW as, NEW bs, NEW a \in DOMAIN as, DOMAIN bs = DOMAIN as,
         Names(bs[a].creators) = Names(as[a].creators),
         \A b \in DOMAIN as : b # a => bs[b] = as[b]
  PROVE  NamesKept(as, bs)
  BY DEF NamesKept

(* An artwork and its mint, as the invariant has them.                     *)
LEMMA OneArt ==
  ASSUME ArtsInv, NEW a \in DOMAIN arts
  PROVE  /\ arts[a] \in ArtStates /\ mints[a] \in MintStates
         /\ Numbered(arts[a]) /\ Whole(arts[a], mints[a])
         /\ mints[a].tokens > 0 => mints[a].authority = "edition"
<1>1. DOMAIN arts = DOMAIN mints
  BY DEF ArtsInv
<1>2. arts[a] \in ArtStates /\ mints[a] \in MintStates
  BY <1>1 DEF ArtsInv
<1>3. Numbered(arts[a]) /\ Whole(arts[a], mints[a])
  BY DEF ArtsInv
<1>4. QED
  BY <1>2, <1>3 DEF Whole

-----------------------------------------------------------------------------
(* The pages                                                               *)

(* The royalties page gives whole shares.                                  *)
LEMMA SplitIsRoyalties ==
  ASSUME NEW people \in Seq(People), Len(people) > 0
  PROVE  Split(people) \in Royalties
<1> DEFINE n == Len(people)
           r == Split(people)
<1>1. n \in Nat \ {0}
  OBVIOUS
<1>2. 100 \div n \in Nat
  <2> HIDE DEF n
  <2>1. QED
    BY <1>1
<1>3. \A i \in 1..n : people[i] \in People
  OBVIOUS
<1>4. r = [i \in 1..n |-> [who |-> people[i], share |-> 100 \div n]]
  BY DEF Split
<1> HIDE DEF n, r
<1>5. r \in [1..n -> [who : People, share : Nat]]
  BY <1>2, <1>3, <1>4
<1>6. r \in Royalties
  <2> DEFINE R == [who : People, share : Nat]
  <2>1. r \in [1..n -> R]
    BY <1>5
  <2> HIDE DEF R
  <2>2. r \in Seq(R)
    BY <1>1, <2>1
  <2>3. QED
    BY <2>2 DEF Royalties, R
<1>7. QED
  BY <1>6 DEF r

(* A job, as the invariant has it.                                         *)
LEMMA OneJob ==
  ASSUME JobsInv, NEW j \in DOMAIN jobs
  PROVE  /\ jobs \in Seq(JobStates) /\ jobs[j] \in JobStates
         /\ jobs[j].creators \in CreatorLists /\ jobs[j].max \in Maxima
<1>1. jobs \in Seq(JobStates)
  BY DEF JobsInv
<1>2. jobs[j] \in JobStates
  BY <1>1
<1>3. QED
  BY <1>1, <1>2 DEF JobStates

(* What the page holds is a job.                                           *)
LEMMA JobIsJob ==
  ASSUME PageInv
  PROVE  Job \in JobStates /\ Job.pc = "pay"
  BY DEF Job, JobStates, PageInv

(* A new job has no artwork yet.                                           *)
LEMMA JobAppended ==
  ASSUME PageInv, JobsInv, UNCHANGED arts, jobs' \in {jobs, Append(jobs, Job)}
  PROVE  JobsInv'
<1>1. CASE jobs' = jobs
  BY <1>1 DEF JobsInv
<1>2. CASE jobs' = Append(jobs, Job)
  <2> DEFINE x == Job
  <2>1. x \in JobStates /\ x.pc = "pay"
    BY JobIsJob
  <2>2. jobs \in Seq(JobStates)
    BY DEF JobsInv
  <2> HIDE DEF x
  <2>3. /\ jobs' \in Seq(JobStates) /\ Len(jobs') = Len(jobs) + 1
        /\ jobs'[Len(jobs) + 1] = x /\ \A j \in 1..Len(jobs) : jobs'[j] = jobs[j]
    BY <1>2, <2>1, <2>2, AppendProperties DEF x
  <2>4. \A j \in DOMAIN jobs' : j \in 1..Len(jobs) \/ j = Len(jobs) + 1
    BY <2>2, <2>3
  <2>5. SameCreators(x, arts')
    BY <2>1 DEF SameCreators
  <2>6. \A j \in 1..Len(jobs) : SameCreators(jobs[j], arts')
    BY <2>2 DEF JobsInv
  <2>7. \A j \in DOMAIN jobs' : SameCreators(jobs'[j], arts')
    BY <2>3, <2>4, <2>5, <2>6
  <2>8. QED
    BY <2>3, <2>7 DEF JobsInv
<1>3. QED
  BY <1>1, <1>2

(* A step of the page that comes to another page.                          *)
LEMMA GotoKeeps ==
  ASSUME ArtInv, NEW n, gotoStep(n), max' \in Maxima, creators' \in CreatorLists
  PROVE  ArtInv'
<1>1. /\ UNCHANGED <<arts, mints, tabs>> /\ jobs' \in {jobs, Append(jobs, Job)}
      /\ royalties' \in {Split(<<Seller>>), royalties}
  BY DEF gotoStep
<1>2. Split(<<Seller>>) \in Royalties
  <2>1. <<Seller>> \in Seq(People) /\ Len(<<Seller>>) > 0
    BY DEF People
  <2>2. QED
    BY <2>1, SplitIsRoyalties
<1>3. PageInv'
  BY <1>1, <1>2 DEF PageInv, ArtInv
<1>4. JobsInv'
  BY <1>1, JobAppended DEF ArtInv
<1>5. ArtsInv' /\ TabsInv'
  BY <1>1 DEF ArtInv, ArtsInv, TabsInv
<1>6. QED
  BY <1>3, <1>4, <1>5 DEF ArtInv

(* Every choice on the pages.                                              *)
PageSteps ==
  \/ CategoryStep \/ UploadStep
  \/ \E n \in Supplies \cup {NoLimit} : InfoStep(n)
  \/ \E people \in Candidates : UserSearch(people)
  \/ \E who \in Others \cup {Seller}, n \in Amounts : RoyaltiesSplitter(who, n)
  \/ RoyaltiesStep \/ LaunchStep \/ Back
  \/ \E n \in 0..6 : Browser(n)

(* The pages write attributes that a job can have, and start jobs.         *)
LEMMA PageKeeps ==
  ASSUME ArtInv, PageSteps
  PROVE  ArtInv'
<1>0. max \in Maxima /\ creators \in CreatorLists /\ royalties \in Royalties
  BY DEF ArtInv, PageInv
<1>1. CASE CategoryStep
  BY <1>0, <1>1, GotoKeeps DEF CategoryStep
<1>2. CASE UploadStep
  BY <1>0, <1>2, GotoKeeps DEF UploadStep
<1>3. ASSUME NEW n \in Supplies \cup {NoLimit}, InfoStep(n) PROVE ArtInv'
  <2>1. n \in Maxima
    BY ArtCreateAssumption DEF Maxima
  <2>2. QED
    BY <1>0, <1>3, <2>1, GotoKeeps DEF InfoStep
<1>4. ASSUME NEW people \in Candidates, UserSearch(people) PROVE ArtInv'
  <2>1. people \in Seq(People)
    <3>1. PICK m \in 0..2 : people \in [1..m -> People]
      BY DEF Candidates, SeqOf, People
    <3>2. QED
      BY <3>1
  <2> DEFINE all == <<Seller>> \o people
  <2>2. all \in Seq(People) /\ Len(all) > 0
    BY <2>1 DEF People
  <2> HIDE DEF all
  <2>3. Split(all) \in Royalties
    BY <2>2, SplitIsRoyalties
  <2>4. royalties' = Split(all) /\ UNCHANGED <<step, max, creators, jobs, arts, mints, tabs, strays>>
    BY <1>4 DEF UserSearch, all
  <2>5. QED
    BY <2>3, <2>4 DEF ArtInv, PageInv, JobsInv, ArtsInv, TabsInv
<1>5. ASSUME NEW who \in Others \cup {Seller}, NEW n \in Amounts, RoyaltiesSplitter(who, n)
      PROVE  ArtInv'
  <2> DEFINE R == [who : People, share : Nat]
  <2>1. n \in Nat
    BY ArtCreateAssumption
  <2>2. royalties \in Seq(R)
    BY <1>0 DEF Royalties
  <2>3. /\ royalties' = [i \in DOMAIN royalties |->
                           IF royalties[i].who = who THEN [royalties[i] EXCEPT !.share = n]
                                                     ELSE royalties[i]]
        /\ UNCHANGED <<max, creators, jobs, arts, mints, tabs>>
    BY <1>5 DEF RoyaltiesSplitter
  <2>4. \A x \in R : [x EXCEPT !.share = n] \in R
    BY <2>1
  <2> HIDE DEF R
  <2>5. \A i \in 1..Len(royalties) : royalties[i] \in R
    BY <2>2
  <2>6. \A i \in 1..Len(royalties) : royalties'[i] \in R
    <3>1. DOMAIN royalties = 1..Len(royalties)
      BY <2>2
    <3>2. QED
      BY <2>3, <2>4, <2>5, <3>1
  <2>7. royalties' \in Seq(R)
    BY <2>2, <2>3, <2>6, MappedList
  <2>8. QED
    BY <2>3, <2>7 DEF ArtInv, PageInv, JobsInv, ArtsInv, TabsInv, Royalties, R
<1>6. CASE RoyaltiesStep
  <2> DEFINE R == [who : People, share : Nat]
             C == [who : People, verified : BOOLEAN, share : Nat]
  <2>1. royalties \in Seq(R)
    BY <1>0 DEF Royalties
  <2>2. creators' = [i \in DOMAIN royalties |->
                       Creator(royalties[i].who, royalties[i].who = Seller, royalties[i].share)]
        /\ gotoStep(4) /\ UNCHANGED max
    BY <1>6 DEF RoyaltiesStep
  <2>3. \A x \in R : Creator(x.who, x.who = Seller, x.share) \in C
    BY DEF Creator
  <2> HIDE DEF R, C
  <2>4. \A i \in 1..Len(royalties) : royalties[i] \in R
    BY <2>1
  <2>5. \A i \in 1..Len(royalties) : creators'[i] \in C
    <3>1. DOMAIN royalties = 1..Len(royalties)
      BY <2>1
    <3>2. QED
      BY <2>2, <2>3, <2>4, <3>1
  <2>6. creators' \in Seq(C)
    BY <2>1, <2>2, <2>5, MappedList
  <2>7. creators' \in CreatorLists
    BY <2>6 DEF CreatorLists, C
  <2>8. QED
    BY <1>0, <2>2, <2>7, GotoKeeps
<1>7. CASE LaunchStep
  BY <1>0, <1>7, GotoKeeps DEF LaunchStep
<1>8. CASE Back
  BY <1>0, <1>8, GotoKeeps DEF Back
<1>9. ASSUME NEW n \in 0..6, Browser(n) PROVE ArtInv'
  BY <1>0, <1>9, GotoKeeps DEF Browser
<1>10. QED
  BY <1>1, <1>2, <1>3, <1>4, <1>5, <1>6, <1>7, <1>8, <1>9 DEF PageSteps

-----------------------------------------------------------------------------
(* mintNFT                                                                 *)

(* The first transaction adds an artwork without a token; the job's names  *)
(* are the artwork's.                                                      *)
LEMMA PayAndCreateKeeps ==
  ASSUME ArtInv, NEW j \in DOMAIN jobs, PayAndCreate(j)
  PROVE  ArtInv' /\ \A a \in DOMAIN arts : arts'[a] = arts[a]
<1> DEFINE c == jobs[j].creators
           s == Transact(NoArt, NoMint, FirstPack(j))
           x == s.art
           y == s.mint
           l == Len(arts)
           w == [jobs[j] EXCEPT !.pc = "upload", !.art = l + 1]
<1>1. /\ s.ok /\ arts' = Append(arts, x) /\ mints' = Append(mints, y)
      /\ jobs' = [jobs EXCEPT ![j].pc = "upload", ![j].art = l + 1]
      /\ UNCHANGED <<max, creators, royalties, tabs>>
  BY DEF PayAndCreate, page
<1>2. jobs \in Seq(JobStates) /\ jobs[j] \in JobStates /\ c \in CreatorLists
  BY OneJob DEF ArtInv
<1>3. /\ x \in ArtStates /\ y \in MintStates /\ Numbered(x)
      /\ x.creators = c /\ y.tokens = 0
  <2>1. FirstPack(j) = FirstOf(c)
    BY DEF FirstPack, FirstOf
  <2>2. s = Transact(NoArt, NoMint, FirstOf(c))
    BY <2>1
  <2> HIDE DEF s, c
  <2>3. QED
    BY <1>1, <1>2, <2>2, FirstLands
<1>4. l \in Nat
  BY DEF ArtInv, ArtsInv
<1>5. jobs' = [jobs EXCEPT ![j] = w]
  BY <1>1, <1>2
<1>6. w \in JobStates /\ w.creators = c /\ w.art = l + 1
  <2> DEFINE z == jobs[j]
  <2>1. z \in JobStates /\ l + 1 \in Nat
    BY <1>2, <1>4
  <2> HIDE DEF z, l
  <2>2. /\ [z EXCEPT !.pc = "upload", !.art = l + 1] \in JobStates
        /\ [z EXCEPT !.pc = "upload", !.art = l + 1].creators = z.creators
        /\ [z EXCEPT !.pc = "upload", !.art = l + 1].art = l + 1
    BY <2>1 DEF JobStates
  <2>3. QED
    BY <2>2 DEF z
<1> HIDE DEF s, x, y, w, c, l
<1>7. /\ arts \in Seq(ArtStates) /\ mints \in Seq(MintStates) /\ Len(mints) = l /\ l = Len(arts)
      /\ DOMAIN arts = 1..l
      /\ \A a \in 1..l : Numbered(arts[a]) /\ Whole(arts[a], mints[a])
  BY DEF ArtInv, ArtsInv, l
<1>8. /\ arts' \in Seq(ArtStates) /\ Len(arts') = l + 1 /\ arts'[l + 1] = x
      /\ \A a \in 1..l : arts'[a] = arts[a]
  BY <1>1, <1>3, <1>7, AppendProperties
<1>9. /\ mints' \in Seq(MintStates) /\ Len(mints') = l + 1 /\ mints'[l + 1] = y
      /\ \A a \in 1..l : mints'[a] = mints[a]
  BY <1>1, <1>3, <1>7, AppendProperties
<1>10. DOMAIN arts' = 1..(l + 1) /\ \A a \in 1..(l + 1) : a \in 1..l \/ a = l + 1
  BY <1>4, <1>8
<1>11. Whole(x, y)
  BY <1>3 DEF Whole
<1>12. ArtsInv'
  <2>1. \A a \in DOMAIN arts' : Numbered(arts'[a]) /\ Whole(arts'[a], mints'[a])
    BY <1>3, <1>7, <1>8, <1>9, <1>10, <1>11
  <2>2. QED
    BY <1>8, <1>9, <2>1 DEF ArtsInv
<1>13. NamesKept(arts, arts')
  BY <1>7, <1>8, <1>10 DEF NamesKept
<1>14. JobsInv'
  <2>1. /\ jobs' \in Seq(JobStates) /\ DOMAIN jobs' = DOMAIN jobs /\ jobs'[j] = w
        /\ \A k \in DOMAIN jobs : k # j => jobs'[k] = jobs[k]
    BY <1>2, <1>5, <1>6, ReplacedInList
  <2>2. SameCreators(w, arts')
    BY <1>3, <1>4, <1>6, <1>8, <1>10 DEF SameCreators
  <2>3. \A k \in DOMAIN jobs : SameCreators(jobs[k], arts')
    BY <1>13 DEF ArtInv, JobsInv, SameCreators, NamesKept
  <2>4. \A k \in DOMAIN jobs' : SameCreators(jobs'[k], arts')
    BY <2>1, <2>2, <2>3
  <2>5. QED
    BY <2>1, <2>4 DEF JobsInv
<1>15. PageInv'
  BY <1>1 DEF ArtInv, PageInv
<1>16. TabsInv'
  BY <1>1, <1>4, <1>8 DEF ArtInv, TabsInv
<1>17. QED
  BY <1>7, <1>8, <1>12, <1>14, <1>15, <1>16 DEF ArtInv

(* A job that gives up, uploads or is shown.                               *)
LEMMA JobStepKeeps ==
  ASSUME ArtInv, NEW j \in DOMAIN jobs, Throws(j) \/ uploadFile(j) \/ WaitingStep(j)
  PROVE  ArtInv' /\ UNCHANGED arts
<1>1. UNCHANGED <<max, creators, arts, mints, tabs, royalties>>
  BY DEF Throws, uploadFile, WaitingStep, page
<1>2. NamesKept(arts, arts')
  BY <1>1 DEF NamesKept
<1>3. \E pc \in {"stuck", "update", "done", "shown"} :
        Goes(j, pc) /\ (pc = "update" => jobs[j].pc = "upload")
  BY DEF Throws, uploadFile, WaitingStep, Mine
<1>4. JobsInv'
  BY <1>2, <1>3, JobGoes DEF ArtInv
<1>5. QED
  BY <1>1, <1>4 DEF ArtInv, PageInv, ArtsInv, TabsInv

(* The second transaction: the update names the creators of the artwork.   *)
LEMMA FinishKeeps ==
  ASSUME ArtInv, NEW j \in DOMAIN jobs, Finish(j)
  PROVE  /\ ArtInv'
         /\ \A a \in DOMAIN arts, who \in Others :
              Verified(arts[a].creators, who) => Verified(arts'[a].creators, who)
<1> DEFINE a == jobs[j].art
           c == jobs[j].creators
           m == jobs[j].max
           s == Transact(arts[a], mints[a], SecondPack(j))
           x == s.art
           y == s.mint
<1>1. /\ jobs[j].pc = "update" /\ s.ok
      /\ arts' = [arts EXCEPT ![a] = x] /\ mints' = [mints EXCEPT ![a] = y]
      /\ \E pc \in {"done", "stuck"} : Goes(j, pc)
      /\ UNCHANGED <<max, creators, royalties, tabs>>
  BY DEF Finish, Mine, page
<1>2. /\ jobs \in Seq(JobStates) /\ jobs[j] \in JobStates
      /\ c \in CreatorLists /\ m \in Maxima
  BY OneJob DEF ArtInv
<1>3. a \in DOMAIN arts /\ Names(arts[a].creators) = Names(c)
  BY <1>1 DEF ArtInv, JobsInv, SameCreators
<1>4. /\ arts[a] \in ArtStates /\ mints[a] \in MintStates /\ Numbered(arts[a])
      /\ mints[a].tokens > 0 => mints[a].authority = "edition"
  BY <1>3, OneArt DEF ArtInv
<1>5. /\ x \in ArtStates /\ y \in MintStates /\ Numbered(x)
      /\ x.creators = c /\ assert_data_valid(c, arts[a].creators)
      /\ y.tokens = 1 /\ y.authority = "edition" /\ x.link /\ x.master
  <2>1. SecondPack(j) = SecondOf(c, m)
    BY DEF SecondPack, SecondOf
  <2>2. s = Transact(arts[a], mints[a], SecondOf(c, m))
    BY <2>1
  <2> HIDE DEF s, c, m, a
  <2>3. QED
    BY <1>1, <1>2, <1>4, <2>2, SecondLands
<1> HIDE DEF s, x, y, c, m, a
<1>6. Whole(x, y)
  BY <1>5 DEF Whole
<1>7. /\ ArtsInv'
      /\ DOMAIN arts' = DOMAIN arts /\ Len(arts') = Len(arts) /\ arts'[a] = x
      /\ \A b \in DOMAIN arts : b # a => arts'[b] = arts[b]
  BY <1>1, <1>3, <1>5, <1>6, ArtReplaced DEF ArtInv
<1>8. NamesKept(arts, arts')
  BY <1>3, <1>5, <1>7, OneChanged
<1>9. JobsInv'
  BY <1>1, <1>8, JobGoes DEF ArtInv
<1>10. ArtInv'
  BY <1>1, <1>7, <1>9 DEF ArtInv, PageInv, TabsInv
<1>11. \A who \in Others : Verified(arts[a].creators, who) => Verified(arts'[a].creators, who)
  <2>1. \A who \in Others : who # Seller
    BY ArtCreateAssumption
  <2>2. QED
    BY <1>3, <1>5, <1>7, <2>1, UpdateKeeps
<1>12. \A b \in DOMAIN arts, who \in Others :
         Verified(arts[b].creators, who) => Verified(arts'[b].creators, who)
  BY <1>7, <1>11
<1>13. QED
  BY <1>10, <1>12

(* An approval.                                                            *)
LEMMA SignKeeps ==
  ASSUME ArtInv, NEW a \in DOMAIN arts, NEW who \in Others, sendSignMetadata(a, who)
  PROVE  /\ ArtInv'
         /\ \A b \in DOMAIN arts, w \in Others :
              Verified(arts[b].creators, w) => Verified(arts'[b].creators, w)
<1> DEFINE s == Transact(arts[a], mints[a], <<signMetadata(who)>>)
           x == s.art
           y == mints[a]
<1>1. /\ s.ok /\ arts' = [arts EXCEPT ![a] = x]
      /\ UNCHANGED <<max, creators, royalties, jobs, mints, tabs>>
  BY DEF sendSignMetadata, page
<1>2. /\ arts[a] \in ArtStates /\ y \in MintStates /\ Numbered(arts[a]) /\ Whole(arts[a], y)
      /\ who \in People
  BY OneArt DEF ArtInv, People
<1>3. /\ x \in ArtStates /\ Numbered(x)
      /\ x.creators = process_sign_metadata(arts[a].creators, who)
      /\ x.link = arts[a].link /\ x.master = arts[a].master
  BY <1>1, <1>2, SignLands
<1> HIDE DEF s, x
<1>4. mints' = [mints EXCEPT ![a] = y]
  <2>1. mints \in Seq(MintStates)
    BY DEF ArtInv, ArtsInv
  <2>2. QED
    BY <1>1, <2>1
<1>5. Whole(x, y)
  BY <1>2, <1>3 DEF Whole
<1>6. arts[a].creators \in CreatorLists
  BY <1>2 DEF ArtStates
<1> HIDE DEF y
<1>7. /\ ArtsInv'
      /\ DOMAIN arts' = DOMAIN arts /\ Len(arts') = Len(arts) /\ arts'[a] = x
      /\ \A b \in DOMAIN arts : b # a => arts'[b] = arts[b]
  BY <1>1, <1>2, <1>3, <1>4, <1>5, ArtReplaced DEF ArtInv
<1>8. /\ Names(x.creators) = Names(arts[a].creators)
      /\ \A w : Verified(arts[a].creators, w) => Verified(x.creators, w)
  BY <1>3, <1>6, SigningKeeps
<1>9. NamesKept(arts, arts')
  BY <1>7, <1>8, OneChanged
<1>10. JobsInv'
  BY <1>1, <1>9, JobsKept DEF ArtInv
<1>11. ArtInv'
  BY <1>1, <1>7, <1>10 DEF ArtInv, PageInv, TabsInv
<1>12. \A b \in DOMAIN arts, w \in Others :
         Verified(arts[b].creators, w) => Verified(arts'[b].creators, w)
  BY <1>7, <1>8
<1>13. QED
  BY <1>11, <1>12

-----------------------------------------------------------------------------
(* Editions                                                                *)

(* A tab takes an order or reads the supply.                               *)
LEMMA TabKeeps ==
  ASSUME ArtInv, NEW t \in Tabs, NEW n \in 1..MaxPrints, ArtMinting(t, n) \/ ReadArt(t)
  PROVE  ArtInv' /\ UNCHANGED arts
<1>1. UNCHANGED <<max, creators, royalties, jobs, arts, mints>> /\ arts # <<>>
  BY DEF ArtMinting, ReadArt, page
<1>2. /\ arts \in Seq(ArtStates) /\ tabs \in [Tabs -> TabStates]
      /\ \A u \in Tabs : tabs[u].todo # <<>> => Len(arts) > 0
  BY DEF ArtInv, ArtsInv, TabsInv
<1>3. Len(arts) > 0 /\ arts[1].supply \in Nat
  <2>1. Len(arts) > 0
    BY <1>1, <1>2
  <2>2. arts[1] \in ArtStates
    BY <1>2, <2>1
  <2>3. QED
    BY <2>1, <2>2 DEF ArtStates
<1> DEFINE e == tabs[t]
<1>4. e \in TabStates /\ e.read \in Nat
  BY <1>2 DEF TabStates
<1>5. n \in Nat
  BY ArtCreateAssumption
<1>6. tabs' \in [Tabs -> TabStates]
  <2>1. CASE ArtMinting(t, n)
    <3> DEFINE q == mintEditionsToWallet(t, n)
               f == [e EXCEPT !.todo = q, !.failed = FALSE]
    <3>1. tabs' = [tabs EXCEPT ![t] = f]
      BY <1>2, <2>1 DEF ArtMinting
    <3>2. q \in Seq(Nat)
      BY <1>4, <1>5 DEF mintEditionsToWallet
    <3> HIDE DEF q, e
    <3>3. f \in TabStates
      BY <1>4, <3>2 DEF TabStates
    <3> HIDE DEF f
    <3>4. QED
      BY <1>2, <3>1, <3>3
  <2>2. CASE ReadArt(t)
    <3> DEFINE k == arts[1].supply
               f == [e EXCEPT !.read = k]
    <3>1. tabs' = [tabs EXCEPT ![t] = f] /\ k \in Nat
      BY <1>2, <1>3, <2>2 DEF ReadArt
    <3> HIDE DEF k, e
    <3>2. f \in TabStates
      BY <1>4, <3>1 DEF TabStates
    <3> HIDE DEF f
    <3>3. QED
      BY <1>2, <3>1, <3>2
  <2>3. QED
    BY <2>1, <2>2
<1>7. TabsInv'
  BY <1>1, <1>3, <1>6 DEF TabsInv
<1>8. QED
  BY <1>1, <1>7 DEF ArtInv, PageInv, JobsInv, ArtsInv

(* The next print of an order, or a failure.                               *)
LEMMA SendKeeps ==
  ASSUME ArtInv, NEW t \in Tabs, SendNext(t)
  PROVE  /\ ArtInv'
         /\ \A a \in DOMAIN arts, who \in Others :
              Verified(arts[a].creators, who) => Verified(arts'[a].creators, who)
<1> DEFINE e == tabs[t]
           k == Head(e.todo)
           s == Transact(arts[1], NoMint, setupMintEditionIntoWalletInstructions(k))
           x == s.art
           y == mints[1]
           f == [e EXCEPT !.todo = IF e.failed THEN <<>> ELSE Tail(@), !.failed = TRUE]
           g == [e EXCEPT !.todo = Tail(@)]
<1>1. /\ arts \in Seq(ArtStates) /\ mints \in Seq(MintStates) /\ tabs \in [Tabs -> TabStates]
      /\ \A u \in Tabs : tabs[u].todo # <<>> => Len(arts) > 0
  BY DEF ArtInv, ArtsInv, TabsInv
<1>2. /\ e.todo # <<>>
      /\ \/ /\ s.ok /\ arts' = [arts EXCEPT ![1] = x]
            /\ tabs' \in {[tabs EXCEPT ![t] = f], [tabs EXCEPT ![t] = g]}
         \/ tabs' = [tabs EXCEPT ![t] = f] /\ UNCHANGED arts
      /\ UNCHANGED <<max, creators, royalties, jobs, mints>>
  BY <1>1 DEF SendNext, page
<1>3. e \in TabStates /\ e.todo \in Seq(Nat)
  BY <1>1 DEF TabStates
<1>4. Tail(e.todo) \in Seq(Nat) /\ k \in Nat
  BY <1>2, <1>3, HeadTailProperties
<1>5. Len(arts) > 0 /\ 1 \in DOMAIN arts
  BY <1>1, <1>2
<1>6. f \in TabStates /\ g \in TabStates
  <2> DEFINE q == Tail(e.todo)
             p == IF e.failed THEN <<>> ELSE q
  <2>1. q \in Seq(Nat) /\ p \in Seq(Nat)
    BY <1>4, EmptySeq
  <2>2. f = [e EXCEPT !.todo = p, !.failed = TRUE] /\ g = [e EXCEPT !.todo = q]
    BY <1>3 DEF TabStates
  <2> HIDE DEF f, g, p, q, e
  <2>3. QED
    BY <1>3, <2>1, <2>2 DEF TabStates
<1>7. /\ arts[1] \in ArtStates /\ y \in MintStates /\ Numbered(arts[1]) /\ Whole(arts[1], y)
  BY <1>5, OneArt DEF ArtInv
<1>8. mints = [mints EXCEPT ![1] = y]
  BY <1>1
<1>9. s.ok => /\ x \in ArtStates /\ Numbered(x) /\ x.creators = arts[1].creators
              /\ x.link = arts[1].link /\ x.master = arts[1].master
  BY <1>4, <1>7, PrintLands
<1> HIDE DEF f, g, e, k, s, x, y
<1>10. tabs' \in [Tabs -> TabStates]
  BY <1>1, <1>2, <1>6
<1>11. /\ ArtsInv' /\ Len(arts') = Len(arts) /\ NamesKept(arts, arts')
       /\ \A a \in DOMAIN arts : arts'[a].creators = arts[a].creators
  <2>1. CASE UNCHANGED arts
    <3>1. ArtsInv'
      BY <1>2, <2>1 DEF ArtInv, ArtsInv
    <3>2. QED
      BY <2>1, <3>1 DEF NamesKept
  <2>2. CASE s.ok /\ arts' = [arts EXCEPT ![1] = x]
    <3>1. Whole(x, y) /\ mints' = [mints EXCEPT ![1] = y]
      BY <1>2, <1>7, <1>8, <1>9, <2>2 DEF Whole
    <3>2. /\ ArtsInv'
          /\ DOMAIN arts' = DOMAIN arts /\ Len(arts') = Len(arts) /\ arts'[1] = x
          /\ \A b \in DOMAIN arts : b # 1 => arts'[b] = arts[b]
      BY <1>5, <1>7, <1>9, <2>2, <3>1, ArtReplaced DEF ArtInv
    <3>3. \A a \in DOMAIN arts : arts'[a].creators = arts[a].creators
      BY <1>9, <2>2, <3>2
    <3>4. NamesKept(arts, arts')
      BY <3>2, <3>3 DEF NamesKept
    <3>5. QED
      BY <3>2, <3>3, <3>4
  <2>3. QED
    BY <1>2, <2>1, <2>2
<1>12. JobsInv'
  BY <1>2, <1>11, JobsKept DEF ArtInv
<1>13. TabsInv'
  BY <1>5, <1>10, <1>11 DEF TabsInv
<1>14. ArtInv'
  BY <1>2, <1>11, <1>12, <1>13 DEF ArtInv, PageInv
<1>15. \A a \in DOMAIN arts, who \in Others :
         Verified(arts[a].creators, who) => Verified(arts'[a].creators, who)
  BY <1>11
<1>16. QED
  BY <1>14, <1>15

-----------------------------------------------------------------------------
(* The theorems                                                            *)

(* What a creator approved is approved after the step.                     *)
ApprovalsKept ==
  \A a \in DOMAIN arts, who \in Others :
    Verified(arts[a].creators, who) => Verified(arts'[a].creators, who)

(* The invariant holds at the start.                                       *)
LEMMA ArtInit == Init => ArtInv
<1> SUFFICES ASSUME Init PROVE ArtInv
  OBVIOUS
<1>1. PageInv
  BY EmptySeq DEF Init, PageInv, Maxima, CreatorLists, Royalties
<1>2. JobsInv
  BY EmptySeq DEF Init, JobsInv
<1>3. ArtsInv
  BY EmptySeq DEF Init, ArtsInv
<1>4. TabsInv
  BY EmptySeq DEF Init, TabsInv, TabStates, NoTab
<1>5. QED
  BY <1>1, <1>2, <1>3, <1>4 DEF ArtInv

(* Every step keeps the invariant and the approvals.                       *)
LEMMA ArtStep ==
  ASSUME ArtInv, [Next]_vars
  PROVE  ArtInv' /\ ApprovalsKept
<1>1. CASE PageSteps
  <2>1. UNCHANGED arts
    BY <1>1 DEF PageSteps, CategoryStep, UploadStep, InfoStep, UserSearch, RoyaltiesSplitter,
                RoyaltiesStep, LaunchStep, Back, Browser, gotoStep
  <2>2. QED
    BY <1>1, <2>1, PageKeeps DEF ApprovalsKept
<1>2. ASSUME NEW j \in DOMAIN jobs, PayAndCreate(j) PROVE ArtInv' /\ ApprovalsKept
  <2>1. ArtInv' /\ \A a \in DOMAIN arts : arts'[a] = arts[a]
    BY <1>2, PayAndCreateKeeps
  <2>2. QED
    BY <2>1 DEF ApprovalsKept
<1>3. ASSUME NEW j \in DOMAIN jobs, Throws(j) \/ uploadFile(j) \/ WaitingStep(j)
      PROVE  ArtInv' /\ ApprovalsKept
  BY <1>3, JobStepKeeps DEF ApprovalsKept
<1>4. ASSUME NEW j \in DOMAIN jobs, Finish(j) PROVE ArtInv' /\ ApprovalsKept
  BY <1>4, FinishKeeps DEF ApprovalsKept
<1>5. ASSUME NEW a \in DOMAIN arts, NEW who \in Others, sendSignMetadata(a, who)
      PROVE  ArtInv' /\ ApprovalsKept
  BY <1>5, SignKeeps DEF ApprovalsKept
<1>6. ASSUME NEW t \in Tabs, SendNext(t) PROVE ArtInv' /\ ApprovalsKept
  BY <1>6, SendKeeps DEF ApprovalsKept
<1>7. ASSUME NEW t \in Tabs, ReadArt(t) PROVE ArtInv' /\ ApprovalsKept
  <2>1. 1 \in 1..MaxPrints
    BY ArtCreateAssumption
  <2>2. QED
    BY <1>7, <2>1, TabKeeps DEF ApprovalsKept
<1>8. ASSUME NEW t \in Tabs, NEW n \in 1..MaxPrints, ArtMinting(t, n)
      PROVE  ArtInv' /\ ApprovalsKept
  BY <1>8, TabKeeps DEF ApprovalsKept
<1>9. CASE UNCHANGED vars
  <2>1. UNCHANGED <<max, creators, royalties, jobs, arts, mints, tabs>>
    BY <1>9 DEF vars
  <2>2. QED
    BY <2>1 DEF ArtInv, PageInv, JobsInv, ArtsInv, TabsInv, ApprovalsKept
<1>10. QED
  BY <1>1, <1>2, <1>3, <1>4, <1>5, <1>6, <1>7, <1>8, <1>9 DEF Next, PageSteps

(* The invariant says what the two properties say.                         *)
LEMMA ArtInvSays == ArtInv => EditionsOnce /\ TokensAreWhole
  BY DEF ArtInv, ArtsInv, Numbered, Whole, EditionsOnce, TokensAreWhole

(* However the orders of the tabs race, and whatever of them is refused or *)
(* given up: a number is printed once, and the supply covers every number  *)
(* within the maximum.                                                     *)
THEOREM NumbersAreUnique == Spec => []EditionsOnce
  BY ArtInit, ArtStep, ArtInvSays, PTL DEF Spec

(* Wherever mintNFT stops: a token is there with its link and its master   *)
(* edition, and it is the only one.                                        *)
THEOREM NoHalfMadeToken == Spec => []TokensAreWhole
  BY ArtInit, ArtStep, ArtInvSays, PTL DEF Spec

(* The update with the link, put together before another creator approves, *)
(* keeps that approval, because it names the same creators as the artwork. *)
THEOREM ApprovalsAreKept == Spec => ApprovalsStay
<1>1. ArtInv /\ [Next]_vars => [ApprovalsKept]_vars
  BY ArtStep
<1>2. Spec => [][ApprovalsKept]_vars
  BY <1>1, ArtInit, ArtStep, PTL DEF Spec
<1>3. QED
  BY <1>2 DEF ApprovalsStay, ApprovalsKept

================================================================================
