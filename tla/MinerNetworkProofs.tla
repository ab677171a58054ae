------------------------- MODULE MinerNetworkProofs -------------------------
(***************************************************************************)
(* Safety of MinerNetwork for every network, every block tree, every set   *)
(* of transactions and every assignment of modes.                          *)
(*                                                                         *)
(* The first part has the lemmas on numbers, sequences, UTXO sets and      *)
(* chains, that is, on the operators of Ledger and Chain.                  *)
(***************************************************************************)
EXTENDS MinerNetwork, FiniteSetTheorems, WellFoundedInduction, TLAPS

-----------------------------------------------------------------------------
(***************************************************************************)
(* Numbers and sequences.                                                  *)
(***************************************************************************)

(* The least number principle. *)
LEMMA LeastNatural ==
  ASSUME NEW T, T \subseteq Nat, T # {}
  PROVE  \E x \in T : \A y \in T : x <= y
<1> DEFINE R == OpToRel(<, Nat)
<1>1. IsWellFoundedOn(R, Nat)
  BY NatLessThanWellFounded
<1>2. PICK x \in T : \A y \in T : ~ (<<y, x>> \in R)
  <2> HIDE DEF R
  <2> QED BY <1>1, WFMin
<1>3. \A y \in T : ~ (y < x)
  BY <1>2 DEF OpToRel
<1> QED BY <1>3

(* A non-empty set of positions of a sequence has a greatest element. *)
LEMMA MaxPosition ==
  ASSUME NEW k \in Nat, NEW T, T \subseteq 1..k, T # {}
  PROVE  /\ Max(T) \in T
         /\ \A i \in T : i <= Max(T)
<1> DEFINE Distance == {k - i : i \in T}
<1>1. PICK d \in Distance : \A e \in Distance : d <= e
  <2>1. \A i \in T : i \in Nat /\ i <= k
    OBVIOUS
  <2>2. \A i \in T : k - i \in Nat
    BY <2>1
  <2>3. Distance \subseteq Nat /\ Distance # {}
    BY <2>2
  <2> HIDE DEF Distance
  <2> QED BY <2>3, LeastNatural
<1>2. PICK i \in T : \A j \in T : i >= j
  <2>1. PICK i \in T : d = k - i
    OBVIOUS
  <2>2. ASSUME NEW j \in T PROVE i >= j
    <3>1. k - j \in Distance
      OBVIOUS
    <3> QED BY <1>1, <2>1, <3>1
  <2> QED BY <2>2
<1> QED BY <1>2 DEF Max

LEMMA FrontFacts ==
  ASSUME NEW S, NEW s \in Seq(S), s # <<>>
  PROVE  /\ Len(s) \in Nat \ {0}
         /\ Front(s) \in Seq(S)
         /\ Len(Front(s)) = Len(s) - 1
         /\ \A i \in 1..(Len(s) - 1) : Front(s)[i] = s[i]
         /\ Last(s) \in S
         /\ Last(s) = s[Len(s)]
<1>1. Len(s) \in Nat \ {0}
  OBVIOUS
<1>2. PICK m \in Nat : m = Len(s) - 1
  BY <1>1
<1>3. Front(s) = SubSeq(s, 1, m) /\ m <= Len(s)
  BY <1>1, <1>2 DEF Front
<1>4. SubSeq(s, 1, m) \in Seq(S) /\ Len(SubSeq(s, 1, m)) = m
  BY <1>1, <1>3
<1>5. \A i \in 1..m : SubSeq(s, 1, m)[i] = s[i]
  BY <1>1, <1>3
<1>6. Last(s) \in S /\ Last(s) = s[Len(s)]
  BY <1>1 DEF Last
<1> QED BY <1>1, <1>2, <1>3, <1>4, <1>5, <1>6

LEMMA AppendFacts ==
  ASSUME NEW S, NEW s \in Seq(S), NEW f \in S
  PROVE  /\ Append(s, f) \in Seq(S)
         /\ Append(s, f) # <<>>
         /\ Len(Append(s, f)) = Len(s) + 1
         /\ \A i \in 1..Len(s) : Append(s, f)[i] = s[i]
         /\ Append(s, f)[Len(s) + 1] = f
         /\ Last(Append(s, f)) = f
<1>1. Append(s, f) \in Seq(S) /\ Len(Append(s, f)) = Len(s) + 1
  OBVIOUS
<1>2. Append(s, f) # <<>>
  <2>1. Len(Append(s, f)) # 0
    BY <1>1
  <2>2. Len(<<>>) = 0
    OBVIOUS
  <2> QED BY ONLY <2>1, <2>2, Zenon
<1>3. \A i \in 1..Len(s) : Append(s, f)[i] = s[i]
  OBVIOUS
<1>4. Append(s, f)[Len(s) + 1] = f
  OBVIOUS
<1>5. Last(Append(s, f)) = f
  BY <1>1, <1>4 DEF Last
<1> QED BY <1>1, <1>2, <1>3, <1>4, <1>5

LEMMA OneIsBelow == ASSUME NEW k \in Nat \ {0}, k # 1 PROVE 1 \in 1..(k - 1)
OBVIOUS

(* Replacing the last element. *)
LEMMA ReplaceLast ==
  ASSUME NEW S, NEW s \in Seq(S), s # <<>>, NEW f \in S
  PROVE  LET r == Append(Front(s), f) IN
         /\ r \in Seq(S)
         /\ r # <<>>
         /\ Len(r) = Len(s)
         /\ \A i \in 1..(Len(s) - 1) : r[i] = s[i]
         /\ r[Len(s)] = f
         /\ Last(r) = f
<1>1. PICK front \in Seq(S) :
        /\ front = Front(s)
        /\ Len(front) = Len(s) - 1
        /\ \A i \in 1..(Len(s) - 1) : front[i] = s[i]
  BY FrontFacts
<1>2. Len(front) + 1 = Len(s)
  BY <1>1, FrontFacts
<1> QED BY <1>1, <1>2, AppendFacts

-----------------------------------------------------------------------------
(***************************************************************************)
(* The ledger.                                                             *)
(***************************************************************************)

LEMMA AddTransactionType ==
  ASSUME NEW set \in UTXOSet, NEW tx \in Tx, CheckTransaction(set, tx)
  PROVE  AddTransaction(set, tx) \in UTXOSet
BY LedgerAssumption DEF UTXOSet, CheckTransaction, CheckUTXO, AddTransaction

(* The set replays the history when it lists what the history leaves.      *)
Replays(set, history) ==
  \A u \in Utxo : set[u] = IF u \in Unspent(history) THEN 1 ELSE 0

(* Every transaction of the history spends outputs the history created.    *)
Grounded(history) == \A t \in history : Inputs[t] \subseteq Created(history)

LEMMA InitialReplay == Replays(NewUTXOSet, {}) /\ Grounded({})
BY LedgerAssumption
   DEF Replays, Grounded, Unspent, Created, Consumed, NewUTXOSet

(* A transaction whose inputs are in a set that replays the history is new *)
(* and conflicts with none of it.                                          *)
LEMMA CheckedIsNew ==
  ASSUME NEW set, NEW history \in SUBSET Tx, NEW tx \in Tx,
         Replays(set, history), CheckTransaction(set, tx)
  PROVE  /\ Inputs[tx] \subseteq Unspent(history)
         /\ tx \notin history
         /\ \A t \in history : Inputs[t] \cap Inputs[tx] = {}
         /\ Outputs[tx] \cap Created(history) = {}
<1>1. Inputs[tx] \subseteq Unspent(history)
  BY LedgerAssumption DEF Replays, CheckTransaction, CheckUTXO
<1>2. tx \notin history
  BY <1>1, LedgerAssumption DEF Unspent, Consumed
<1>3. \A t \in history : Inputs[t] \cap Inputs[tx] = {}
  BY <1>1 DEF Unspent, Consumed
<1>4. Outputs[tx] \cap Created(history) = {}
  BY <1>2, LedgerAssumption DEF Created
<1> QED BY <1>1, <1>2, <1>3, <1>4

LEMMA AddedReplays ==
  ASSUME NEW set \in UTXOSet, NEW history \in SUBSET Tx, NEW tx \in Tx,
         Replays(set, history), CheckTransaction(set, tx),
         Outputs[tx] \cap Consumed(history) = {}
  PROVE  Replays(AddTransaction(set, tx), history \cup {tx})
<1> DEFINE longer == history \cup {tx}
<1>1. /\ Inputs[tx] \subseteq Unspent(history)
      /\ Outputs[tx] \cap Created(history) = {}
  BY CheckedIsNew
<1>2. /\ Created(longer) = Created(history) \cup Outputs[tx]
      /\ Consumed(longer) = Consumed(history) \cup Inputs[tx]
  BY DEF Created, Consumed
<1>3. ASSUME NEW u \in Utxo
      PROVE  AddTransaction(set, tx)[u] = IF u \in Unspent(longer) THEN 1 ELSE 0
  <2>1. set[u] = IF u \in Unspent(history) THEN 1 ELSE 0
    BY DEF Replays
  <2>2. CASE u \in Inputs[tx]
    <3>1. u \in Unspent(history) /\ u \notin Outputs[tx] /\ u \notin Unspent(longer)
      BY <1>1, <1>2, <2>2 DEF Unspent
    <3> QED BY <2>1, <2>2, <3>1 DEF AddTransaction
  <2>3. CASE u \notin Inputs[tx] /\ u \in Outputs[tx]
    <3>1. u \notin Unspent(history) /\ u \in Unspent(longer)
      BY <1>1, <1>2, <2>3 DEF Unspent
    <3> QED BY <2>1, <2>3, <3>1 DEF AddTransaction
  <2>4. CASE u \notin Inputs[tx] /\ u \notin Outputs[tx]
    <3>1. u \in Unspent(history) <=> u \in Unspent(longer)
      BY <1>2, <2>4 DEF Unspent
    <3> QED BY <2>1, <2>4, <3>1 DEF AddTransaction
  <2> QED BY <2>2, <2>3, <2>4
<1> QED BY <1>3 DEF Replays

LEMMA AddTransactionReplays ==
  ASSUME NEW set \in UTXOSet, NEW history \in SUBSET Tx, NEW tx \in Tx,
         Replays(set, history), Grounded(history), CheckTransaction(set, tx)
  PROVE  /\ Replays(AddTransaction(set, tx), history \cup {tx})
         /\ Grounded(history \cup {tx})
<1>1. /\ Inputs[tx] \subseteq Unspent(history)
      /\ Outputs[tx] \cap Created(history) = {}
  BY CheckedIsNew
<1>2. Consumed(history) \subseteq Created(history)
  BY DEF Grounded, Consumed
<1>3. Replays(AddTransaction(set, tx), history \cup {tx})
  BY <1>1, <1>2, AddedReplays
<1>4. Created(history \cup {tx}) = Created(history) \cup Outputs[tx]
  BY DEF Created
<1>5. Grounded(history \cup {tx})
  BY <1>1, <1>4 DEF Grounded, Unspent
<1> QED BY <1>3, <1>5

(* If a set replays two histories of which one is grounded, this one has   *)
(* all of the other: what only the other had would have to spend its own   *)
(* outputs.                                                                *)
LEMMA GroundedHasAll ==
  ASSUME NEW set, NEW history \in SUBSET Tx, NEW other \in SUBSET Tx,
         IsFiniteSet(other), Grounded(history),
         Replays(set, history), Replays(set, other)
  PROVE  other \subseteq history
<1> DEFINE rest == other \ history
<1> SUFFICES ASSUME rest # {} PROVE FALSE
  OBVIOUS
<1>1. PICK s \in rest : \A t \in rest : Outputs[s] \cap Inputs[t] = {}
  <2>1. IsFiniteSet(rest) /\ rest \in SUBSET Tx
    BY FS_Subset
  <2> QED BY <2>1, SpendingOrder
<1>2. PICK u : u \in Outputs[s] /\ u \in Utxo
  BY LedgerAssumption
<1>3. Consumed(history) \subseteq Created(history)
  BY DEF Grounded, Consumed
<1>4. u \notin Created(history)
  BY <1>1, <1>2, LedgerAssumption DEF Created
<1>5. u \notin Unspent(history) /\ u \notin Unspent(other)
  <2>1. u \notin Unspent(history)
    BY <1>4 DEF Unspent
  <2>2. u \in Unspent(history) <=> u \in Unspent(other)
    BY <1>2 DEF Replays
  <2> QED BY <2>1, <2>2
<1>6. u \in Created(other)
  BY <1>1, <1>2 DEF Created
<1>7. PICK t \in other : u \in Inputs[t]
  BY <1>5, <1>6 DEF Unspent, Consumed
<1>8. t \in history
  BY <1>1, <1>2, <1>7
<1>9. u \in Consumed(history)
  BY <1>7, <1>8 DEF Consumed
<1> QED BY <1>3, <1>4, <1>9

(* Hence a set that replays both goes on replaying the other one.          *)
LEMMA AddedStaysInStep ==
  ASSUME NEW set \in UTXOSet, NEW history \in SUBSET Tx, NEW other \in SUBSET Tx,
         IsFiniteSet(other), Grounded(history),
         Replays(set, history), Replays(set, other),
         NEW tx \in Tx, CheckTransaction(set, tx)
  PROVE  Replays(AddTransaction(set, tx), other \cup {tx})
<1>1. Outputs[tx] \cap Created(history) = {}
  BY CheckedIsNew
<1>2. Consumed(other) \subseteq Created(history)
  <2>1. other \subseteq history
    BY GroundedHasAll
  <2> QED BY <2>1 DEF Grounded, Consumed
<1> QED BY <1>1, <1>2, AddedReplays

-----------------------------------------------------------------------------
(***************************************************************************)
(* The algorithms on the block list.                                       *)
(***************************************************************************)

LEMMA LastHashesType ==
  ASSUME NEW c \in Seq(Block)
  PROVE  LastHashes(c) \in Seq(Block)
<1>1. Len(c) \in Nat /\ HashWindow \in Nat \ {0}
  BY ChainAssumption
<1>2. CASE Len(c) > HashWindow
  <2>1. Len(c) - HashWindow + 1 \in 1..Len(c)
    BY <1>1, <1>2
  <2> QED BY <1>1, <1>2, <2>1 DEF LastHashes
<1>3. CASE ~ (Len(c) > HashWindow)
  BY <1>1, <1>3 DEF LastHashes
<1> QED BY <1>2, <1>3

LEMMA LastHashesLength ==
  ASSUME NEW c \in Seq(Block)
  PROVE  Len(LastHashes(c)) = IF Len(c) > HashWindow THEN HashWindow ELSE Len(c)
<1>1. Len(c) \in Nat /\ HashWindow \in Nat \ {0}
  BY ChainAssumption
<1>2. CASE Len(c) > HashWindow
  <2>1. Len(c) - HashWindow + 1 \in 1..Len(c)
    BY <1>1, <1>2
  <2>2. Len(SubSeq(c, Len(c) - HashWindow + 1, Len(c))) = HashWindow
    BY <1>1, <2>1
  <2> QED BY <1>2, <2>2 DEF LastHashes
<1>3. CASE ~ (Len(c) > HashWindow)
  BY <1>1, <1>3 DEF LastHashes
<1> QED BY <1>2, <1>3

(* The end of a linked chain is at the height of the chain.                *)
LEMMA LinkedEnd ==
  ASSUME NEW c \in Seq(Block), Linked(c), c # <<>>
  PROVE  Height[Last(c)] = Len(c) - 1 /\ Len(c) \in Nat \ {0}
<1>1. Len(c) \in Nat \ {0} /\ Last(c) = c[Len(c)]
  BY FrontFacts
<1> QED BY <1>1 DEF Linked

(* The last occurrence of a value in a sequence.                           *)
LEMMA LastPosition ==
  ASSUME NEW S, NEW s \in Seq(S), NEW b, Positions(s, b) # {}
  PROVE  /\ Max(Positions(s, b)) \in 1..Len(s)
         /\ s[Max(Positions(s, b))] = b
<1>1. Positions(s, b) \subseteq 1..Len(s) /\ Len(s) \in Nat
  BY DEF Positions
<1>2. Max(Positions(s, b)) \in Positions(s, b)
  BY <1>1, MaxPosition
<1> QED BY <1>1, <1>2 DEF Positions

(* RequestMissingBlocks asks for an end of the hashes it is given.         *)
LEMMA MissingHashesFacts ==
  ASSUME NEW h \in Seq(Block), NEW b
  PROVE  /\ MissingHashes(h, b) \in Seq(Block)
         /\ Len(MissingHashes(h, b)) <= Len(h)
         /\ \A j \in 1..Len(MissingHashes(h, b)) :
              MissingHashes(h, b)[j] = h[Len(h) - Len(MissingHashes(h, b)) + j]
<1>1. CASE Positions(h, b) = {}
  BY <1>1 DEF MissingHashes
<1>2. CASE Positions(h, b) # {}
  <2>1. PICK m \in 1..Len(h) : m = Max(Positions(h, b))
    BY <1>2, LastPosition
  <2>2. MissingHashes(h, b) = SubSeq(h, m + 1, Len(h))
    BY <1>2, <2>1 DEF MissingHashes
  <2>3. /\ SubSeq(h, m + 1, Len(h)) \in Seq(Block)
        /\ Len(SubSeq(h, m + 1, Len(h))) = Len(h) - m
    BY <2>1
  <2>4. \A j \in 1..(Len(h) - m) : SubSeq(h, m + 1, Len(h))[j] = h[m + j]
    BY <2>1
  <2> QED BY <2>1, <2>2, <2>3, <2>4
<1> QED BY <1>1, <1>2

(* RollbackToHash leaves nothing, or what comes up to a block with the hash.*)
LEMMA RollbackFacts ==
  ASSUME NEW c \in Seq(Block), NEW b
  PROVE  /\ RollbackToHash(c, b) \in Seq(Block)
         /\ RollbackToHash(c, b) # <<>> =>
              \E m \in 1..Len(c) : /\ c[m] = b
                                   /\ RollbackToHash(c, b) = SubSeq(c, 1, m)
<1>1. CASE Positions(c, b) = {}
  BY <1>1 DEF RollbackToHash
<1>2. CASE Positions(c, b) # {}
  <2>1. PICK m \in 1..Len(c) : m = Max(Positions(c, b)) /\ c[m] = b
    BY <1>2, LastPosition
  <2>2. RollbackToHash(c, b) = SubSeq(c, 1, m)
    BY <1>2, <2>1 DEF RollbackToHash
  <2>3. SubSeq(c, 1, m) \in Seq(Block)
    BY <2>1
  <2> HIDE DEF RollbackToHash
  <2> QED BY <2>1, <2>2, <2>3
<1> QED BY <1>1, <1>2

(* Blocks that ValidateBlocks accepts are blocks.                          *)
LEMMA ValidBlocks ==
  ASSUME NEW s \in Seq(Block \cup {Nil}), ValidateBlocks(s)
  PROVE  s \in Seq(Block)
<1>1. \A i \in 1..Len(s) : s[i] \in Block
  BY DEF ValidateBlocks, LinkedUpTo
<1> QED BY <1>1

LEMMA ReplaceWithForkType ==
  ASSUME NEW c \in Seq(Block), NEW s \in Seq(Block)
  PROVE  ReplaceWithFork(c, s) \in Seq(Block)
BY RollbackFacts DEF ReplaceWithFork

(* A block on top of the last one, one higher than it, keeps a chain linked.*)
LEMMA ConnectsLinked ==
  ASSUME NEW c \in Seq(Block), c # <<>>, Linked(c),
         NEW b \in Block, Connects(c, b)
  PROVE  Linked(Append(c, b))
<1> DEFINE d == Append(c, b)
<1>1. /\ d \in Seq(Block) /\ Len(d) = Len(c) + 1
      /\ \A i \in 1..Len(c) : d[i] = c[i]
      /\ d[Len(c) + 1] = b
      /\ Len(c) \in Nat \ {0} /\ Last(c) = c[Len(c)]
  <2>1. Len(c) \in Nat \ {0} /\ Last(c) = c[Len(c)]
    BY FrontFacts
  <2>2. /\ d \in Seq(Block) /\ Len(d) = Len(c) + 1
        /\ \A i \in 1..Len(c) : d[i] = c[i]
        /\ d[Len(c) + 1] = b
    BY AppendFacts
  <2> QED BY <2>1, <2>2
<1>2. /\ b # Genesis /\ PrevHash[b] = c[Len(c)]
      /\ Height[b] = Height[c[Len(c)]] + 1
  BY <1>1 DEF Connects, Verify
<1>3. Height[c[Len(c)]] = Len(c) - 1
  BY <1>1 DEF Linked
<1>4. ASSUME NEW i \in DOMAIN d
      PROVE  /\ Height[d[i]] = i - 1
             /\ IF i = 1 THEN d[i] = Genesis
                         ELSE d[i] # Genesis /\ PrevHash[d[i]] = d[i-1]
  <2>1. CASE i \in 1..Len(c)
    <3>1. d[i] = c[i] /\ (i # 1 => d[i-1] = c[i-1])
      BY <1>1, <2>1
    <3> QED BY <2>1, <3>1 DEF Linked
  <2>2. CASE i = Len(c) + 1
    <3>1. i # 1 /\ d[i] = b /\ d[i-1] = c[Len(c)]
      BY <1>1, <2>2
    <3> QED BY <1>1, <1>2, <1>3, <2>2, <3>1
  <2> QED BY <1>1, <2>1, <2>2
<1>5. Linked(d)
  <2> HIDE DEF d
  <2> QED BY <1>4 DEF Linked
<1> QED BY <1>5

(* On a linked chain a block is one higher than the one before it.         *)
OneUp(b) == b \notin {Nil, Genesis} => Height[b] = Height[PrevHash[b]] + 1

LEMMA LinkedOneUp ==
  ASSUME NEW c \in Seq(Block), Linked(c), NEW b, OnChain(c, b)
  PROVE  b \in Block /\ OneUp(b)
<1>1. PICK i \in DOMAIN c : c[i] = b
  BY DEF OnChain
<1>2. CASE i = 1
  BY <1>1, <1>2 DEF Linked, OneUp
<1>3. CASE i # 1
  <2>1. i \in 1..Len(c) /\ i - 1 \in 1..Len(c)
    BY <1>3
  <2>2. PrevHash[c[i]] = c[i-1] /\ Height[c[i]] = i - 1 /\ Height[c[i-1]] = i - 2
    BY <1>3, <2>1 DEF Linked
  <2> QED BY <1>1, <2>1, <2>2 DEF OneUp
<1> QED BY <1>2, <1>3

(* A part of a linked chain from its start is linked.                      *)
LEMMA LinkedPrefix ==
  ASSUME NEW c \in Seq(Block), Linked(c), NEW m \in 1..Len(c)
  PROVE  Linked(SubSeq(c, 1, m))
<1> DEFINE d == SubSeq(c, 1, m)
<1>1. Len(d) = m /\ DOMAIN d = 1..m /\ \A i \in 1..m : d[i] = c[i]
  OBVIOUS
<1>2. ASSUME NEW i \in 1..m
      PROVE  /\ Height[d[i]] = i - 1
             /\ IF i = 1 THEN d[i] = Genesis
                         ELSE d[i] # Genesis /\ PrevHash[d[i]] = d[i-1]
  <2>1. d[i] = c[i] /\ (i # 1 => d[i-1] = c[i-1]) /\ i \in DOMAIN c
    BY <1>1
  <2> QED BY <2>1 DEF Linked
<1> HIDE DEF d
<1> QED BY <1>1, <1>2 DEF Linked

(***************************************************************************)
(* A fork whose blocks ValidateBlocks accepts and of which each is one     *)
(* higher than the block it names keeps the chain linked: the heights      *)
(* follow from the links, up from the block the fork is attached to.       *)
(***************************************************************************)
LEMMA ReplaceWithForkLinked ==
  ASSUME NEW c \in Seq(Block), Linked(c),
         NEW s \in Seq(Block), s # <<>>, ValidateBlocks(s),
         \A i \in 1..Len(s) : OneUp(s[i])
  PROVE  Linked(ReplaceWithFork(c, s))
<1> DEFINE base == RollbackToHash(c, PrevHash[s[1]])
<1>1. CASE base = <<>>
  BY <1>1 DEF ReplaceWithFork, Linked
<1>2. CASE base # <<>>
  <2>1. PICK m \in 1..Len(c) : c[m] = PrevHash[s[1]] /\ base = SubSeq(c, 1, m)
    BY <1>2, RollbackFacts
  <2> DEFINE d == base \o s
  <2>2. ReplaceWithFork(c, s) = d
    BY <1>2 DEF ReplaceWithFork
  <2>3. /\ base \in Seq(Block) /\ Len(base) = m /\ Linked(base)
        /\ base[m] = PrevHash[s[1]] /\ Height[base[m]] = m - 1
        /\ m \in Nat \ {0} /\ Len(s) \in Nat \ {0}
    <3>1. /\ base \in Seq(Block) /\ Len(base) = m /\ base[m] = c[m]
          /\ m \in Nat \ {0} /\ Len(s) \in Nat \ {0}
      BY <2>1
    <3>2. Linked(base)
      BY <2>1, LinkedPrefix
    <3>3. Height[c[m]] = m - 1
      BY DEF Linked
    <3> HIDE DEF base
    <3> QED BY <2>1, <3>1, <3>2, <3>3
  <2> HIDE DEF base
  <2>4. /\ Len(d) = m + Len(s) /\ DOMAIN d = 1..(m + Len(s))
        /\ \A i \in 1..m : d[i] = base[i]
        /\ \A i \in 1..Len(s) : d[m + i] = s[i]
    BY <2>3
  <2>5. \A i \in 1..Len(s) :
           /\ s[i] \in Block \ {Genesis, Nil}
           /\ i > 1 => PrevHash[s[i]] = s[i-1]
           /\ Height[s[i]] = Height[PrevHash[s[i]]] + 1
    BY DEF ValidateBlocks, LinkedUpTo, Verify, OneUp
  <2>6. \A i \in 1..Len(s) : Height[s[i]] = m - 1 + i
    <3> DEFINE Wrong == {i \in 1..Len(s) : Height[s[i]] # m - 1 + i}
    <3>1. SUFFICES ASSUME Wrong # {} PROVE FALSE
      OBVIOUS
    <3>2. PICK k \in Wrong : \A i \in Wrong : k <= i
      <4>1. Wrong \subseteq Nat
        OBVIOUS
      <4> HIDE DEF Wrong
      <4> QED BY <3>1, <4>1, LeastNatural
    <3>3. CASE k = 1
      BY <2>3, <2>5, <3>2, <3>3
    <3>4. CASE k # 1
      <4>1. k - 1 \in 1..Len(s) /\ k - 1 \notin Wrong
        BY <3>2, <3>4
      <4>2. Height[s[k-1]] = m - 1 + (k - 1) /\ PrevHash[s[k]] = s[k-1]
        BY <2>5, <3>4, <4>1
      <4> QED BY <2>3, <2>5, <3>2, <4>2
    <3> QED BY <3>3, <3>4
  <2>7. ASSUME NEW i \in 1..(m + Len(s))
        PROVE  /\ Height[d[i]] = i - 1
               /\ IF i = 1 THEN d[i] = Genesis
                           ELSE d[i] # Genesis /\ PrevHash[d[i]] = d[i-1]
    <3> HIDE DEF d
    <3>1. CASE i \in 1..m
      <4>1. d[i] = base[i] /\ (i # 1 => d[i-1] = base[i-1]) /\ i \in DOMAIN base
        BY <2>3, <2>4, <3>1
      <4> QED BY <2>3, <4>1 DEF Linked
    <3>2. CASE i \notin 1..m
      <4>1. PICK j \in 1..Len(s) : i = m + j
        <5>1. i - m \in 1..Len(s) /\ i = m + (i - m)
          BY <2>3, <3>2
        <5> QED BY <5>1
      <4>2. i # 1 /\ d[i] = s[j] /\ d[i-1] = IF j = 1 THEN base[m] ELSE s[j-1]
        <5>1. CASE j = 1
          BY <2>3, <2>4, <4>1, <5>1
        <5>2. CASE j # 1
          <6>1. j - 1 \in 1..Len(s) /\ i - 1 = m + (j - 1)
            BY <2>3, <4>1, <5>2
          <6> QED BY <2>3, <2>4, <4>1, <5>2, <6>1
        <5> QED BY <5>1, <5>2
      <4> QED BY <2>3, <2>5, <2>6, <4>1, <4>2
    <3> QED BY <3>1, <3>2
  <2> HIDE DEF d
  <2> QED BY <2>2, <2>4, <2>7 DEF Linked
<1> QED BY <1>1, <1>2

-----------------------------------------------------------------------------
(***************************************************************************)
(* Chains of which one is the beginning of the other.                      *)
(***************************************************************************)
Behind(c, s) ==
  /\ c \in Seq(Block) /\ s \in Seq(Block)
  /\ Len(c) \in 1..Len(s)
  /\ \A i \in 1..Len(c) : c[i] = s[i]

LEMMA SameSequence ==
  ASSUME NEW S, NEW s \in Seq(S), NEW t \in Seq(S), Len(s) = Len(t),
         \A i \in 1..Len(s) : s[i] = t[i]
  PROVE  s = t
OBVIOUS

LEMMA BehindIsPrefix ==
  ASSUME NEW c, NEW s, Behind(c, s)
  PROVE  /\ Len(c) \in Nat \ {0} /\ Len(s) \in Nat \ {0} /\ Len(c) <= Len(s)
         /\ c # <<>> /\ s # <<>>
         /\ Last(c) = s[Len(c)] /\ Last(s) = s[Len(s)]
         /\ Len(c) = Len(s) => c = s
         /\ OnChain(c, Last(s)) /\ Linked(s) => c = s
<1>1. /\ c \in Seq(Block) /\ s \in Seq(Block)
      /\ Len(c) \in Nat \ {0} /\ Len(s) \in Nat \ {0} /\ Len(c) <= Len(s)
      /\ c # <<>> /\ s # <<>>
  BY DEF Behind
<1>2. Last(c) = c[Len(c)] /\ Last(s) = s[Len(s)]
  BY <1>1, FrontFacts
<1>3. ASSUME Len(c) = Len(s) PROVE c = s
  BY <1>1, <1>3 DEF Behind
<1>4. ASSUME OnChain(c, Last(s)), Linked(s) PROVE c = s
  <2>1. PICK i \in 1..Len(c) : c[i] = s[Len(s)]
    BY <1>1, <1>2, <1>4 DEF OnChain
  <2>2. s[i] = s[Len(s)] /\ i \in 1..Len(s) /\ Len(s) \in 1..Len(s)
    BY <1>1, <2>1 DEF Behind
  <2>3. i - 1 = Len(s) - 1
    BY <1>1, <1>4, <2>2 DEF Linked
  <2> QED BY <1>1, <1>3, <2>1, <2>3
<1> QED BY <1>1, <1>2, <1>3, <1>4 DEF Behind

(* The last hashes of a chain.                                             *)
LEMMA LastHashesPlace ==
  ASSUME NEW s \in Seq(Block)
  PROVE  \E a \in Nat :
           /\ a <= Len(s) /\ Len(LastHashes(s)) = Len(s) - a
           /\ LastHashes(s) \in Seq(Block)
           /\ \A j \in 1..(Len(s) - a) : LastHashes(s)[j] = s[a + j]
<1>1. Len(s) \in Nat /\ HashWindow \in Nat \ {0}
  BY ChainAssumption
<1>2. PICK a \in Nat : a = IF Len(s) > HashWindow THEN Len(s) - HashWindow ELSE 0
  <2>1. (IF Len(s) > HashWindow THEN Len(s) - HashWindow ELSE 0) \in Nat
    BY <1>1
  <2> QED BY <2>1
<1>3. a <= Len(s) /\ LastHashes(s) = SubSeq(s, a + 1, Len(s))
  BY <1>1, <1>2 DEF LastHashes
<1>4. /\ Len(SubSeq(s, a + 1, Len(s))) = Len(s) - a
      /\ SubSeq(s, a + 1, Len(s)) \in Seq(Block)
      /\ \A j \in 1..(Len(s) - a) : SubSeq(s, a + 1, Len(s))[j] = s[a + j]
  BY <1>1, <1>3
<1> QED BY <1>3, <1>4

(* A block is in one place of a linked chain.                              *)
LEMMA LinkedOnce ==
  ASSUME NEW s \in Seq(Block), Linked(s), NEW i \in 1..Len(s), NEW j \in 1..Len(s),
         s[i] = s[j]
  PROVE  i = j
<1>1. Height[s[i]] = i - 1 /\ Height[s[j]] = j - 1
  BY DEF Linked
<1> QED BY <1>1

(* What a beginning of a chain lacks is what RequestMissingBlocks asks     *)
(* for, if the hashes that travel reach back to it.                        *)
LEMMA MissingCount ==
  ASSUME NEW c, NEW s, Behind(c, s), Linked(s), Common(c, LastHashes(s)) # {}
  PROVE  Len(MissingHashes(LastHashes(s), CommonAncestor(c, LastHashes(s))))
           = Len(s) - Len(c)
<1> DEFINE k == Len(c)
           h == LastHashes(s)
<1>1. /\ c \in Seq(Block) /\ s \in Seq(Block) /\ k \in Nat \ {0} /\ k <= Len(s)
      /\ Len(s) \in Nat /\ \A i \in 1..k : c[i] = s[i]
  BY DEF Behind
<1>2. PICK a \in Nat :
        /\ a <= Len(s) /\ Len(h) = Len(s) - a /\ h \in Seq(Block)
        /\ \A j \in 1..(Len(s) - a) : h[j] = s[a + j]
  BY <1>1, LastHashesPlace
<1> HIDE DEF h
<1>3. \A i \in Common(c, h) : i \in 1..k /\ i > a
  <2> TAKE i \in Common(c, h)
  <2>1. i \in 1..k /\ OnChain(h, c[i])
    BY <1>1 DEF Common
  <2>2. PICK j \in 1..(Len(s) - a) : h[j] = c[i]
    BY <1>1, <1>2, <2>1 DEF OnChain
  <2>3. s[a + j] = s[i] /\ a + j \in 1..Len(s) /\ i \in 1..Len(s)
    BY <1>1, <1>2, <2>1, <2>2
  <2>4. a + j = i
    BY <1>1, <2>3, LinkedOnce
  <2> QED BY <1>2, <2>1, <2>2, <2>4
<1>4. k > a
  <2>1. PICK i \in Common(c, h) : TRUE
    BY DEF h
  <2> QED BY <1>1, <1>2, <1>3, <2>1
<1>5. k \in Common(c, h)
  <2>1. k - a \in 1..(Len(s) - a) /\ a + (k - a) = k
    BY <1>1, <1>2, <1>4
  <2>2. h[k - a] = c[k]
    BY <1>1, <1>2, <2>1
  <2>3. OnChain(h, c[k])
    BY <1>1, <1>2, <2>1, <2>2 DEF OnChain
  <2> QED BY <1>1, <2>3 DEF Common
<1>6. Max(Common(c, h)) = k
  <2>1. Common(c, h) \subseteq 1..k /\ k \in Nat
    BY <1>1 DEF Common
  <2>2. Max(Common(c, h)) \in Common(c, h) /\ \A i \in Common(c, h) : i <= Max(Common(c, h))
    BY <1>5, <2>1, MaxPosition
  <2> QED BY <1>3, <1>5, <2>1, <2>2
<1>7. CommonAncestor(c, h) = s[k]
  BY <1>1, <1>6 DEF CommonAncestor
<1>8. Positions(h, s[k]) = {k - a}
  <2>1. k - a \in 1..(Len(s) - a) /\ a + (k - a) = k
    BY <1>1, <1>2, <1>4
  <2>2. ASSUME NEW j \in 1..(Len(s) - a), h[j] = s[k] PROVE j = k - a
    <3>1. s[a + j] = s[k] /\ a + j \in 1..Len(s) /\ k \in 1..Len(s)
      BY <1>1, <1>2, <2>2
    <3>2. a + j = k
      BY <1>1, <3>1, LinkedOnce
    <3> QED BY <1>1, <1>2, <3>2
  <2>3. DOMAIN h = 1..(Len(s) - a)
    BY <1>2
  <2> QED BY <1>2, <2>1, <2>2, <2>3 DEF Positions
<1>9. PICK m \in Nat : m = k - a /\ m <= Len(h) /\ m > 0 /\ Len(h) \in Nat
  <2>1. k - a \in Nat /\ k - a <= Len(h) /\ k - a > 0 /\ Len(h) \in Nat
    BY <1>1, <1>2, <1>4
  <2> QED BY <2>1
<1>10. Max({m}) = m
  <2>1. {m} \subseteq 1..m
    BY <1>9
  <2> QED BY <2>1, MaxPosition
<1>11. MissingHashes(h, s[k]) = SubSeq(h, m + 1, Len(h))
  BY <1>8, <1>9, <1>10 DEF MissingHashes
<1>12. Len(SubSeq(h, m + 1, Len(h))) = Len(h) - m
  <2>1. m + 1 \in 1..(Len(h) + 1) /\ h \in Seq(Block)
    BY <1>2, <1>9
  <2> QED BY ONLY <1>9, <2>1
<1>13. Len(h) - m = Len(s) - k
  BY <1>1, <1>2, <1>9
<1> QED BY <1>7, <1>11, <1>12, <1>13 DEF h

(* And with the blocks it lacks it becomes the whole chain.                *)
LEMMA MissingCompletes ==
  ASSUME NEW c, NEW s, Behind(c, s), Linked(s),
         NEW got \in Seq(Block), got # <<>>, Len(got) = Len(s) - Len(c),
         \A j \in 1..Len(got) : got[j] = s[Len(c) + j]
  PROVE  ReplaceWithFork(c, got) = s
<1> DEFINE k == Len(c)
<1>1. /\ c \in Seq(Block) /\ s \in Seq(Block) /\ k \in Nat \ {0} /\ k <= Len(s)
      /\ Len(s) \in Nat /\ \A i \in 1..k : c[i] = s[i]
  BY DEF Behind
<1>2. Len(got) \in Nat \ {0} /\ Len(s) = k + Len(got)
  BY <1>1
<1>3. PrevHash[got[1]] = s[k]
  <2>1. 1 \in 1..Len(got) /\ k + 1 \in 1..Len(s) /\ k + 1 # 1 /\ (k + 1) - 1 = k
    BY <1>1, <1>2
  <2>2. got[1] = s[k + 1]
    BY <2>1
  <2>3. DOMAIN s = 1..Len(s)
    BY <1>1
  <2>4. \A i \in 1..Len(s) : i # 1 => PrevHash[s[i]] = s[i - 1]
    BY <2>3 DEF Linked
  <2> HIDE DEF k
  <2> QED BY <2>1, <2>2, <2>4
<1>4. Positions(c, s[k]) = {k}
  <2>1. ASSUME NEW i \in 1..k, c[i] = s[k] PROVE i = k
    <3>1. s[i] = s[k] /\ i \in 1..Len(s) /\ k \in 1..Len(s)
      BY <1>1, <2>1
    <3> QED BY <1>1, <3>1, LinkedOnce
  <2>2. c[k] = s[k] /\ k \in 1..k /\ DOMAIN c = 1..k
    BY <1>1
  <2> QED BY <2>1, <2>2 DEF Positions
<1>5. Max({k}) = k
  <2>1. {k} \subseteq 1..k /\ {k} # {}
    BY <1>1
  <2> HIDE DEF k
  <2>2. Max({k}) \in {k}
    BY <1>1, <2>1, MaxPosition
  <2> QED BY <2>2
<1>6. RollbackToHash(c, s[k]) = SubSeq(c, 1, k)
  BY <1>4, <1>5 DEF RollbackToHash
<1>7. SubSeq(c, 1, k) = c
  BY <1>1
<1>8. ReplaceWithFork(c, got) = c \o got
  <2>1. c # <<>>
    BY <1>1
  <2> QED BY <1>3, <1>6, <1>7, <2>1 DEF ReplaceWithFork
<1>9. c \o got = s
  <2>1. /\ c \o got \in Seq(Block) /\ Len(c \o got) = Len(s)
        /\ \A i \in 1..k : (c \o got)[i] = c[i]
        /\ \A i \in 1..Len(got) : (c \o got)[k + i] = got[i]
    BY <1>1, <1>2
  <2>2. ASSUME NEW i \in 1..Len(s) PROVE (c \o got)[i] = s[i]
    <3>1. CASE i \in 1..k
      BY <1>1, <2>1, <3>1
    <3>2. CASE i \notin 1..k
      <4>1. i - k \in 1..Len(got) /\ k + (i - k) = i
        BY <1>1, <1>2, <3>2
      <4> QED BY <2>1, <4>1
    <3> QED BY <3>1, <3>2
  <2> QED BY <1>1, <2>1, <2>2, SameSequence
<1> QED BY <1>8, <1>9

(* A block that ends a chain connects only to what is one block behind.    *)
LEMMA EndConnects ==
  ASSUME NEW c, NEW s, Behind(c, s), Linked(s), PrevHash[Last(s)] = Last(c),
         Last(s) # Genesis
  PROVE  Append(c, Last(s)) = s /\ Len(c) = Len(s) - 1
<1> DEFINE k == Len(c)
<1>1. /\ c \in Seq(Block) /\ s \in Seq(Block) /\ k \in Nat \ {0} /\ k <= Len(s)
      /\ Len(s) \in Nat \ {0} /\ \A i \in 1..k : c[i] = s[i]
      /\ Last(c) = s[k] /\ Last(s) = s[Len(s)] /\ s[Len(s)] \in Block
  BY BehindIsPrefix DEF Behind
<1>2. Len(s) # 1
  <2>1. ASSUME Len(s) = 1 PROVE FALSE
    BY <1>1, <2>1 DEF Linked
  <2> QED BY <2>1
<1>3. Len(s) - 1 \in 1..Len(s) /\ PrevHash[s[Len(s)]] = s[Len(s) - 1]
  BY <1>1, <1>2 DEF Linked
<1>4. k \in 1..Len(s)
  BY <1>1
<1>5. k = Len(s) - 1
  BY <1>1, <1>3, <1>4, LinkedOnce
<1>6. Append(c, Last(s)) = s
  <2>1. /\ Append(c, s[Len(s)]) \in Seq(Block) /\ Len(Append(c, s[Len(s)])) = k + 1
        /\ \A i \in 1..k : Append(c, s[Len(s)])[i] = c[i]
        /\ Append(c, s[Len(s)])[k + 1] = s[Len(s)]
    BY <1>1, AppendFacts
  <2>2. ASSUME NEW i \in 1..Len(s) PROVE Append(c, s[Len(s)])[i] = s[i]
    <3>1. CASE i \in 1..k
      BY <1>1, <2>1, <3>1
    <3>2. CASE i = k + 1
      BY <1>5, <2>1, <3>2
    <3> QED BY <1>1, <1>5, <3>1, <3>2
  <2> QED BY <1>1, <1>5, <2>1, <2>2
<1> QED BY <1>5, <1>6

-----------------------------------------------------------------------------
(***************************************************************************)
(* Type correctness.  TypeOK is not inductive: a handler needs a message   *)
(* to work on and a frame below it to return to.                           *)
(***************************************************************************)

(* The frame at the bottom of a stack is the broadcast of the node that    *)
(* mined the block.                                                        *)
CallOK ==
  \A t \in Node : stack[t] # <<>> =>
     /\ msg[t] \in Message
     /\ stack[t][1].node = t
     /\ stack[t][1].pc = "cast"

TypeInv == TypeOK /\ CallOK

(* What a step of the stack of t can rely on.                              *)
LEMMA TopFacts ==
  ASSUME TypeInv, NEW t \in Node, stack[t] # <<>>
  PROVE  /\ stack[t] \in Seq(Frame)
         /\ Len(stack[t]) \in Nat \ {0}
         /\ Top(t) \in Frame
         /\ Top(t) = stack[t][Len(stack[t])]
         /\ Handler(t) \in Node
         /\ msg[t] \in Message
         /\ Top(t).pc # "cast" => Len(stack[t]) > 1 /\ Caller(t) \in Node
<1>1. stack[t] \in Seq(Frame) /\ msg[t] \in Message
  BY DEF TypeInv, TypeOK, CallOK
<1>2. /\ Len(stack[t]) \in Nat \ {0} /\ Last(stack[t]) \in Frame
      /\ Last(stack[t]) = stack[t][Len(stack[t])]
  BY <1>1, FrontFacts
<1>3. Handler(t) \in Node
  BY <1>2 DEF Handler, Top, Frame
<1>4. ASSUME Top(t).pc # "cast"
      PROVE  Len(stack[t]) > 1 /\ Caller(t) \in Node
  <2>1. Len(stack[t]) > 1
    BY <1>2, <1>4 DEF Top, TypeInv, CallOK
  <2>2. stack[t][Len(stack[t]) - 1] \in Frame
    BY <1>1, <2>1
  <2> QED BY <2>1, <2>2 DEF Caller, Frame
<1> QED BY <1>1, <1>2, <1>3, <1>4 DEF Top

(* What the stacks keep, of which the type invariant speaks.               *)
StackOK == stack \in [Node -> Seq(Frame)] /\ msg \in [Node -> Message \cup {Nil}] /\ CallOK

LEMMA ReplaceTopOK ==
  ASSUME TypeInv, NEW t \in Node, stack[t] # <<>>,
         NEW f \in Frame, f.node = Handler(t), Top(t).pc = "cast" => f.pc = "cast",
         ReplaceTop(t, f), UNCHANGED msg
  PROVE  StackOK'
<1>1. /\ stack[t] \in Seq(Frame)
      /\ stack \in [Node -> Seq(Frame)] /\ msg \in [Node -> Message \cup {Nil}]
      /\ Len(stack[t]) \in Nat \ {0} /\ Top(t) = stack[t][Len(stack[t])]
  BY TopFacts DEF TypeInv, TypeOK
<1>2. PICK r \in Seq(Frame) :
        /\ stack' = [stack EXCEPT ![t] = r]
        /\ r # <<>> /\ Len(r) = Len(stack[t])
        /\ \A i \in 1..(Len(stack[t]) - 1) : r[i] = stack[t][i]
        /\ r[Len(stack[t])] = f
  <2> DEFINE r == Append(Front(stack[t]), f)
  <2>1. /\ r \in Seq(Frame)
        /\ r # <<>> /\ Len(r) = Len(stack[t])
        /\ \A i \in 1..(Len(stack[t]) - 1) : r[i] = stack[t][i]
        /\ r[Len(stack[t])] = f
    BY <1>1, ReplaceLast
  <2>2. stack' = [stack EXCEPT ![t] = r]
    BY DEF ReplaceTop
  <2> HIDE DEF r
  <2> QED BY <2>1, <2>2
<1>3. r[1].node = t /\ r[1].pc = "cast" /\ msg[t] \in Message
  <2>1. stack[t][1].node = t /\ stack[t][1].pc = "cast" /\ msg[t] \in Message
    BY DEF TypeInv, CallOK
  <2>2. CASE Len(stack[t]) = 1
    BY <1>1, <1>2, <2>1, <2>2 DEF Handler
  <2>3. CASE Len(stack[t]) # 1
    <3>1. 1 \in 1..(Len(stack[t]) - 1)
      BY <1>1, <2>3, OneIsBelow
    <3>2. r[1] = stack[t][1]
      BY <1>2, <3>1
    <3> QED BY <2>1, <3>2
  <2> QED BY <2>1, <2>2, <2>3
<1> QED BY <1>1, <1>2, <1>3 DEF StackOK, TypeInv, CallOK

LEMMA PopOK ==
  ASSUME TypeInv, NEW t \in Node, stack[t] # <<>>, Pop(t),
         \/ UNCHANGED msg
         \/ Len(stack[t]) = 1 /\ msg' = [msg EXCEPT ![t] = Nil]
  PROVE  StackOK'
<1>1. /\ stack \in [Node -> Seq(Frame)] /\ msg \in [Node -> Message \cup {Nil}]
      /\ Len(stack[t]) \in Nat \ {0}
  BY TopFacts DEF TypeInv, TypeOK
<1>2. PICK r \in Seq(Frame) :
        /\ stack' = [stack EXCEPT ![t] = r]
        /\ Len(r) = Len(stack[t]) - 1
        /\ \A i \in 1..(Len(stack[t]) - 1) : r[i] = stack[t][i]
  <2>1. /\ Front(stack[t]) \in Seq(Frame)
        /\ Len(Front(stack[t])) = Len(stack[t]) - 1
        /\ \A i \in 1..(Len(stack[t]) - 1) : Front(stack[t])[i] = stack[t][i]
    <3>1. stack[t] \in Seq(Frame)
      BY <1>1
    <3> QED BY <3>1, FrontFacts
  <2> QED BY <2>1 DEF Pop
<1>3. ASSUME r # <<>> PROVE r[1] = stack[t][1] /\ msg' = msg
  BY <1>1, <1>2, <1>3
<1> QED BY <1>1, <1>2, <1>3 DEF StackOK, TypeInv, CallOK

(***************************************************************************)
(* The steps that leave everything but stacks and messages alone, or the   *)
(* chain of one node, or the count of invalid blocks.                      *)
(***************************************************************************)
LEMMA InitType == Init => TypeInv
<1> SUFFICES ASSUME Init PROVE TypeInv
  OBVIOUS
<1>1. NewUTXOSet \in UTXOSet
  BY DEF NewUTXOSet, UTXOSet
<1>2. TypeOK
  BY <1>1, ChainAssumption, NetworkAssumption DEF Init, TypeOK
<1>3. CallOK
  BY DEF Init, CallOK
<1> QED BY <1>2, <1>3 DEF TypeInv

LEMMA AddBlockType ==
  ASSUME TypeInv, NEW n \in Node, NEW b \in Block,
         AddBlockOK(n, b), AddBlock(n, b)
  PROVE  /\ b # Genesis
         /\ blocks' \in [Node -> Seq(Block)]
         /\ utxos' \in [Node -> UTXOSet]
         /\ applied' \in [Node -> SUBSET Tx]
<1>1. b # Genesis /\ TxOf[b] \in Tx /\ CheckTransaction(utxos[n], TxOf[b])
  BY ChainAssumption DEF AddBlockOK, Connects, Verify
<1>2. AddTransaction(utxos[n], TxOf[b]) \in UTXOSet
  BY <1>1, AddTransactionType DEF TypeInv, TypeOK
<1>3. Append(blocks[n], b) \in Seq(Block)
  BY AppendFacts DEF TypeInv, TypeOK
<1> QED BY <1>1, <1>2, <1>3 DEF AddBlock, TypeInv, TypeOK

LEMMA BroadcastType ==
  ASSUME TypeInv, NEW n \in Node, NEW b \in Block, NEW intact \in BOOLEAN,
         NEW chain \in Seq(Block), Broadcast(n, b, intact, chain)
  PROVE  StackOK'
<1>1. Cast(n) \in Frame /\ Cast(n).node = n /\ Cast(n).pc = "cast"
  BY DEF Cast, Frame, TypeInv, TypeOK
<1>2. [block |-> b, intact |-> intact, hashes |-> LastHashes(chain)] \in Message
  BY LastHashesType DEF Message
<1>3. <<Cast(n)>> \in Seq(Frame) /\ <<Cast(n)>>[1] = Cast(n)
  BY <1>1
<1> QED BY <1>1, <1>2, <1>3 DEF Broadcast, StackOK, TypeInv, TypeOK, CallOK

LEMMA MineType ==
  ASSUME TypeInv, NEW n \in Node, Mine(n)
  PROVE  TypeInv'
<1> USE DEF TypeInv, chainVars, minerVars, callVars, txVars
<1>1. CASE CreateBlock(n)
  <2>1. Last(blocks[n]) \in Block
    BY <1>1, FrontFacts DEF CreateBlock, TypeOK
  <2>2. CreatedOn(blocks[n]) \subseteq Block \ {Genesis}
    BY <2>1, ChainAssumption DEF CreatedOn
  <2> QED BY <1>1, <2>2 DEF CreateBlock, TypeOK, CallOK
<1>2. CASE MinerPanic(n)
  BY <1>2 DEF MinerPanic, Panic, TypeOK, CallOK
<1>3. CASE AbandonBlock(n)
  BY <1>3 DEF AbandonBlock, TypeOK, CallOK
<1>4. ASSUME Found(n)
      PROVE  cand[n] \in Block /\ cand' \in [Node -> (Block \ {Genesis}) \cup {Nil}]
  BY <1>4 DEF Found, TypeOK
<1>5. CASE PublishBlock(n)
  <2>1. Append(blocks[n], cand[n]) \in Seq(Block)
    BY <1>4, <1>5, AppendFacts DEF PublishBlock, TypeOK
  <2>2. StackOK'
    BY <1>4, <1>5, <2>1, BroadcastType DEF PublishBlock
  <2>3. /\ blocks' \in [Node -> Seq(Block)]
        /\ utxos' \in [Node -> UTXOSet] /\ applied' \in [Node -> SUBSET Tx]
    BY <1>4, <1>5, AddBlockType DEF PublishBlock
  <2> QED BY <1>4, <1>5, <2>2, <2>3 DEF PublishBlock, Found, TypeOK, StackOK
<1>6. CASE HideBlock(n)
  <2>1. /\ blocks' \in [Node -> Seq(Block)]
        /\ utxos' \in [Node -> UTXOSet] /\ applied' \in [Node -> SUBSET Tx]
    BY <1>4, <1>6, AddBlockType DEF HideBlock
  <2> QED BY <1>4, <1>6, <2>1 DEF HideBlock, Found, TypeOK, CallOK
<1>7. CASE DropBlock(n)
  BY <1>4, <1>7 DEF DropBlock, Found, TypeOK, CallOK
<1>8. CASE PublishRefused(n) \/ PublishSpoiled(n)
  <2>1. Found(n) /\ UNCHANGED chainVars
    BY <1>8 DEF PublishRefused, PublishSpoiled
  <2>2. PICK intact \in BOOLEAN : Broadcast(n, cand[n], intact, blocks[n])
    BY <1>8 DEF PublishRefused, PublishSpoiled
  <2>3. StackOK'
    <3>1. blocks[n] \in Seq(Block)
      BY DEF TypeOK
    <3> QED BY <1>4, <2>1, <2>2, <3>1, BroadcastType
  <2> QED BY <1>4, <2>1, <2>3 DEF Found, TypeOK, StackOK
<1> QED BY <1>1, <1>2, <1>3, <1>5, <1>6, <1>7, <1>8 DEF Mine

(* The steps that only move the stack of t, with the chains as they are.   *)
LEMMA StackStepType ==
  ASSUME TypeInv, StackOK',
         UNCHANGED <<chainVars, txVars, peers>>,
         cand' \in [Node -> (Block \ {Genesis}) \cup {Nil}],
         mining' \in [Node -> BOOLEAN],
         invalidCount' \in [Node -> [Node -> Nat]],
         up' \in [Node -> BOOLEAN]
  PROVE  TypeInv'
BY DEF TypeInv, TypeOK, StackOK, chainVars, txVars

LEMMA CalledPeerType ==
  ASSUME TypeInv, NEW t \in Node, stack[t] # <<>>, NEW p
  PROVE  /\ CalledPeer(t, p) \in Frame
         /\ CalledPeer(t, p).node = Handler(t)
         /\ CalledPeer(t, p).pc = Top(t).pc
BY TopFacts DEF CalledPeer, Frame, Handler

LEMMA AnsweredType ==
  ASSUME TypeInv, NEW t \in Node, Fetching(t), NEW b \in Block \cup {Nil}
  PROVE  /\ Answered(t, b) \in Frame
         /\ Answered(t, b).node = Handler(t)
         /\ Answered(t, b).pc = Top(t).pc
<1>1. Top(t) \in Frame /\ Top(t).want # <<>>
  BY TopFacts DEF Fetching, At
<1>2. Front(Top(t).want) \in Seq(Block)
  BY <1>1, FrontFacts DEF Frame
<1>3. <<b>> \o Top(t).got \in Seq(Block \cup {Nil})
  BY <1>1 DEF Frame
<1>4. peers[Handler(t)] \in SUBSET Node
  BY TopFacts DEF TypeInv, TypeOK, Fetching, At
<1> QED BY <1>1, <1>2, <1>3, <1>4 DEF Answered, Frame, Handler

LEMMA CastType ==
  ASSUME TypeInv, NEW n \in Node
  PROVE  /\ Cast(n) \in Frame /\ Cast(n).node = n /\ Cast(n).pc = "cast"
         /\ Enter(n) \in Frame /\ Enter(n).node = n
BY DEF Cast, Enter, Frame, TypeInv, TypeOK

(* Where a block starts to be handled, there is a caller, and a message.   *)
LEMMA EnterFacts ==
  ASSUME TypeInv, NEW t \in Node, At(t, "enter")
  PROVE  /\ stack[t] # <<>> /\ Len(stack[t]) > 1
         /\ Handler(t) \in Node /\ Caller(t) \in Node
         /\ msg[t] \in Message
         /\ blocks[Handler(t)] \in Seq(Block)
BY TopFacts DEF At, TypeInv, TypeOK

(* The handlers that answer at once. *)
LEMMA ReplyType ==
  ASSUME TypeInv, NEW t \in Node, stack[t] # <<>>, Reply(t), UNCHANGED <<chainVars, up>>,
         invalidCount' \in [Node -> [Node -> Nat]]
  PROVE  TypeInv'
<1>1. StackOK'
  BY PopOK DEF Reply
<1> QED BY <1>1, StackStepType DEF Reply, TypeInv, TypeOK, minerVars

(* The handlers that go on to another point of their code. *)
LEMMA MoveType ==
  ASSUME TypeInv, NEW t \in Node, stack[t] # <<>>,
         NEW f \in Frame, f.node = Handler(t), Top(t).pc = "cast" => f.pc = "cast",
         ReplaceTop(t, f),
         UNCHANGED <<chainVars, minerVars, msg, txVars, peers, invalidCount, up>>
  PROVE  TypeInv'
<1>1. StackOK'
  BY ReplaceTopOK
<1> QED BY <1>1, StackStepType DEF TypeInv, TypeOK, minerVars

(* The handlers that end the process. *)
LEMMA PanicType ==
  ASSUME TypeInv, NEW n \in Node, Panic(n),
         UNCHANGED <<chainVars, minerVars, callVars, txVars, peers, invalidCount>>
  PROVE  TypeInv'
BY DEF Panic, TypeInv, TypeOK, CallOK, chainVars, minerVars, callVars, txVars

LEMMA CarryType ==
  ASSUME TypeInv, NEW t \in Node, Carry(t)
  PROVE  TypeInv'
<1>1. CASE CallPeer(t)
  <2>1. PICK p \in Top(t).todo :
          stack' = [stack EXCEPT ![t] = Append(Append(Front(@), CalledPeer(t, p)), Enter(p))]
    BY <1>1 DEF CallPeer
  <2> DEFINE r == Append(Front(stack[t]), CalledPeer(t, p))
  <2>2. /\ stack[t] \in Seq(Frame) /\ stack[t] # <<>> /\ p \in Node
        /\ Len(stack[t]) \in Nat \ {0} /\ Top(t) = stack[t][Len(stack[t])]
    BY <1>1, TopFacts DEF CallPeer, At, Frame
  <2>3. /\ CalledPeer(t, p) \in Frame /\ CalledPeer(t, p).node = Top(t).node
        /\ CalledPeer(t, p).pc = Top(t).pc /\ Enter(p) \in Frame
    BY <2>2, CalledPeerType, CastType DEF Handler
  <2>4. /\ r \in Seq(Frame) /\ r # <<>> /\ Len(r) = Len(stack[t])
        /\ \A i \in 1..(Len(stack[t]) - 1) : r[i] = stack[t][i]
        /\ r[Len(stack[t])] = CalledPeer(t, p)
    BY <2>2, <2>3, ReplaceLast
  <2>5. stack' = [stack EXCEPT ![t] = Append(r, Enter(p))]
    BY <2>1
  <2> HIDE DEF r
  <2>6. r[1].node = stack[t][1].node /\ r[1].pc = stack[t][1].pc
    <3>1. CASE Len(stack[t]) = 1
      BY <2>2, <2>3, <2>4, <3>1
    <3>2. CASE Len(stack[t]) # 1
      <4>1. 1 \in 1..(Len(stack[t]) - 1)
        BY <2>2, <3>2, OneIsBelow
      <4>2. r[1] = stack[t][1]
        BY <2>4, <4>1
      <4> QED BY <4>2
    <3> QED BY <3>1, <3>2
  <2>7. /\ Append(r, Enter(p)) \in Seq(Frame)
        /\ Append(r, Enter(p))[1] = r[1]
    <3>1. 1 \in 1..Len(r)
      BY <2>2, <2>4
    <3> QED BY <2>3, <2>4, <3>1, AppendFacts
  <2>8. StackOK'
    BY <1>1, <2>2, <2>5, <2>6, <2>7 DEF CallPeer, StackOK, TypeInv, TypeOK, CallOK
  <2> QED BY <1>1, <2>8, StackStepType DEF CallPeer, TypeInv, TypeOK, minerVars
<1>2. CASE CallFails(t) \/ PeerHasNot(t)
  <2>1. PICK p : ReplaceTop(t, CalledPeer(t, p))
    BY <1>2 DEF CallFails, PeerHasNot
  <2>2. stack[t] # <<>>
    BY <1>2 DEF CallFails, PeerHasNot, Fetching, At
  <2>3. /\ CalledPeer(t, p) \in Frame /\ CalledPeer(t, p).node = Handler(t)
        /\ CalledPeer(t, p).pc = Top(t).pc
    BY <2>2, CalledPeerType
  <2> QED BY <1>2, <2>1, <2>2, <2>3, MoveType DEF CallFails, PeerHasNot
<1>3. CASE PeerAnswers(t) \/ NobodyHas(t)
  <2>1. Fetching(t) /\ stack[t] # <<>>
    BY <1>3 DEF PeerAnswers, NobodyHas, Fetching, At
  <2>2. PICK b \in Block \cup {Nil} : ReplaceTop(t, Answered(t, b))
    <3>1. Last(Top(t).want) \in Block
      BY <2>1, TopFacts, FrontFacts DEF Frame, Fetching
    <3> QED BY <1>3, <3>1 DEF PeerAnswers, NobodyHas
  <2>3. /\ Answered(t, b) \in Frame /\ Answered(t, b).node = Handler(t)
        /\ Answered(t, b).pc = Top(t).pc
    BY <2>1, AnsweredType
  <2> QED BY <1>3, <2>1, <2>2, <2>3, MoveType DEF PeerAnswers, NobodyHas
<1>4. CASE KeepChain(t)
  <2>1. At(t, "enter")
    BY <1>4 DEF KeepChain, Fork, Elsewhere, Verified, Received
  <2> QED BY <1>4, <2>1, EnterFacts, CastType, MoveType DEF KeepChain
<1>5. CASE BeginFork(t)
  <2> DEFINE n == Handler(t)
             want == MissingHashes(msg[t].hashes, CommonAncestor(blocks[n], msg[t].hashes))
             f == [node |-> n, pc |-> "fetch", todo |-> peers[n], want |-> want, got |-> <<>>]
  <2>1. At(t, "enter")
    BY <1>5 DEF BeginFork, Fork, Elsewhere, Verified, Received
  <2>2. stack[t] # <<>> /\ n \in Node /\ msg[t].hashes \in Seq(Block) /\ Top(t).pc = "enter"
    BY <2>1, EnterFacts DEF Message, At
  <2>3. want \in Seq(Block) /\ peers[n] \in SUBSET Node
    BY <2>2, MissingHashesFacts DEF TypeInv, TypeOK
  <2>4. f \in Frame /\ f.node = n
    BY <2>2, <2>3 DEF Frame
  <2>5. /\ ReplaceTop(t, f)
        /\ UNCHANGED <<chainVars, minerVars, msg, txVars, peers, invalidCount, up>>
    BY <1>5 DEF BeginFork
  <2> HIDE DEF f
  <2> QED BY <2>2, <2>4, <2>5, MoveType
<1>6. CASE Return(t)
  BY <1>6, ReplyType DEF Return, At, TypeInv, TypeOK
<1>7. CASE EndBroadcast(t)
  <2>1. StackOK'
    BY <1>7, PopOK DEF EndBroadcast, At
  <2>2. mining' \in [Node -> BOOLEAN]
    BY <1>7 DEF EndBroadcast, TypeInv, TypeOK
  <2> QED BY <1>7, <2>1, <2>2, StackStepType DEF EndBroadcast, TypeInv, TypeOK
<1>8. CASE Unwind(t)
  <2>1. StackOK'
    <3>1. msg' = msg \/ (Len(stack[t]) = 1 /\ msg' = [msg EXCEPT ![t] = Nil])
      BY <1>8 DEF Unwind, TypeInv, TypeOK
    <3> QED BY <1>8, <3>1, PopOK DEF Unwind
  <2> QED BY <1>8, <2>1, StackStepType DEF Unwind, TypeInv, TypeOK, minerVars
<1>9. CASE \/ RefuseBlacklisted(t) \/ IgnoreBlock(t) \/ RefuseBlock(t)
           \/ RefuseDuplicate(t) \/ RefuseUnconnected(t)
  <2>1. /\ stack[t] # <<>> /\ Reply(t)
        /\ UNCHANGED <<chainVars, up>> /\ UNCHANGED invalidCount
    BY <1>9 DEF RefuseBlacklisted, IgnoreBlock, RefuseBlock, RefuseDuplicate,
         RefuseUnconnected, Fork, Elsewhere, Extends, Verified, Received, At
  <2> QED BY <2>1, ReplyType DEF TypeInv, TypeOK
<1>10. CASE RejectInvalid(t)
  <2>1. At(t, "enter")
    BY <1>10 DEF RejectInvalid, Received
  <2>2. Handler(t) \in Node /\ Caller(t) \in Node /\ stack[t] # <<>>
    BY <2>1, EnterFacts
  <2>3. invalidCount' \in [Node -> [Node -> Nat]]
    BY <1>10, <2>2 DEF RejectInvalid, TypeInv, TypeOK
  <2> QED BY <1>10, <2>2, <2>3, ReplyType DEF RejectInvalid
<1>11. CASE ReceivePanic(t) \/ ForkPanic(t)
  <2>1. stack[t] # <<>>
    BY <1>11 DEF ReceivePanic, ForkPanic, Fetched, Verified, Received, At
  <2> QED BY <1>11, <2>1, TopFacts, PanicType DEF ReceivePanic, ForkPanic
<1>12. CASE ExtendChain(t)
  <2>1. At(t, "enter")
    BY <1>12 DEF ExtendChain, Extends, Verified, Received
  <2>2. Handler(t) \in Node /\ msg[t].block \in Block /\ stack[t] # <<>>
    BY <2>1, EnterFacts DEF Message
  <2>3. /\ blocks' \in [Node -> Seq(Block)]
        /\ utxos' \in [Node -> UTXOSet] /\ applied' \in [Node -> SUBSET Tx]
    BY <1>12, <2>2, AddBlockType DEF ExtendChain
  <2>4. StackOK'
    BY <1>12, <2>2, CastType, ReplaceTopOK DEF ExtendChain
  <2> QED BY <1>12, <2>3, <2>4
          DEF ExtendChain, TypeInv, TypeOK, StackOK, minerVars, txVars
<1>13. CASE FinishFork(t)
  <2> DEFINE n == Handler(t)
             valid == Top(t).got # <<>> /\ ValidateBlocks(Top(t).got)
             chain == IF valid THEN ReplaceWithFork(blocks[n], Top(t).got) ELSE blocks[n]
  <2>1. At(t, "fetch") /\ stack[t] # <<>>
    BY <1>13 DEF FinishFork, Fetched, At
  <2>2. n \in Node /\ Top(t).got \in Seq(Block \cup {Nil}) /\ blocks[n] \in Seq(Block)
    BY <2>1, TopFacts DEF Frame, TypeInv, TypeOK
  <2>3. chain \in Seq(Block)
    BY <2>2, ValidBlocks, ReplaceWithForkType
  <2>4. /\ blocks' = [blocks EXCEPT ![n] = chain]
        /\ ReplaceTop(t, Cast(n)) \/ Pop(t)
        /\ UNCHANGED <<utxos, applied, minerVars, msg, txVars, peers, invalidCount, up>>
    BY <1>13 DEF FinishFork
  <2> HIDE DEF chain
  <2>5. StackOK'
    BY <2>1, <2>2, <2>4, CastType, ReplaceTopOK, PopOK
  <2> QED BY <2>3, <2>4, <2>5 DEF TypeInv, TypeOK, StackOK, minerVars, txVars
<1> QED BY <1>1, <1>2, <1>3, <1>4, <1>5, <1>6, <1>7, <1>8, <1>9, <1>10, <1>11, <1>12, <1>13
        DEF Carry

LEMMA GossipType ==
  ASSUME TypeInv, NEW x \in Tx, Gossip(x)
  PROVE  TypeInv'
<1> USE DEF TypeInv, TypeOK, CallOK, UnchangedByTx, chainVars, minerVars, callVars
<1>1. CASE SubmitTransaction(x)
  <2>1. PICK n \in Node : tstack' = [tstack EXCEPT ![x] =
                                       <<[node |-> n, pc |-> "enter", todo |-> {}]>>]
    BY <1>1 DEF SubmitTransaction
  <2>2. <<[node |-> n, pc |-> "enter", todo |-> {}]>> \in Seq(TxFrame)
    BY DEF TxFrame
  <2> QED BY <1>1, <2>1, <2>2 DEF SubmitTransaction
<1>2. ASSUME tstack[x] # <<>>
      PROVE  /\ TxTop(x) \in TxFrame
             /\ Front(tstack[x]) \in Seq(TxFrame)
  BY <1>2, FrontFacts DEF TxTop
<1>3. CASE AcceptTransaction(x)
  <2>1. TxTop(x) \in TxFrame /\ Front(tstack[x]) \in Seq(TxFrame)
    BY <1>2, <1>3 DEF AcceptTransaction, TxAt
  <2> DEFINE f == [node |-> TxTop(x).node, pc |-> "cast", todo |-> peers[TxTop(x).node]]
  <2>2. f \in TxFrame
    BY <2>1 DEF TxFrame
  <2>3. /\ tstack' = [tstack EXCEPT ![x] = Append(Front(tstack[x]), f)]
        /\ txPool' \in [Node -> SUBSET Tx]
    BY <1>3 DEF AcceptTransaction
  <2> HIDE DEF f
  <2>4. Append(Front(tstack[x]), f) \in Seq(TxFrame)
    BY <2>1, <2>2, AppendFacts
  <2> QED BY <1>3, <2>3, <2>4 DEF AcceptTransaction
<1>4. CASE RefuseTransaction(x) \/ ReturnTransaction(x)
  <2>1. Front(tstack[x]) \in Seq(TxFrame)
    BY <1>2, <1>4 DEF RefuseTransaction, ReturnTransaction, TxAt
  <2> QED BY <1>4, <2>1 DEF RefuseTransaction, ReturnTransaction, TxPop
<1>5. CASE RelayTransaction(x)
  <2>1. PICK p \in TxTop(x).todo :
          LET rest == Append(Front(tstack[x]), [TxTop(x) EXCEPT !.todo = @ \ {p}]) IN
          \/ tstack' = [tstack EXCEPT ![x] =
                          Append(rest, [node |-> p, pc |-> "enter", todo |-> {}])]
          \/ tstack' = [tstack EXCEPT ![x] = rest]
    BY <1>5 DEF RelayTransaction
  <2>2. TxTop(x) \in TxFrame /\ Front(tstack[x]) \in Seq(TxFrame)
    BY <1>2, <1>5 DEF RelayTransaction, TxAt
  <2> DEFINE f == [TxTop(x) EXCEPT !.todo = @ \ {p}]
             g == [node |-> p, pc |-> "enter", todo |-> {}]
  <2>3. f \in TxFrame /\ g \in TxFrame
    BY <2>2 DEF TxFrame
  <2>4. \/ tstack' = [tstack EXCEPT ![x] = Append(Append(Front(tstack[x]), f), g)]
        \/ tstack' = [tstack EXCEPT ![x] = Append(Front(tstack[x]), f)]
    BY <2>1
  <2> HIDE DEF f, g
  <2>5. /\ Append(Front(tstack[x]), f) \in Seq(TxFrame)
        /\ Append(Append(Front(tstack[x]), f), g) \in Seq(TxFrame)
    BY <2>2, <2>3, AppendFacts
  <2>6. tstack' \in [Tx -> Seq(TxFrame)]
    BY <2>4, <2>5
  <2> QED BY <1>5, <2>6 DEF RelayTransaction
<1> QED BY <1>1, <1>3, <1>4, <1>5 DEF Gossip

LEMMA NextType == TypeInv /\ [Next]_vars => TypeInv'
<1> SUFFICES ASSUME TypeInv, [Next]_vars PROVE TypeInv'
  OBVIOUS
<1>1. CASE \E n \in Node : Mine(n)
  BY <1>1, MineType
<1>2. CASE \E n \in Node : Carry(n)
  BY <1>2, CarryType
<1>3. CASE \E n \in Node : AddPeer(n)
  <2>1. PICK n \in Node : AddPeer(n)
    BY <1>3
  <2>2. PICK p \in Node : peers' = [peers EXCEPT ![n] = @ \cup {p}]
    BY <2>1, NetworkAssumption DEF AddPeer
  <2>3. peers' \in [Node -> SUBSET Node]
    BY <2>2 DEF TypeInv, TypeOK
  <2> QED BY <2>1, <2>3
          DEF AddPeer, TypeInv, TypeOK, CallOK, chainVars, minerVars, callVars, txVars
<1>4. CASE \E x \in Tx : Gossip(x)
  BY <1>4, GossipType
<1>5. CASE UNCHANGED vars
  BY <1>5 DEF vars, TypeInv, TypeOK, CallOK, chainVars, minerVars, callVars, txVars
<1> QED BY <1>1, <1>2, <1>3, <1>4, <1>5 DEF Next

(* The inductive type invariant holds. *)
THEOREM TypeInvariant == Spec => []TypeInv
BY InitType, NextType, PTL DEF Spec

(* Every variable keeps its type; in particular no chain holds a nil block *)
(* and no output is counted below zero.                                    *)
THEOREM TypeCorrect == Spec => []TypeOK
<1>1. TypeInv => TypeOK
  BY DEF TypeInv
<1> QED BY <1>1, TypeInvariant, PTL

-----------------------------------------------------------------------------
(***************************************************************************)
(* Stacks of frames from a set S.                                          *)
(***************************************************************************)
LEMMA ReplaceTopIn ==
  ASSUME NEW S, stack \in [Node -> Seq(S)], NEW t \in Node, stack[t] # <<>>,
         NEW f \in S, ReplaceTop(t, f)
  PROVE  stack' \in [Node -> Seq(S)]
<1>1. Append(Front(stack[t]), f) \in Seq(S)
  <2>1. stack[t] \in Seq(S)
    OBVIOUS
  <2> QED BY <2>1, ReplaceLast
<1> QED BY <1>1 DEF ReplaceTop

LEMMA PopIn ==
  ASSUME NEW S, stack \in [Node -> Seq(S)], NEW t \in Node, stack[t] # <<>>, Pop(t)
  PROVE  stack' \in [Node -> Seq(S)]
<1>1. Front(stack[t]) \in Seq(S)
  <2>1. stack[t] \in Seq(S)
    OBVIOUS
  <2> QED BY <2>1, FrontFacts
<1> QED BY <1>1 DEF Pop

LEMMA TopIn ==
  ASSUME NEW S, stack \in [Node -> Seq(S)], NEW t \in Node, stack[t] # <<>>
  PROVE  Top(t) \in S
<1>1. stack[t] \in Seq(S)
  OBVIOUS
<1> QED BY <1>1, FrontFacts DEF Top

-----------------------------------------------------------------------------
(***************************************************************************)
(* Blocks a handler has been given.  Whatever holds of all blocks on all   *)
(* chains, "being in G", holds of the answers in every frame, although the *)
(* chains they came from may have changed since.                           *)
(***************************************************************************)
Holding(G) == {f \in Frame : f.got \in Seq(G \cup {Nil})}

ChainsWithin(G) == \A n \in Node : \A i \in DOMAIN blocks[n] : blocks[n][i] \in G

AnswersWithin(G) == stack \in [Node -> Seq(Holding(G))]

LEMMA NewFramesHold ==
  ASSUME TypeInv, NEW n \in Node, NEW G
  PROVE  Cast(n) \in Holding(G) /\ Enter(n) \in Holding(G)
<1>1. Cast(n) \in Frame /\ Enter(n) \in Frame
  BY CastType
<1>2. Cast(n).got = <<>> /\ Enter(n).got = <<>>
  BY DEF Cast, Enter
<1>3. <<>> \in Seq(G \cup {Nil})
  OBVIOUS
<1> QED BY <1>1, <1>2, <1>3 DEF Holding

LEMMA CalledPeerHolds ==
  ASSUME TypeInv, NEW t \in Node, stack[t] # <<>>, NEW p, NEW G, AnswersWithin(G)
  PROVE  CalledPeer(t, p) \in Holding(G)
<1>1. Top(t) \in Holding(G)
  BY TopIn DEF AnswersWithin
<1>2. CalledPeer(t, p) \in Frame /\ CalledPeer(t, p).got = Top(t).got
  BY TopFacts, CalledPeerType DEF CalledPeer, Frame
<1> QED BY <1>1, <1>2 DEF Holding

LEMMA MineAnswers ==
  ASSUME TypeInv, NEW n \in Node, Mine(n), NEW G, AnswersWithin(G)
  PROVE  AnswersWithin(G)'
<1>1. CASE UNCHANGED stack
  BY <1>1 DEF AnswersWithin
<1>2. CASE stack' = [stack EXCEPT ![n] = <<Cast(n)>>]
  <2>1. <<Cast(n)>> \in Seq(Holding(G))
    BY NewFramesHold
  <2> QED BY <1>2, <2>1 DEF AnswersWithin
<1> QED BY <1>1, <1>2 DEF Mine, CreateBlock, MinerPanic, AbandonBlock, PublishBlock,
           HideBlock, DropBlock, PublishRefused, PublishSpoiled, Broadcast, callVars

LEMMA CarryAnswers ==
  ASSUME TypeInv, NEW t \in Node, Carry(t),
         NEW G \in SUBSET Block, ChainsWithin(G), AnswersWithin(G)
  PROVE  AnswersWithin(G)'
<1> DEFINE S == Holding(G)
<1>0. stack \in [Node -> Seq(S)]
  BY DEF AnswersWithin
<1> SUFFICES stack' \in [Node -> Seq(S)]
  BY DEF AnswersWithin
<1>1. CASE CallPeer(t)
  <2>1. PICK p \in Top(t).todo :
          stack' = [stack EXCEPT ![t] = Append(Append(Front(@), CalledPeer(t, p)), Enter(p))]
    BY <1>1 DEF CallPeer
  <2>2. stack[t] \in Seq(S) /\ stack[t] # <<>> /\ p \in Node
    BY <1>0, <1>1, TopFacts DEF CallPeer, At, Frame
  <2>3. CalledPeer(t, p) \in S /\ Enter(p) \in S
    BY <2>2, CalledPeerHolds, NewFramesHold
  <2> HIDE DEF S
  <2>4. Append(Front(stack[t]), CalledPeer(t, p)) \in Seq(S)
    BY <2>2, <2>3, ReplaceLast
  <2>5. Append(Append(Front(stack[t]), CalledPeer(t, p)), Enter(p)) \in Seq(S)
    BY <2>3, <2>4, AppendFacts
  <2> QED BY <1>0, <2>1, <2>5
<1>2. CASE CallFails(t) \/ PeerHasNot(t)
  <2>1. PICK p : ReplaceTop(t, CalledPeer(t, p))
    BY <1>2 DEF CallFails, PeerHasNot
  <2>2. stack[t] # <<>>
    BY <1>2 DEF CallFails, PeerHasNot, Fetching, At
  <2>3. CalledPeer(t, p) \in S
    BY <2>2, CalledPeerHolds
  <2> QED BY <1>0, <2>1, <2>2, <2>3, ReplaceTopIn
<1>3. CASE PeerAnswers(t) \/ NobodyHas(t)
  <2>1. Fetching(t) /\ stack[t] # <<>>
    BY <1>3 DEF PeerAnswers, NobodyHas, Fetching, At
  <2>2. PICK b \in G \cup {Nil} : ReplaceTop(t, Answered(t, b))
    <3>1. CASE PeerAnswers(t)
      <4>1. PICK p \in Node : OnChain(blocks[p], Last(Top(t).want))
        BY <2>1, <3>1, TopFacts DEF PeerAnswers, Frame
      <4>2. Last(Top(t).want) \in G
        BY <4>1 DEF ChainsWithin, OnChain
      <4> QED BY <3>1, <4>2 DEF PeerAnswers
    <3>2. CASE NobodyHas(t)
      BY <3>2 DEF NobodyHas
    <3> QED BY <1>3, <3>1, <3>2
  <2>3. Answered(t, b) \in S
    <3>1. Top(t) \in S /\ Answered(t, b) \in Frame
      <4>1. Top(t) \in S
        BY <1>0, <2>1, TopIn
      <4> QED BY <2>1, <4>1, AnsweredType
    <3>2. Top(t).got \in Seq(G \cup {Nil}) /\ Answered(t, b).got = <<b>> \o Top(t).got
      BY <2>1, <3>1, TopFacts DEF Answered, Frame, Holding
    <3>3. <<b>> \o Top(t).got \in Seq(G \cup {Nil})
      BY <3>2
    <3> QED BY <3>1, <3>2, <3>3 DEF Holding
  <2> QED BY <1>0, <2>1, <2>2, <2>3, ReplaceTopIn
<1>4. CASE KeepChain(t) \/ ExtendChain(t)
  <2>1. At(t, "enter") /\ ReplaceTop(t, Cast(Handler(t)))
    BY <1>4 DEF KeepChain, ExtendChain, Extends, Fork, Elsewhere, Verified, Received
  <2>2. stack[t] # <<>> /\ Cast(Handler(t)) \in S
    BY <2>1, EnterFacts, NewFramesHold
  <2> QED BY <1>0, <2>1, <2>2, ReplaceTopIn
<1>5. CASE BeginFork(t)
  <2> DEFINE n == Handler(t)
             want == MissingHashes(msg[t].hashes, CommonAncestor(blocks[n], msg[t].hashes))
             f == [node |-> n, pc |-> "fetch", todo |-> peers[n], want |-> want, got |-> <<>>]
  <2>1. At(t, "enter") /\ ReplaceTop(t, f)
    BY <1>5 DEF BeginFork, Fork, Elsewhere, Verified, Received
  <2>2. stack[t] # <<>> /\ n \in Node /\ msg[t].hashes \in Seq(Block)
    BY <2>1, EnterFacts DEF Message
  <2>3. want \in Seq(Block) /\ peers[n] \in SUBSET Node
    BY <2>2, MissingHashesFacts DEF TypeInv, TypeOK
  <2>4. f \in S
    <3>1. f \in Frame /\ f.got = <<>>
      BY <2>2, <2>3 DEF Frame
    <3>2. <<>> \in Seq(G \cup {Nil})
      OBVIOUS
    <3> HIDE DEF f
    <3> QED BY <3>1, <3>2 DEF Holding
  <2> HIDE DEF f
  <2> QED BY <1>0, <2>1, <2>2, <2>4, ReplaceTopIn
<1>6. CASE \/ Return(t) \/ EndBroadcast(t) \/ Unwind(t)
           \/ RefuseBlacklisted(t) \/ IgnoreBlock(t) \/ RejectInvalid(t) \/ RefuseBlock(t)
           \/ RefuseDuplicate(t) \/ RefuseUnconnected(t)
  <2>1. stack[t] # <<>> /\ Pop(t)
    BY <1>6 DEF Return, EndBroadcast, Unwind, Reply, RefuseBlacklisted, IgnoreBlock,
         RejectInvalid, RefuseBlock, RefuseDuplicate, RefuseUnconnected, Fork,
         Elsewhere, Extends, Verified, Received, At
  <2> QED BY <1>0, <2>1, PopIn
<1>7. CASE ReceivePanic(t) \/ ForkPanic(t)
  BY <1>0, <1>7 DEF ReceivePanic, ForkPanic, callVars
<1>8. CASE FinishFork(t)
  <2>1. stack[t] # <<>> /\ (ReplaceTop(t, Cast(Handler(t))) \/ Pop(t))
    BY <1>8 DEF FinishFork, Fetched, At
  <2>2. Cast(Handler(t)) \in S
    BY <2>1, TopFacts, NewFramesHold
  <2> QED BY <1>0, <2>1, <2>2, ReplaceTopIn, PopIn
<1> QED BY <1>1, <1>2, <1>3, <1>4, <1>5, <1>6, <1>7, <1>8 DEF Carry

LEMMA NextAnswers ==
  ASSUME TypeInv, [Next]_vars,
         NEW G \in SUBSET Block, ChainsWithin(G), AnswersWithin(G)
  PROVE  AnswersWithin(G)'
<1>1. CASE \E n \in Node : Mine(n)
  BY <1>1, MineAnswers
<1>2. CASE \E t \in Node : Carry(t)
  BY <1>2, CarryAnswers
<1>3. CASE \/ \E n \in Node : AddPeer(n)
           \/ \E x \in Tx : Gossip(x)
           \/ UNCHANGED vars
  BY <1>3 DEF AnswersWithin, AddPeer, Gossip, SubmitTransaction, AcceptTransaction,
     RefuseTransaction, RelayTransaction, ReturnTransaction, UnchangedByTx,
     callVars, vars
<1> QED BY <1>1, <1>2, <1>3 DEF Next

(***************************************************************************)
(* A chain grows by a block the node mined or was sent, through AddBlock   *)
(* and on top of a block; or it is replaced by a fork.                     *)
(***************************************************************************)
LEMMA WhoChangesChains ==
  ASSUME TypeInv, [Next]_vars, ~ UNCHANGED blocks
  PROVE  \/ \E n \in Node :
              /\ cand[n] \in Block /\ blocks[n] # <<>>
              /\ n \notin Liars
              /\ AddBlockOK(n, cand[n]) /\ AddBlock(n, cand[n])
         \/ \E t \in Node :
              /\ At(t, "enter") /\ msg[t].intact
              /\ msg[t].block \in Block /\ blocks[Handler(t)] # <<>>
              /\ AddBlockOK(Handler(t), msg[t].block)
              /\ AddBlock(Handler(t), msg[t].block)
         \/ \E t \in Node : FinishFork(t)
<1> USE DEF chainVars
<1>1. CASE \E n \in Node : Mine(n)
  <2>1. PICK n \in Node : PublishBlock(n) \/ HideBlock(n)
    BY <1>1 DEF Mine, CreateBlock, MinerPanic, AbandonBlock, DropBlock,
       PublishRefused, PublishSpoiled
  <2>2. cand[n] \in Block /\ blocks[n] # <<>> /\ n \notin Liars
    <3>1. cand[n] \in Block /\ blocks[n] # <<>>
      BY <2>1 DEF PublishBlock, HideBlock, Found, TypeInv, TypeOK
    <3>2. CASE PublishBlock(n)
      BY <3>1, <3>2 DEF PublishBlock
    <3>3. CASE HideBlock(n)
      <4>1. Mode[n] = 3
        BY <3>3 DEF HideBlock, Hidden
      <4>2. n \notin Liars
        BY <4>1 DEF Liars
      <4> QED BY <3>1, <4>2
    <3> QED BY <2>1, <3>2, <3>3
  <2> QED BY <2>1, <2>2 DEF PublishBlock, HideBlock
<1>2. CASE \E t \in Node : Carry(t)
  <2>1. PICK t \in Node : ExtendChain(t) \/ FinishFork(t)
    BY <1>2 DEF Carry, CallPeer, CallFails, Return, EndBroadcast, Unwind,
       RefuseBlacklisted, IgnoreBlock, RejectInvalid, ReceivePanic, RefuseBlock,
       RefuseDuplicate, RefuseUnconnected, KeepChain, BeginFork, PeerAnswers,
       PeerHasNot, NobodyHas, ForkPanic
  <2>2. CASE ExtendChain(t)
    <3>1. /\ At(t, "enter") /\ msg[t].intact /\ blocks[Handler(t)] # <<>>
          /\ AddBlockOK(Handler(t), msg[t].block) /\ AddBlock(Handler(t), msg[t].block)
      BY <2>2 DEF ExtendChain, Extends, Verified, Received
    <3>2. msg[t].block \in Block
      BY <3>1, EnterFacts DEF Message
    <3> QED BY <3>1, <3>2
  <2> QED BY <2>1, <2>2
<1>3. CASE \/ \E n \in Node : AddPeer(n)
           \/ \E x \in Tx : Gossip(x)
           \/ UNCHANGED vars
  BY <1>3 DEF AddPeer, Gossip, SubmitTransaction, AcceptTransaction,
     RefuseTransaction, RelayTransaction, ReturnTransaction, UnchangedByTx, vars
<1> QED BY <1>1, <1>2, <1>3 DEF Next

(* What FinishFork puts in the place of a chain. *)
LEMMA FinishForkChain ==
  ASSUME TypeInv, NEW t \in Node, FinishFork(t), NEW G \in SUBSET Block, AnswersWithin(G)
  PROVE  \E n \in Node, chain \in Seq(Block) :
           /\ blocks' = [blocks EXCEPT ![n] = chain]
           /\ \/ chain = blocks[n]
              \/ \E got \in Seq(G) : /\ got # <<>> /\ ValidateBlocks(got)
                                     /\ chain = ReplaceWithFork(blocks[n], got)
<1> DEFINE n == Handler(t)
           got == Top(t).got
           valid == got # <<>> /\ ValidateBlocks(got)
           chain == IF valid THEN ReplaceWithFork(blocks[n], got) ELSE blocks[n]
<1>1. stack[t] # <<>>
  BY DEF FinishFork, Fetched, At
<1>2. n \in Node /\ blocks[n] \in Seq(Block) /\ got \in Seq(G \cup {Nil})
  <2>1. Top(t) \in Holding(G)
    BY <1>1, TopIn DEF AnswersWithin
  <2> QED BY <1>1, <2>1, TopFacts DEF Holding, TypeInv, TypeOK
<1>3. blocks' = [blocks EXCEPT ![n] = chain]
  BY DEF FinishFork
<1>4. ASSUME valid PROVE got \in Seq(G)
  <2>1. \A i \in 1..Len(got) : got[i] \in G
    BY <1>2, <1>4 DEF ValidateBlocks, LinkedUpTo
  <2> QED BY <1>2, <2>1
<1>5. chain \in Seq(Block)
  <2>1. ASSUME valid PROVE got \in Seq(Block)
    BY <1>4, <2>1
  <2> QED BY <1>2, <2>1, ReplaceWithForkType
<1> QED BY <1>2, <1>3, <1>4, <1>5

-----------------------------------------------------------------------------
(***************************************************************************)
(* Linked chains.  ValidateBlocks does not look at the heights of a fork:  *)
(* that they fit is a property of the blocks a handler has been given, all *)
(* of which were on a linked chain when they were given.                   *)
(***************************************************************************)
StepUp == {b \in Block : OneUp(b)}

LinkInv == ChainLinked /\ AnswersWithin(StepUp)

LEMMA InitLink == Init => LinkInv
<1> SUFFICES ASSUME Init PROVE LinkInv
  OBVIOUS
<1>1. Linked(<<Genesis>>)
  BY ChainAssumption DEF Linked
<1> QED BY <1>1 DEF Init, LinkInv, ChainLinked, AnswersWithin

LEMMA LinkedStepsUp == TypeInv /\ ChainLinked => ChainsWithin(StepUp)
BY LinkedOneUp DEF ChainsWithin, StepUp, ChainLinked, OnChain, TypeInv, TypeOK

LEMMA AddBlockLinked ==
  ASSUME TypeInv, ChainLinked, NEW n \in Node, NEW b \in Block,
         blocks[n] # <<>>, AddBlockOK(n, b), AddBlock(n, b)
  PROVE  ChainLinked'
<1>1. /\ blocks \in [Node -> Seq(Block)]
      /\ blocks' = [blocks EXCEPT ![n] = Append(blocks[n], b)]
      /\ Connects(blocks[n], b) /\ Linked(blocks[n])
  BY DEF TypeInv, TypeOK, ChainLinked, AddBlock, AddBlockOK
<1>2. Linked(Append(blocks[n], b))
  BY <1>1, ConnectsLinked
<1> QED BY <1>1, <1>2 DEF ChainLinked

LEMMA FinishForkLinked ==
  ASSUME TypeInv, LinkInv, NEW t \in Node, FinishFork(t)
  PROVE  ChainLinked'
<1>1. PICK n \in Node, chain \in Seq(Block) :
        /\ blocks' = [blocks EXCEPT ![n] = chain]
        /\ \/ chain = blocks[n]
           \/ \E got \in Seq(StepUp) : /\ got # <<>> /\ ValidateBlocks(got)
                                       /\ chain = ReplaceWithFork(blocks[n], got)
  <2>1. StepUp \in SUBSET Block
    BY DEF StepUp
  <2> QED BY <2>1, FinishForkChain DEF LinkInv
<1>2. blocks[n] \in Seq(Block) /\ Linked(blocks[n])
  BY DEF TypeInv, TypeOK, LinkInv, ChainLinked
<1>3. ASSUME NEW got \in Seq(StepUp), got # <<>>, ValidateBlocks(got)
      PROVE  Linked(ReplaceWithFork(blocks[n], got))
  <2>1. \A j \in 1..Len(got) : got[j] \in Block /\ OneUp(got[j])
    BY DEF StepUp
  <2>2. got \in Seq(Block)
    BY <2>1
  <2> QED BY <1>2, <1>3, <2>1, <2>2, ReplaceWithForkLinked
<1>4. Linked(chain)
  BY <1>1, <1>2, <1>3
<1> QED BY <1>1, <1>4 DEF LinkInv, ChainLinked, TypeInv, TypeOK

LEMMA NextLink == TypeInv /\ LinkInv /\ [Next]_vars => LinkInv'
<1> SUFFICES ASSUME TypeInv, LinkInv, [Next]_vars PROVE LinkInv'
  OBVIOUS
<1>1. AnswersWithin(StepUp)'
  <2>1. StepUp \in SUBSET Block /\ ChainsWithin(StepUp) /\ AnswersWithin(StepUp)
    BY LinkedStepsUp DEF StepUp, LinkInv
  <2> QED BY <2>1, NextAnswers
<1>2. CASE UNCHANGED blocks
  BY <1>1, <1>2 DEF LinkInv, ChainLinked
<1>3. CASE ~ UNCHANGED blocks
  <2>1. CASE \E n \in Node :
                /\ cand[n] \in Block /\ blocks[n] # <<>>
                /\ AddBlockOK(n, cand[n]) /\ AddBlock(n, cand[n])
    BY <1>1, <2>1, AddBlockLinked DEF LinkInv
  <2>2. CASE \E t \in Node :
                /\ At(t, "enter")
                /\ msg[t].block \in Block /\ blocks[Handler(t)] # <<>>
                /\ AddBlockOK(Handler(t), msg[t].block)
                /\ AddBlock(Handler(t), msg[t].block)
    BY <1>1, <2>2, EnterFacts, AddBlockLinked DEF LinkInv
  <2>3. CASE \E t \in Node : FinishFork(t)
    BY <1>1, <2>3, FinishForkLinked DEF LinkInv
  <2> QED BY <1>3, <2>1, <2>2, <2>3, WhoChangesChains
<1> QED BY <1>2, <1>3

(* No interleaving of mining, forks and call cascades, no failed call and  *)
(* no panic makes a node hold a chain with a gap, a wrong height or a      *)
(* second genesis block.                                                   *)
THEOREM ChainsLinked == Spec => []ChainLinked
<1>1. LinkInv => ChainLinked
  BY DEF LinkInv
<1> QED BY <1>1, InitLink, NextLink, TypeInvariant, PTL DEF Spec

-----------------------------------------------------------------------------
(***************************************************************************)
(* The UTXO set and the history of applied transactions.  Only AddBlock    *)
(* touches them.  That every transaction of the history spends outputs the *)
(* history created is what keeps an output from coming back after it was   *)
(* spent.                                                                  *)
(***************************************************************************)
ReplayInv ==
  \A n \in Node : Replays(utxos[n], applied[n]) /\ Grounded(applied[n])

LEMMA InitReplay == Init => ReplayInv
BY InitialReplay DEF Init, ReplayInv

LEMMA AddBlockReplays ==
  ASSUME TypeInv, ReplayInv, NoDoubleSpend,
         NEW n \in Node, NEW b \in Block, AddBlockOK(n, b), AddBlock(n, b)
  PROVE  ReplayInv' /\ NoDoubleSpend'
<1> DEFINE tx == TxOf[b]
<1>1. tx \in Tx /\ CheckTransaction(utxos[n], tx)
  BY ChainAssumption DEF AddBlockOK, Connects, Verify
<1>2. /\ utxos \in [Node -> UTXOSet] /\ applied \in [Node -> SUBSET Tx]
      /\ utxos' = [utxos EXCEPT ![n] = AddTransaction(utxos[n], tx)]
      /\ applied' = [applied EXCEPT ![n] = applied[n] \cup {tx}]
      /\ Replays(utxos[n], applied[n]) /\ Grounded(applied[n])
  BY DEF TypeInv, TypeOK, ReplayInv, AddBlock
<1> HIDE DEF tx
<1>3. /\ Replays(AddTransaction(utxos[n], tx), applied[n] \cup {tx})
      /\ Grounded(applied[n] \cup {tx})
  BY <1>1, <1>2, AddTransactionReplays
<1>4. \A t \in applied[n] : Inputs[t] \cap Inputs[tx] = {}
  BY <1>1, <1>2, CheckedIsNew
<1>5. ReplayInv'
  BY <1>2, <1>3 DEF ReplayInv
<1>6. NoDoubleSpend'
  <2>1. ASSUME NEW s \in applied[n] \cup {tx}, NEW t \in applied[n] \cup {tx}
        PROVE  ~ Conflict(s, t)
    BY <1>4, <2>1 DEF NoDoubleSpend, Conflict
  <2> QED BY <1>2, <2>1 DEF NoDoubleSpend
<1> QED BY <1>5, <1>6

(* Whoever changes a UTXO set runs AddBlock with its checks. *)
LEMMA WhoAddsBlocks ==
  ASSUME TypeInv, [Next]_vars, ~ UNCHANGED <<utxos, applied>>
  PROVE  \E n \in Node, b \in Block : AddBlockOK(n, b) /\ AddBlock(n, b)
<1> USE DEF chainVars
<1>1. CASE \E n \in Node : Mine(n)
  <2>1. PICK n \in Node : PublishBlock(n) \/ HideBlock(n)
    BY <1>1 DEF Mine, CreateBlock, MinerPanic, AbandonBlock, DropBlock,
       PublishRefused, PublishSpoiled
  <2> QED BY <2>1 DEF PublishBlock, HideBlock, Found, TypeInv, TypeOK
<1>2. CASE \E t \in Node : Carry(t)
  <2>1. PICK t \in Node : ExtendChain(t)
    BY <1>2 DEF Carry, CallPeer, CallFails, Return, EndBroadcast, Unwind,
       RefuseBlacklisted, IgnoreBlock, RejectInvalid, ReceivePanic, RefuseBlock,
       RefuseDuplicate, RefuseUnconnected, KeepChain, BeginFork, PeerAnswers,
       PeerHasNot, NobodyHas, ForkPanic, FinishFork
  <2>2. At(t, "enter") /\ AddBlockOK(Handler(t), msg[t].block) /\ AddBlock(Handler(t), msg[t].block)
    BY <2>1 DEF ExtendChain, Extends, Verified, Received
  <2>3. Handler(t) \in Node /\ msg[t].block \in Block
    BY <2>2, EnterFacts DEF Message
  <2> QED BY <2>2, <2>3
<1>3. CASE \/ \E n \in Node : AddPeer(n)
           \/ \E x \in Tx : Gossip(x)
           \/ UNCHANGED vars
  BY <1>3 DEF AddPeer, Gossip, SubmitTransaction, AcceptTransaction,
     RefuseTransaction, RelayTransaction, ReturnTransaction, UnchangedByTx, vars
<1> QED BY <1>1, <1>2, <1>3 DEF Next

LEMMA NextReplay ==
  TypeInv /\ ReplayInv /\ NoDoubleSpend /\ [Next]_vars => ReplayInv' /\ NoDoubleSpend'
<1> SUFFICES ASSUME TypeInv, ReplayInv, NoDoubleSpend, [Next]_vars
             PROVE  ReplayInv' /\ NoDoubleSpend'
  OBVIOUS
<1>1. CASE UNCHANGED <<utxos, applied>>
  BY <1>1 DEF ReplayInv, NoDoubleSpend
<1>2. CASE ~ UNCHANGED <<utxos, applied>>
  BY <1>2, WhoAddsBlocks, AddBlockReplays
<1> QED BY <1>1, <1>2

LEMMA ReplaySafe == Spec => [](ReplayInv /\ NoDoubleSpend)
<1>1. Init => NoDoubleSpend
  BY DEF Init, NoDoubleSpend
<1> QED BY <1>1, InitReplay, NextReplay, TypeInvariant, PTL DEF Spec

(* However blocks and forks come in, a node's UTXO set lists what its      *)
(* AddBlock calls left unspent, each output once.                          *)
THEOREM UtxoReplaysHistory == Spec => []UtxoReplay
<1>1. ReplayInv => UtxoReplay
  BY DEF ReplayInv, UtxoReplay, Replays
<1> QED BY <1>1, ReplaySafe, PTL

(* No node's AddBlock ever accepts two transactions that spend the same    *)
(* output, forks or no forks.                                              *)
THEOREM NothingAppliedTwice == Spec => []NoDoubleSpend
BY ReplaySafe, PTL

-----------------------------------------------------------------------------
(***************************************************************************)
(* Every network of miners implements SpendOnce.                           *)
(***************************************************************************)
LEMMA InitListed == Init => Spending!Init
<1> SUFFICES ASSUME Init PROVE Listed = [n \in Node |-> Initial]
  BY DEF Spending!Init, Init
<1>1. {u \in Utxo : NewUTXOSet[u] > 0} = Initial
  BY LedgerAssumption DEF NewUTXOSet
<1> QED BY <1>1 DEF Init, Listed, CheckUTXO

(* What adding a checked transaction does to the outputs listed.  That     *)
(* none of them was listed twice makes the spent ones disappear.           *)
LEMMA ListedAfter ==
  ASSUME NEW set \in UTXOSet, \A u \in Utxo : set[u] \in {0, 1},
         NEW x \in Tx, CheckTransaction(set, x)
  PROVE  {u \in Utxo : AddTransaction(set, x)[u] > 0}
           = ({u \in Utxo : set[u] > 0} \ Inputs[x]) \cup Outputs[x]
<1>1. Inputs[x] \subseteq Utxo /\ Outputs[x] \subseteq Utxo
  BY LedgerAssumption
<1>2. ASSUME NEW u \in Utxo
      PROVE  AddTransaction(set, x)[u] > 0
               <=> (set[u] > 0 /\ u \notin Inputs[x]) \/ u \in Outputs[x]
  <2>1. AddTransaction(set, x)[u] = set[u] - (IF u \in Inputs[x] THEN 1 ELSE 0)
                                           + (IF u \in Outputs[x] THEN 1 ELSE 0)
    BY DEF AddTransaction
  <2>2. u \in Inputs[x] => set[u] = 1
    BY DEF CheckTransaction, CheckUTXO
  <2>3. set[u] \in {0, 1}
    OBVIOUS
  <2> QED BY <2>1, <2>2, <2>3
<1> QED BY <1>1, <1>2

LEMMA AddBlockAccepts ==
  ASSUME TypeInv, ReplayInv, NEW n \in Node, NEW b \in Block,
         AddBlockOK(n, b), AddBlock(n, b)
  PROVE  Spending!Accept(n, TxOf[b])
<1> DEFINE x == TxOf[b]
<1>1. x \in Tx /\ CheckTransaction(utxos[n], x)
  BY ChainAssumption DEF AddBlockOK, Connects, Verify
<1>2. /\ utxos \in [Node -> UTXOSet]
      /\ utxos' = [utxos EXCEPT ![n] = AddTransaction(utxos[n], x)]
      /\ applied' = [applied EXCEPT ![n] = applied[n] \cup {x}]
  BY DEF TypeInv, TypeOK, AddBlock
<1> HIDE DEF x
<1>3. utxos[n] \in UTXOSet /\ \A u \in Utxo : utxos[n][u] \in {0, 1}
  BY <1>2 DEF ReplayInv, Replays
<1>4. Inputs[x] \subseteq Listed[n]
  BY <1>1, LedgerAssumption DEF Listed, CheckTransaction
<1>5. {u \in Utxo : AddTransaction(utxos[n], x)[u] > 0}
        = ({u \in Utxo : utxos[n][u] > 0} \ Inputs[x]) \cup Outputs[x]
  BY <1>1, <1>3, ListedAfter
<1>6. Listed' = [Listed EXCEPT ![n] = (Listed[n] \ Inputs[x]) \cup Outputs[x]]
  BY <1>2, <1>5 DEF Listed, CheckUTXO
<1> QED BY <1>2, <1>4, <1>6 DEF Spending!Accept, x

LEMMA NextAccepts ==
  TypeInv /\ ReplayInv /\ [Next]_vars => [Spending!Next]_<<applied, Listed>>
<1> SUFFICES ASSUME TypeInv, ReplayInv, [Next]_vars
             PROVE  Spending!Next \/ UNCHANGED <<applied, Listed>>
  OBVIOUS
<1>1. CASE UNCHANGED <<utxos, applied>>
  BY <1>1 DEF Listed
<1>2. CASE ~ UNCHANGED <<utxos, applied>>
  <2>1. PICK n \in Node, b \in Block : AddBlockOK(n, b) /\ AddBlock(n, b)
    BY <1>2, WhoAddsBlocks
  <2>2. TxOf[b] \in Tx
    BY <2>1, ChainAssumption DEF AddBlockOK, Connects, Verify
  <2> QED BY <2>1, <2>2, AddBlockAccepts DEF Spending!Next
<1> QED BY <1>1, <1>2

(* Whatever blocks, forks, relays, refusals and panics happen in a network *)
(* of any size, what each node's AddBlock does to its UTXO set is what     *)
(* SpendOnce allows: it accepts transactions one at a time, each with      *)
(* unspent inputs, and from then on lists the outputs in their place.      *)
THEOREM NetworkSpendsOnce == Spec => SpendsOnce
<1>1. Spec => [](TypeInv /\ ReplayInv)
  BY TypeInvariant, ReplaySafe, PTL
<1> QED BY <1>1, InitListed, NextAccepts, PTL DEF Spec, SpendsOnce, Spending!Spec

-----------------------------------------------------------------------------
(***************************************************************************)
(* Chain and UTXO set.                                                     *)
(***************************************************************************)
LEMMA ChainTxsFinite ==
  ASSUME TypeInv, NEW n \in Node
  PROVE  IsFiniteSet(ChainTxs(n)) /\ ChainTxs(n) \in SUBSET Tx
<1> DEFINE c == blocks[n]
           I == {i \in 1..Len(c) : c[i] # Genesis}
           f == [i \in I |-> TxOf[c[i]]]
<1>1. c \in Seq(Block) /\ Len(c) \in Nat /\ DOMAIN c = 1..Len(c)
  BY DEF TypeInv, TypeOK
<1>2. IsFiniteSet(I)
  <2>1. IsFiniteSet(1..Len(c)) /\ I \in SUBSET (1..Len(c))
    BY <1>1, FS_Interval
  <2> QED BY <2>1, FS_Subset
<1>3. ChainTxs(n) = {TxOf[c[i]] : i \in I}
  BY <1>1 DEF ChainTxs, ToSet
<1>4. f \in Surjection(I, ChainTxs(n))
  BY <1>3 DEF Surjection
<1>5. IsFiniteSet(ChainTxs(n))
  <2> HIDE DEF f, I
  <2> QED BY <1>2, <1>4, FS_Surjection
<1>6. ChainTxs(n) \in SUBSET Tx
  <2>1. \A i \in I : c[i] \in Block \ {Genesis}
    BY <1>1
  <2> QED BY <1>3, <2>1, ChainAssumption
<1> QED BY <1>5, <1>6

LEMMA AppendedTxs ==
  ASSUME TypeInv, NEW n \in Node, NEW b \in Block, b # Genesis, AddBlock(n, b)
  PROVE  /\ ChainTxs(n)' = ChainTxs(n) \cup {TxOf[b]}
         /\ \A m \in Node \ {n} : ChainTxs(m)' = ChainTxs(m)
<1>1. /\ blocks \in [Node -> Seq(Block)]
      /\ blocks' = [blocks EXCEPT ![n] = Append(blocks[n], b)]
  BY DEF TypeInv, TypeOK, AddBlock
<1>2. ToSet(Append(blocks[n], b)) = ToSet(blocks[n]) \cup {b}
  <2> DEFINE c == blocks[n]
             d == Append(c, b)
  <2>1. /\ c \in Seq(Block) /\ Len(c) \in Nat
        /\ d \in Seq(Block) /\ Len(d) = Len(c) + 1
        /\ \A i \in 1..Len(c) : d[i] = c[i]
        /\ d[Len(c) + 1] = b
    BY <1>1, AppendFacts
  <2> HIDE DEF d
  <2>2. DOMAIN c = 1..Len(c) /\ DOMAIN d = (1..Len(c)) \cup {Len(c) + 1}
    <3>1. DOMAIN c = 1..Len(c) /\ DOMAIN d = 1..(Len(c) + 1)
      BY <2>1
    <3>2. \A k \in Nat : 1..(k + 1) = (1..k) \cup {k + 1}
      OBVIOUS
    <3> QED BY <2>1, <3>1, <3>2
  <2>3. ToSet(d) = ToSet(c) \cup {b}
    <3>1. ToSet(d) = {d[i] : i \in 1..Len(c)} \cup {d[Len(c) + 1]}
      BY <2>2 DEF ToSet
    <3>2. {d[i] : i \in 1..Len(c)} = {c[i] : i \in 1..Len(c)}
      BY <2>1
    <3> QED BY <2>1, <2>2, <3>1, <3>2 DEF ToSet
  <2> QED BY <2>3 DEF d
<1>3. blocks'[n] = Append(blocks[n], b) /\ \A m \in Node \ {n} : blocks'[m] = blocks[m]
  BY <1>1
<1>4. ChainTxs(n)' = {TxOf[a] : a \in (ToSet(blocks[n]) \cup {b}) \ {Genesis}}
  BY <1>2, <1>3 DEF ChainTxs
<1> QED BY <1>3, <1>4 DEF ChainTxs

LEMMA AddBlockInSync ==
  ASSUME TypeInv, ReplayInv, NEW n \in Node, NEW b \in Block,
         AddBlockOK(n, b), AddBlock(n, b), NEW m \in Node, UtxoInSync(m)
  PROVE  UtxoInSync(m)'
<1> DEFINE tx == TxOf[b]
<1>1. b # Genesis /\ tx \in Tx /\ CheckTransaction(utxos[n], tx)
  BY ChainAssumption DEF AddBlockOK, Connects, Verify
<1>2. /\ utxos \in [Node -> UTXOSet] /\ applied[n] \in SUBSET Tx
      /\ utxos' = [utxos EXCEPT ![n] = AddTransaction(utxos[n], tx)]
      /\ Replays(utxos[n], applied[n]) /\ Grounded(applied[n])
  BY DEF TypeInv, TypeOK, ReplayInv, AddBlock
<1>3. /\ ChainTxs(n)' = ChainTxs(n) \cup {tx}
      /\ \A k \in Node \ {n} : ChainTxs(k)' = ChainTxs(k)
  BY <1>1, AppendedTxs
<1> HIDE DEF tx
<1>4. CASE m = n
  <2>1. Replays(utxos[n], ChainTxs(n))
    BY <1>4 DEF UtxoInSync, Replays
  <2>2. Replays(AddTransaction(utxos[n], tx), ChainTxs(n) \cup {tx})
    BY <1>1, <1>2, <2>1, ChainTxsFinite, AddedStaysInStep
  <2>3. utxos'[n] = AddTransaction(utxos[n], tx)
    BY <1>2
  <2> QED BY <1>3, <1>4, <2>2, <2>3 DEF UtxoInSync, Replays
<1>5. CASE m # n
  BY <1>2, <1>3, <1>5 DEF UtxoInSync
<1> QED BY <1>4, <1>5

(* A step that leaves the chains alone, or is an AddBlock, forgets no      *)
(* transaction: pools only grow.                                           *)
LEMMA PoolsGrow ==
  ASSUME TypeInv, [Next]_vars, NEW n \in Node
  PROVE  txPool[n] \subseteq txPool'[n]
<1>1. CASE UNCHANGED txPool
  BY <1>1
<1>2. CASE \E x \in Tx : AcceptTransaction(x)
  BY <1>2 DEF AcceptTransaction, TypeInv, TypeOK
<1>3. CASE \E m \in Node : Mine(m)
  BY <1>3 DEF Mine, CreateBlock, MinerPanic, AbandonBlock, PublishBlock, HideBlock,
     DropBlock, PublishRefused, PublishSpoiled, Found, txVars
<1>4. CASE \E t \in Node : Carry(t)
  BY <1>4 DEF Carry, CallPeer, CallFails, Return, EndBroadcast, Unwind, Reply,
     RefuseBlacklisted, IgnoreBlock, RejectInvalid, ReceivePanic, ExtendChain, RefuseBlock,
     RefuseDuplicate, RefuseUnconnected, KeepChain, BeginFork, PeerAnswers,
     PeerHasNot, NobodyHas, ForkPanic, FinishFork, txVars
<1> QED BY <1>1, <1>2, <1>3, <1>4 DEF Next, AddPeer, Gossip, SubmitTransaction,
           RefuseTransaction, RelayTransaction, ReturnTransaction, txVars, vars

LEMMA StepKeepsSync ==
  ASSUME TypeInv, ReplayInv, [Next]_vars, ~ \E t \in Node : FinishFork(t), NEW n \in Node
  PROVE  /\ UtxoInSync(n) => UtxoInSync(n)'
         /\ \A x \in Tx : Known(n, x) => Known(n, x)'
<1>1. txPool[n] \subseteq txPool'[n]
  BY PoolsGrow
<1>2. CASE \E m \in Node, b \in Block : AddBlockOK(m, b) /\ AddBlock(m, b)
  <2>1. PICK m \in Node, b \in Block : AddBlockOK(m, b) /\ AddBlock(m, b)
    BY <1>2
  <2>2. b # Genesis
    BY <2>1 DEF AddBlockOK, Connects, Verify
  <2>3. ChainTxs(n) \subseteq ChainTxs(n)'
    BY <2>1, <2>2, AppendedTxs
  <2>4. \A x : HasTransaction(blocks[n], x) => HasTransaction(blocks'[n], x)
    BY <2>3 DEF HasTransaction, ChainTxs, ToSet
  <2>5. UtxoInSync(n) => UtxoInSync(n)'
    BY <2>1, AddBlockInSync
  <2> QED BY <1>1, <2>4, <2>5 DEF Known
<1>3. CASE UNCHANGED <<blocks, utxos>>
  BY <1>1, <1>3 DEF UtxoInSync, ChainTxs, Known
<1>4. ASSUME ~ UNCHANGED <<blocks, utxos>>
      PROVE  \E m \in Node, b \in Block : AddBlockOK(m, b) /\ AddBlock(m, b)
  <2>1. CASE ~ UNCHANGED <<utxos, applied>>
    BY <2>1, WhoAddsBlocks
  <2>2. CASE ~ UNCHANGED blocks
    <3>1. CASE \E m \in Node : /\ cand[m] \in Block
                               /\ AddBlockOK(m, cand[m]) /\ AddBlock(m, cand[m])
      BY <3>1
    <3>2. CASE \E t \in Node : /\ At(t, "enter") /\ msg[t].block \in Block
                               /\ AddBlockOK(Handler(t), msg[t].block)
                               /\ AddBlock(Handler(t), msg[t].block)
      BY <3>2, EnterFacts
    <3> QED BY <2>2, <3>1, <3>2, WhoChangesChains
  <2> QED BY <1>4, <2>1, <2>2
<1> QED BY <1>2, <1>3, <1>4

(* In every network, a UTXO set that lists what the chain leaves unspent   *)
(* goes on doing so, and a node that knows a transaction goes on knowing   *)
(* it, in every step but the end of HandleFork.                            *)
THEOREM ForksDesync == Spec => OnlyForksDesync
<1>1. TypeInv /\ ReplayInv /\ [Next]_vars =>
        [(\E t \in Node : FinishFork(t))
           \/ \A n \in Node :
                /\ UtxoInSync(n) => UtxoInSync(n)'
                /\ \A x \in Tx : Known(n, x) => Known(n, x)']_vars
  BY StepKeepsSync
<1>2. Spec => [](TypeInv /\ ReplayInv)
  BY TypeInvariant, ReplaySafe, PTL
<1> QED BY <1>1, <1>2, PTL DEF Spec, OnlyForksDesync

-----------------------------------------------------------------------------
(***************************************************************************)
(* Blocks spoiled by their miner, and any number of such miners: the       *)
(* receivers reject them, charge nobody else with them, and never adopt    *)
(* them, through forks either.                                             *)
(***************************************************************************)

(* Blocks that no spoiling miner mined.                                    *)
Sound == {b \in Block : b # Genesis => MinerOf[b] \notin Liars}

(* A spoiled block is with its miner or has just been received from it.    *)
Shallow(s) == Len(s) <= 2 /\ (Len(s) = 2 => s[2].pc = "enter")

OwnCandidate == \A n \in Node : cand[n] # Nil => MinerOf[cand[n]] = n

SpoiledShallow ==
  \A t \in Node : stack[t] # <<>> =>
     /\ msg[t].intact => msg[t].block \in Sound
     /\ ~ msg[t].intact => t \in Liars /\ Shallow(stack[t])

SpoilInv ==
  /\ OwnCandidate
  /\ SpoiledShallow
  /\ ChainsWithin(Sound) /\ AnswersWithin(Sound)
  /\ HonestNotBlamed

LEMMA InitSpoil == Init => SpoilInv
<1> SUFFICES ASSUME Init PROVE SpoilInv
  OBVIOUS
<1>1. OwnCandidate /\ SpoiledShallow /\ HonestNotBlamed
  BY DEF Init, OwnCandidate, SpoiledShallow, HonestNotBlamed
<1>2. ChainsWithin(Sound)
  <2>1. Genesis \in Sound
    BY ChainAssumption DEF Sound
  <2> QED BY <2>1 DEF Init, ChainsWithin
<1>3. AnswersWithin(Sound)
  BY DEF Init, AnswersWithin
<1> QED BY <1>1, <1>2, <1>3 DEF SpoilInv

-----------------------------------------------------------------------------
(***************************************************************************)
(* The messages under way.                                                 *)
(***************************************************************************)
LEMMA MineOwn ==
  ASSUME TypeInv, OwnCandidate, NEW n \in Node, Mine(n)
  PROVE  OwnCandidate'
<1>1. CASE CreateBlock(n)
  <2>1. PICK b : MinerOf[b] = n /\ cand' = [cand EXCEPT ![n] = b]
    BY <1>1 DEF CreateBlock
  <2> QED BY <2>1 DEF OwnCandidate, TypeInv, TypeOK
<1>2. CASE cand' = cand \/ cand' = [cand EXCEPT ![n] = Nil]
  BY <1>2 DEF OwnCandidate, TypeInv, TypeOK
<1> QED BY <1>1, <1>2 DEF Mine, MinerPanic, AbandonBlock, PublishBlock, HideBlock, DropBlock,
           PublishRefused, PublishSpoiled, Found, minerVars

(* Only the modes that spoil their blocks broadcast one that is not intact.*)
LEMMA MineShallow ==
  ASSUME TypeInv, OwnCandidate, SpoiledShallow, NEW n \in Node, Mine(n)
  PROVE  SpoiledShallow'
<1>1. CASE UNCHANGED callVars
  BY <1>1 DEF SpoiledShallow, callVars
<1>2. CASE PublishBlock(n) \/ PublishRefused(n) \/ PublishSpoiled(n)
  <2>1. /\ cand[n] \in Block \ {Genesis} /\ MinerOf[cand[n]] = n
        /\ stack \in [Node -> Seq(Frame)] /\ msg \in [Node -> Message \cup {Nil}]
    BY <1>2 DEF PublishBlock, PublishRefused, PublishSpoiled, Found, OwnCandidate,
       TypeInv, TypeOK
  <2>2. PICK intact \in BOOLEAN : /\ \E chain : Broadcast(n, cand[n], intact, chain)
                                  /\ IF intact THEN n \notin Liars ELSE n \in Liars
    <3>1. CASE PublishBlock(n)
      BY <3>1 DEF PublishBlock
    <3>2. CASE PublishRefused(n)
      <4>1. Mode[n] = 3 /\ Broadcast(n, cand[n], TRUE, blocks[n])
        BY <3>2 DEF PublishRefused
      <4>2. n \notin Liars
        BY <4>1 DEF Liars
      <4> QED BY <4>1, <4>2
    <3>3. CASE PublishSpoiled(n)
      BY <3>3 DEF PublishSpoiled
    <3> QED BY <1>2, <3>1, <3>2, <3>3
  <2>3. /\ msg'[n].block = cand[n] /\ msg'[n].intact = intact
        /\ stack'[n] = <<Cast(n)>>
        /\ \A u \in Node \ {n} : msg'[u] = msg[u] /\ stack'[u] = stack[u]
    BY <2>1, <2>2 DEF Broadcast
  <2>4. intact => cand[n] \in Sound
    BY <2>1, <2>2 DEF Sound
  <2>5. ~ intact => n \in Liars
    BY <2>2
  <2>6. Shallow(<<Cast(n)>>)
    BY DEF Shallow
  <2>7. ASSUME NEW u \in Node, stack'[u] # <<>>
        PROVE  /\ msg'[u].intact => msg'[u].block \in Sound
               /\ ~ msg'[u].intact => u \in Liars /\ Shallow(stack'[u])
    <3>1. CASE u = n
      BY <2>3, <2>4, <2>5, <2>6, <3>1, Zenon
    <3>2. CASE u # n
      BY <2>3, <2>7, <3>2, Zenon DEF SpoiledShallow
    <3> QED BY <3>1, <3>2
  <2> QED BY <2>7 DEF SpoiledShallow
<1> QED BY <1>1, <1>2 DEF Mine, CreateBlock, MinerPanic, AbandonBlock, HideBlock, DropBlock

(* No handler makes a message, and none touches the message of another     *)
(* stack.                                                                  *)
LEMMA CarryEffects ==
  ASSUME TypeInv, NEW t \in Node, Carry(t)
  PROVE  /\ UNCHANGED cand
         /\ \A u \in Node \ {t} : stack'[u] = stack[u] /\ msg'[u] = msg[u]
         /\ stack'[t] # <<>> => msg'[t] = msg[t]
<1>1. stack \in [Node -> Seq(Frame)] /\ msg \in [Node -> Message \cup {Nil}]
  BY DEF TypeInv, TypeOK
<1>2. ASSUME Pop(t), stack[t] # <<>>, Len(stack[t]) = 1
      PROVE  stack'[t] = <<>>
  <2>1. Front(stack[t]) \in Seq(Frame) /\ Len(Front(stack[t])) = 0
    <3>1. stack[t] \in Seq(Frame)
      BY <1>1
    <3> QED BY <1>2, <3>1, FrontFacts
  <2> QED BY <1>1, <1>2, <2>1 DEF Pop
<1>3. CASE EndBroadcast(t) \/ Unwind(t)
  BY <1>1, <1>2, <1>3 DEF EndBroadcast, Unwind, Pop, At, minerVars
<1>4. CASE CallPeer(t)
  BY <1>1, <1>4 DEF CallPeer, minerVars
<1>5. CASE /\ UNCHANGED <<minerVars, msg>>
           /\ Pop(t) \/ UNCHANGED stack \/ \E f : ReplaceTop(t, f)
  BY <1>1, <1>5 DEF Pop, ReplaceTop, minerVars
<1> QED BY <1>3, <1>4, <1>5 DEF Carry, CallFails, Return, Reply,
           RefuseBlacklisted, IgnoreBlock, RejectInvalid, ReceivePanic, ExtendChain,
           RefuseBlock, RefuseDuplicate, RefuseUnconnected, KeepChain, BeginFork,
           PeerAnswers, PeerHasNot, NobodyHas, ForkPanic, FinishFork, callVars

(* Where the stack of a spoiled block can be.                              *)
LEMMA SpoiledTop ==
  ASSUME TypeInv, SpoiledShallow, NEW t \in Node, stack[t] # <<>>, ~ msg[t].intact
  PROVE  /\ t \in Liars
         /\ Len(stack[t]) \in {1, 2}
         /\ Top(t).pc # "fetch"
         /\ Top(t).pc = "cast" => Len(stack[t]) = 1
         /\ Top(t).pc = "enter" => Caller(t) = t
<1>1. /\ t \in Liars /\ Len(stack[t]) <= 2 /\ (Len(stack[t]) = 2 => stack[t][2].pc = "enter")
      /\ stack[t][1].node = t /\ stack[t][1].pc = "cast"
      /\ Len(stack[t]) \in Nat \ {0} /\ Top(t) = stack[t][Len(stack[t])]
  BY TopFacts DEF SpoiledShallow, Shallow, TypeInv, CallOK
<1>2. Len(stack[t]) \in {1, 2}
  <2>1. \A k \in Nat \ {0} : k <= 2 => k \in {1, 2}
    OBVIOUS
  <2> QED BY <1>1, <2>1
<1>3. CASE Len(stack[t]) = 1
  BY <1>1, <1>3
<1>4. CASE Len(stack[t]) = 2
  BY <1>1, <1>4 DEF Caller
<1> QED BY <1>1, <1>2, <1>3, <1>4

(* The receiver of a spoiled block does not pass it on.                    *)
LEMMA CarryShallow ==
  ASSUME TypeInv, SpoiledShallow, NEW t \in Node, Carry(t)
  PROVE  SpoiledShallow'
<1>1. /\ \A u \in Node \ {t} : stack'[u] = stack[u] /\ msg'[u] = msg[u]
      /\ stack'[t] # <<>> => msg'[t] = msg[t]
  BY CarryEffects
<1> SUFFICES ASSUME stack'[t] # <<>>, stack[t] # <<>>, ~ msg[t].intact
             PROVE  Shallow(stack'[t])
  <2>1. stack[t] # <<>>
    BY DEF Carry, CallPeer, CallFails, Return, EndBroadcast, Unwind, RefuseBlacklisted,
       IgnoreBlock, RejectInvalid, ReceivePanic, ExtendChain, RefuseBlock, RefuseDuplicate,
       RefuseUnconnected, KeepChain, BeginFork, PeerAnswers, PeerHasNot, NobodyHas,
       ForkPanic, FinishFork, Fetching, Fetched, Fork, Elsewhere, Extends, Verified,
       Received, At
  <2> QED BY <1>1, <2>1 DEF SpoiledShallow
<1>2. /\ stack \in [Node -> Seq(Frame)] /\ stack[t] \in Seq(Frame)
      /\ Len(stack[t]) \in {1, 2} /\ Top(t).pc # "fetch"
      /\ Top(t).pc = "cast" => Len(stack[t]) = 1
      /\ Shallow(stack[t])
  BY SpoiledTop DEF TypeInv, TypeOK, SpoiledShallow
<1>3. CASE CallPeer(t)
  <2>1. PICK p \in Top(t).todo :
          stack' = [stack EXCEPT ![t] = Append(Append(Front(@), CalledPeer(t, p)), Enter(p))]
    BY <1>3 DEF CallPeer
  <2> DEFINE r == Append(Front(stack[t]), CalledPeer(t, p))
  <2>2. p \in Node /\ Len(stack[t]) = 1
    BY <1>2, <1>3, TopFacts DEF CallPeer, At, Frame
  <2>3. CalledPeer(t, p) \in Frame /\ Enter(p) \in Frame
    BY <2>2, CalledPeerType, CastType
  <2>4. r \in Seq(Frame) /\ Len(r) = 1
    BY <1>2, <2>2, <2>3, ReplaceLast
  <2>5. stack'[t] = Append(r, Enter(p))
    BY <1>2, <2>1
  <2> HIDE DEF r
  <2>6. Len(stack'[t]) = 2 /\ stack'[t][2] = Enter(p)
    <3>1. Len(Append(r, Enter(p))) = Len(r) + 1 /\ Append(r, Enter(p))[Len(r) + 1] = Enter(p)
      BY <2>3, <2>4, AppendFacts
    <3> QED BY <2>4, <2>5, <3>1
  <2> QED BY <2>6 DEF Shallow, Enter
<1>4. CASE CallFails(t)
  <2>1. PICK p : ReplaceTop(t, CalledPeer(t, p))
    BY <1>4 DEF CallFails
  <2>2. Len(stack[t]) = 1 /\ CalledPeer(t, p) \in Frame
    BY <1>2, <1>4, CalledPeerType DEF CallFails, At
  <2>3. Len(Append(Front(stack[t]), CalledPeer(t, p))) = 1
    BY <1>2, <2>2, ReplaceLast
  <2> QED BY <1>2, <2>1, <2>3 DEF ReplaceTop, Shallow
<1>5. CASE Pop(t)
  <2>1. Len(Front(stack[t])) = Len(stack[t]) - 1
    BY <1>2, FrontFacts
  <2> QED BY <1>2, <1>5, <2>1 DEF Pop, Shallow
<1>6. CASE UNCHANGED stack
  BY <1>2, <1>6
<1>7. ~ \/ ExtendChain(t) \/ KeepChain(t) \/ BeginFork(t)
        \/ PeerAnswers(t) \/ PeerHasNot(t) \/ NobodyHas(t) \/ FinishFork(t)
  BY <1>2 DEF ExtendChain, KeepChain, BeginFork, PeerAnswers, PeerHasNot, NobodyHas,
     FinishFork, Fetching, Fetched, Fork, Elsewhere, Extends, Verified, At
<1> QED BY <1>3, <1>4, <1>5, <1>6, <1>7 DEF Carry, Return, EndBroadcast, Unwind, Reply,
           RefuseBlacklisted, IgnoreBlock, RejectInvalid, ReceivePanic, RefuseBlock,
           RefuseDuplicate, RefuseUnconnected, ForkPanic, callVars

-----------------------------------------------------------------------------
(***************************************************************************)
(* The chains.                                                             *)
(***************************************************************************)
LEMMA AppendWithin ==
  ASSUME NEW G, TypeInv, ChainsWithin(G), NEW n \in Node, NEW b \in Block, b \in G,
         AddBlock(n, b)
  PROVE  ChainsWithin(G)'
<1>1. blocks \in [Node -> Seq(Block)] /\ blocks[n] \in Seq(Block)
  BY DEF TypeInv, TypeOK
<1> DEFINE c == Append(blocks[n], b)
<1>2. blocks' = [blocks EXCEPT ![n] = c]
  BY DEF AddBlock
<1>3. \A i \in DOMAIN c : c[i] \in G
  <2>1. /\ c \in Seq(Block) /\ Len(c) = Len(blocks[n]) + 1
        /\ \A i \in 1..Len(blocks[n]) : c[i] = blocks[n][i]
        /\ c[Len(blocks[n]) + 1] = b
    BY <1>1, AppendFacts
  <2> HIDE DEF c
  <2>2. DOMAIN c = 1..(Len(blocks[n]) + 1) /\ DOMAIN blocks[n] = 1..Len(blocks[n])
    BY <1>1, <2>1
  <2>3. ASSUME NEW i \in DOMAIN c PROVE i \in 1..Len(blocks[n]) \/ i = Len(blocks[n]) + 1
    BY <1>1, <2>2, <2>3
  <2> QED BY <2>1, <2>2, <2>3 DEF ChainsWithin
<1> HIDE DEF c
<1> QED BY <1>1, <1>2, <1>3 DEF ChainsWithin

LEMMA ReplaceWithin ==
  ASSUME NEW G \in SUBSET Block, NEW c \in Seq(Block), \A i \in DOMAIN c : c[i] \in G,
         NEW s \in Seq(G), s # <<>>
  PROVE  \A i \in DOMAIN ReplaceWithFork(c, s) : ReplaceWithFork(c, s)[i] \in G
<1> DEFINE base == RollbackToHash(c, PrevHash[s[1]])
<1>1. c \in Seq(G)
  BY SMT
<1>2. base \in Seq(G)
  <2>1. CASE base = <<>>
    BY <2>1
  <2>2. CASE base # <<>>
    <3>1. PICK m \in 1..Len(c) : base = SubSeq(c, 1, m)
      BY <2>2, RollbackFacts
    <3> QED BY <1>1, <3>1
  <2> QED BY <2>1, <2>2
<1> HIDE DEF base
<1>3. ReplaceWithFork(c, s) = IF base = <<>> THEN <<>> ELSE base \o s
  BY DEF ReplaceWithFork, base
<1>4. ReplaceWithFork(c, s) \in Seq(G)
  BY <1>2, <1>3
<1> QED BY <1>4

LEMMA FinishForkWithin ==
  ASSUME NEW G \in SUBSET Block, TypeInv, ChainsWithin(G), AnswersWithin(G),
         NEW t \in Node, FinishFork(t)
  PROVE  ChainsWithin(G)'
<1>1. PICK n \in Node, chain \in Seq(Block) :
        /\ blocks' = [blocks EXCEPT ![n] = chain]
        /\ \/ chain = blocks[n]
           \/ \E got \in Seq(G) : /\ got # <<>> /\ ValidateBlocks(got)
                                  /\ chain = ReplaceWithFork(blocks[n], got)
  BY FinishForkChain
<1>2. blocks \in [Node -> Seq(Block)] /\ \A i \in DOMAIN blocks[n] : blocks[n][i] \in G
  BY DEF TypeInv, TypeOK, ChainsWithin
<1>3. \A i \in DOMAIN chain : chain[i] \in G
  BY <1>1, <1>2, ReplaceWithin
<1> QED BY <1>1, <1>2, <1>3 DEF ChainsWithin

LEMMA NextWithin ==
  ASSUME TypeInv, SpoilInv, [Next]_vars
  PROVE  ChainsWithin(Sound)'
<1>1. CASE UNCHANGED blocks
  BY <1>1 DEF SpoilInv, ChainsWithin
<1>2. CASE \E n \in Node :
              /\ cand[n] \in Block /\ n \notin Liars
              /\ AddBlockOK(n, cand[n]) /\ AddBlock(n, cand[n])
  <2>1. PICK n \in Node : /\ cand[n] \in Block /\ n \notin Liars
                          /\ AddBlock(n, cand[n])
    BY <1>2
  <2>2. cand[n] \in Sound
    BY <2>1, ChainAssumption DEF SpoilInv, OwnCandidate, Sound
  <2> QED BY <2>1, <2>2, AppendWithin DEF SpoilInv
<1>3. CASE \E t \in Node :
              /\ At(t, "enter") /\ msg[t].intact
              /\ msg[t].block \in Block
              /\ AddBlock(Handler(t), msg[t].block)
  <2>1. PICK t \in Node : /\ At(t, "enter") /\ msg[t].intact
                          /\ msg[t].block \in Block
                          /\ AddBlock(Handler(t), msg[t].block)
    BY <1>3
  <2>2. Handler(t) \in Node /\ msg[t].block \in Sound
    BY <2>1, EnterFacts DEF SpoilInv, SpoiledShallow
  <2> QED BY <2>1, <2>2, AppendWithin DEF SpoilInv
<1>4. CASE \E t \in Node : FinishFork(t)
  <2>1. Sound \in SUBSET Block
    BY DEF Sound
  <2> QED BY <1>4, <2>1, FinishForkWithin DEF SpoilInv
<1> QED BY <1>1, <1>2, <1>3, <1>4, WhoChangesChains

-----------------------------------------------------------------------------
(***************************************************************************)
(* The blame.                                                              *)
(***************************************************************************)
LEMMA CarryBlame ==
  ASSUME TypeInv, SpoilInv, NEW t \in Node, Carry(t)
  PROVE  HonestNotBlamed'
<1>1. CASE UNCHANGED invalidCount
  BY <1>1 DEF SpoilInv, HonestNotBlamed
<1>2. CASE RejectInvalid(t)
  <2>1. At(t, "enter") /\ ~ msg[t].intact
    BY <1>2 DEF RejectInvalid, Received
  <2>2. Caller(t) = t /\ t \in Liars /\ Handler(t) \in Node
    BY <2>1, EnterFacts, SpoiledTop DEF SpoilInv, At
  <2>3. /\ invalidCount \in [Node -> [Node -> Nat]]
        /\ invalidCount' = [invalidCount EXCEPT ![Handler(t)][t] = @ + 1]
    BY <1>2, <2>2 DEF RejectInvalid, TypeInv, TypeOK
  <2> QED BY <2>2, <2>3 DEF SpoilInv, HonestNotBlamed
<1> QED BY <1>1, <1>2 DEF Carry, CallPeer, CallFails, Return, EndBroadcast, Unwind,
           RefuseBlacklisted, IgnoreBlock, ReceivePanic, ExtendChain, RefuseBlock,
           RefuseDuplicate, RefuseUnconnected, KeepChain, BeginFork, PeerAnswers,
           PeerHasNot, NobodyHas, ForkPanic, FinishFork

LEMMA NextSpoil == TypeInv /\ SpoilInv /\ [Next]_vars => SpoilInv'
<1> SUFFICES ASSUME TypeInv, SpoilInv, [Next]_vars PROVE SpoilInv'
  OBVIOUS
<1>1. ChainsWithin(Sound)'
  BY NextWithin
<1>2. AnswersWithin(Sound)'
  <2>1. Sound \in SUBSET Block
    BY DEF Sound
  <2> QED BY <2>1, NextAnswers DEF SpoilInv
<1>3. OwnCandidate' /\ SpoiledShallow' /\ HonestNotBlamed'
  <2>1. CASE \E n \in Node : Mine(n)
    <3>1. PICK n \in Node : Mine(n)
      BY <2>1
    <3>2. UNCHANGED invalidCount
      BY <3>1 DEF Mine, CreateBlock, MinerPanic, AbandonBlock, PublishBlock, HideBlock,
         DropBlock, PublishRefused, PublishSpoiled, Found
    <3>3. HonestNotBlamed'
      BY <3>2 DEF SpoilInv, HonestNotBlamed
    <3> QED BY <3>1, <3>3, MineOwn, MineShallow DEF SpoilInv
  <2>2. CASE \E t \in Node : Carry(t)
    <3>1. PICK t \in Node : Carry(t)
      BY <2>2
    <3>2. OwnCandidate'
      BY <3>1, CarryEffects DEF SpoilInv, OwnCandidate
    <3> QED BY <3>1, <3>2, CarryShallow, CarryBlame DEF SpoilInv
  <2>3. CASE UNCHANGED <<minerVars, callVars, invalidCount>>
    BY <2>3 DEF SpoilInv, OwnCandidate, SpoiledShallow, HonestNotBlamed, minerVars, callVars
  <2> QED BY <2>1, <2>2, <2>3 DEF Next, AddPeer, Gossip, SubmitTransaction,
         AcceptTransaction, RefuseTransaction, RelayTransaction, ReturnTransaction,
         UnchangedByTx, vars
<1> QED BY <1>1, <1>2, <1>3 DEF SpoilInv

LEMMA SpoilSafe == Spec => []SpoilInv
BY InitSpoil, NextSpoil, TypeInvariant, PTL DEF Spec

(* However spoiled blocks are announced, by however many miners, no node   *)
(* counts one against a node that mines in mode 0 or 3: it is rejected by  *)
(* the first node that gets it, and its caller is its miner.               *)
THEOREM OnlyLiarsBlamed == Spec => []HonestNotBlamed
<1>1. SpoilInv => HonestNotBlamed
  BY DEF SpoilInv
<1> QED BY <1>1, SpoilSafe, PTL

(* No chain ever holds a block of a miner that spoils its blocks: AddBlock *)
(* refuses them, and the answers of a fork come from chains.               *)
THEOREM SpoiledNeverAdopted == Spec => []NoSpoiledBlock
<1>1. SpoilInv => NoSpoiledBlock
  BY DEF SpoilInv, ChainsWithin, Sound, NoSpoiledBlock
<1> QED BY <1>1, SpoilSafe, PTL

-----------------------------------------------------------------------------
(***************************************************************************)
(* The places of missing blocks.  A frame fits the hashes it was given if  *)
(* what it has, after what it still wants, is the end of them; the frames  *)
(* of a stack fit those of its message, which stays as it is while there   *)
(* are frames.                                                             *)
(***************************************************************************)
Fits(tail, h) ==
  /\ Len(tail) <= Len(h)
  /\ \A j \in DOMAIN tail : tail[j] \in {Nil, h[Len(h) - Len(tail) + j]}

Fitting(h) == {f \in Frame : f.pc = "fetch" => Fits(f.want \o f.got, h)}

FetchInv == \A t \in Node : stack[t] \in Seq(Fitting(msg[t].hashes))

LEMMA ConcatFacts ==
  ASSUME NEW S, NEW p \in Seq(S), NEW q \in Seq(S)
  PROVE  /\ p \o q \in Seq(S) /\ Len(p \o q) = Len(p) + Len(q)
         /\ \A i \in 1..Len(p) : (p \o q)[i] = p[i]
         /\ \A i \in 1..Len(q) : (p \o q)[Len(p) + i] = q[i]
OBVIOUS

(* One answer takes the place of the hash it was asked for.                *)
LEMMA AnswerInPlace ==
  ASSUME NEW S, NEW want \in Seq(S), want # <<>>, NEW got \in Seq(S), NEW b \in S
  PROVE  LET old == want \o got
             new == Front(want) \o (<<b>> \o got)
         IN  /\ Len(new) = Len(old) /\ Len(old) \in Nat
             /\ \A j \in 1..Len(old) : new[j] = old[j] \/ (new[j] = b /\ old[j] = Last(want))
<1>1. PICK n \in Nat : Len(want) = n + 1 /\ Last(want) = want[n + 1]
  <2>1. Len(want) \in Nat \ {0} /\ Last(want) = want[Len(want)]
    BY FrontFacts
  <2> QED BY <2>1
<1>2. PICK front \in Seq(S) :
        front = Front(want) /\ Len(front) = n /\ \A i \in 1..n : front[i] = want[i]
  <2>1. Len(want) - 1 = n
    BY <1>1
  <2> QED BY <2>1, FrontFacts
<1>3. PICK m \in Nat : Len(got) = m
  OBVIOUS
<1>4. PICK rest \in Seq(S) :
        /\ rest = <<b>> \o got /\ Len(rest) = 1 + m /\ rest[1] = b
        /\ \A i \in 1..m : rest[1 + i] = got[i]
  <2>1. <<b>> \in Seq(S) /\ Len(<<b>>) = 1 /\ <<b>>[1] = b /\ 1 \in 1..1
    OBVIOUS
  <2>2. PICK first \in Seq(S) : first = <<b>> /\ Len(first) = 1 /\ first[1] = b
    BY <2>1
  <2>3. /\ first \o got \in Seq(S) /\ Len(first \o got) = Len(first) + Len(got)
        /\ \A i \in 1..Len(first) : (first \o got)[i] = first[i]
        /\ \A i \in 1..Len(got) : (first \o got)[Len(first) + i] = got[i]
    BY ConcatFacts
  <2>4. 1 \in 1..Len(first)
    BY <2>2
  <2> QED BY <1>3, <2>2, <2>3, <2>4
<1>5. PICK old \in Seq(S) :
        /\ old = want \o got /\ Len(old) = n + 1 + m
        /\ \A i \in 1..(n + 1) : old[i] = want[i]
        /\ \A i \in 1..m : old[n + 1 + i] = got[i]
  <2>1. /\ want \o got \in Seq(S) /\ Len(want \o got) = Len(want) + Len(got)
        /\ \A i \in 1..Len(want) : (want \o got)[i] = want[i]
        /\ \A i \in 1..Len(got) : (want \o got)[Len(want) + i] = got[i]
    BY ConcatFacts
  <2> QED BY <1>1, <1>3, <2>1
<1>6. PICK new \in Seq(S) :
        /\ new = front \o rest /\ Len(new) = n + (1 + m)
        /\ \A i \in 1..n : new[i] = front[i]
        /\ \A i \in 1..(1 + m) : new[n + i] = rest[i]
  <2>1. /\ front \o rest \in Seq(S) /\ Len(front \o rest) = Len(front) + Len(rest)
        /\ \A i \in 1..Len(front) : (front \o rest)[i] = front[i]
        /\ \A i \in 1..Len(rest) : (front \o rest)[Len(front) + i] = rest[i]
    BY ConcatFacts
  <2>2. Len(front) = n /\ Len(rest) = 1 + m
    BY <1>2, <1>4
  <2>3. /\ Len(front \o rest) = n + (1 + m)
        /\ \A i \in 1..n : (front \o rest)[i] = front[i]
        /\ \A i \in 1..(1 + m) : (front \o rest)[n + i] = rest[i]
    BY <2>1, <2>2
  <2> QED BY <2>1, <2>3
<1>7. ASSUME NEW j \in 1..(n + 1 + m)
      PROVE  new[j] = old[j] \/ (new[j] = b /\ old[j] = Last(want))
  <2>1. CASE j \in 1..n
    <3>1. j \in 1..(n + 1)
      BY <2>1
    <3> QED BY <1>2, <1>5, <1>6, <2>1, <3>1
  <2>2. CASE j = n + 1
    <3>1. 1 \in 1..(1 + m) /\ n + 1 \in 1..(n + 1)
      OBVIOUS
    <3> QED BY <1>1, <1>4, <1>5, <1>6, <2>2, <3>1
  <2>3. CASE j \notin 1..(n + 1)
    <3>1. PICK k \in 1..m : j = n + 1 + k
      <4>1. j - (n + 1) \in 1..m /\ j = n + 1 + (j - (n + 1))
        BY <2>3
      <4> QED BY <4>1
    <3>2. 1 + k \in 1..(1 + m) /\ n + (1 + k) = j
      BY <3>1
    <3>3. new[j] = rest[1 + k]
      BY <1>6, <3>2
    <3>4. rest[1 + k] = got[k] /\ old[j] = got[k]
      BY <1>4, <1>5, <3>1
    <3> QED BY <3>3, <3>4
  <2> QED BY <2>1, <2>2, <2>3
<1> QED BY <1>2, <1>4, <1>5, <1>6, <1>7

LEMMA AnswerFits ==
  ASSUME NEW h, Len(h) \in Nat,
         NEW want \in Seq(Block), want # <<>>, NEW got \in Seq(Block \cup {Nil}),
         Fits(want \o got, h), NEW b \in {Nil, Last(want)}
  PROVE  Fits(Front(want) \o (<<b>> \o got), h)
<1>1. Last(want) \in Block /\ want \in Seq(Block \cup {Nil})
  BY FrontFacts
<1> DEFINE S == Block \cup {Nil}
           old == want \o got
           new == Front(want) \o (<<b>> \o got)
<1>2. old \in Seq(S) /\ new \in Seq(S)
  <2>1. Front(want) \in Seq(S)
    BY <1>1, FrontFacts DEF S
  <2>2. <<b>> \o got \in Seq(S)
    BY <1>1
  <2> HIDE DEF S
  <2> QED BY <1>1, <2>1, <2>2 DEF S
<1>3. /\ Len(new) = Len(old) /\ Len(old) \in Nat
      /\ \A j \in 1..Len(old) : new[j] = old[j] \/ (new[j] = b /\ old[j] = Last(want))
  <2>1. b \in S /\ want \in Seq(S) /\ got \in Seq(S)
    BY <1>1
  <2> HIDE DEF S
  <2> QED BY <2>1, AnswerInPlace
<1>4. Fits(old, h)
  OBVIOUS
<1> HIDE DEF old, new
<1>5. DOMAIN new = 1..Len(old) /\ DOMAIN old = 1..Len(old)
  BY <1>2, <1>3
<1>6. Fits(new, h)
  BY <1>3, <1>4, <1>5 DEF Fits
<1> QED BY <1>6 DEF new

(* What a step leaves of the stack it works on, with the frames of S.      *)
LEMMA TopReplaced ==
  ASSUME NEW S, NEW t \in Node, stack[t] \in Seq(S), stack[t] # <<>>,
         stack \in [Node -> Seq(Frame)], NEW f \in S, ReplaceTop(t, f)
  PROVE  stack'[t] \in Seq(S) /\ \A u \in Node \ {t} : stack'[u] = stack[u]
<1>1. Append(Front(stack[t]), f) \in Seq(S)
  BY ReplaceLast
<1> QED BY <1>1 DEF ReplaceTop

LEMMA Popped ==
  ASSUME NEW S, NEW t \in Node, stack[t] \in Seq(S), stack[t] # <<>>,
         stack \in [Node -> Seq(Frame)], Pop(t)
  PROVE  /\ stack'[t] \in Seq(S) /\ \A u \in Node \ {t} : stack'[u] = stack[u]
         /\ Len(stack[t]) = 1 => stack'[t] = <<>>
<1>1. Front(stack[t]) \in Seq(S) /\ Len(Front(stack[t])) = Len(stack[t]) - 1
  BY FrontFacts
<1>2. stack'[t] = Front(stack[t]) /\ \A u \in Node \ {t} : stack'[u] = stack[u]
  BY DEF Pop
<1>3. ASSUME Len(stack[t]) = 1 PROVE Front(stack[t]) = <<>>
  BY <1>1, <1>3
<1> QED BY <1>1, <1>2, <1>3

LEMMA NewFramesFit ==
  ASSUME TypeInv, NEW n \in Node, NEW h
  PROVE  Cast(n) \in Fitting(h) /\ Enter(n) \in Fitting(h)
<1>1. Cast(n) \in Frame /\ Enter(n) \in Frame
  BY CastType
<1> QED BY <1>1 DEF Cast, Enter, Fitting

LEMMA CalledPeerFits ==
  ASSUME TypeInv, NEW t \in Node, stack[t] # <<>>, NEW p, NEW h, Top(t) \in Fitting(h)
  PROVE  CalledPeer(t, p) \in Fitting(h)
<1>1. /\ CalledPeer(t, p) \in Frame /\ CalledPeer(t, p).pc = Top(t).pc
      /\ CalledPeer(t, p).got = Top(t).got /\ CalledPeer(t, p).want = Top(t).want
  BY TopFacts, CalledPeerType DEF CalledPeer, Frame
<1> QED BY <1>1 DEF Fitting

(* A step of the stack of t whose frames all fit the message it keeps.     *)
LEMMA OneStackFits ==
  ASSUME TypeInv, FetchInv, NEW t \in Node,
         \A u \in Node \ {t} : stack'[u] = stack[u] /\ msg'[u] = msg[u],
         stack'[t] \in Seq(Fitting(msg[t].hashes)),
         msg'[t] = msg[t] \/ stack'[t] = <<>>
  PROVE  FetchInv'
<1>1. ASSUME NEW u \in Node PROVE stack'[u] \in Seq(Fitting(msg'[u].hashes))
  <2>1. CASE u # t
    BY <2>1 DEF FetchInv
  <2>2. CASE u = t /\ msg'[t] = msg[t]
    BY <2>2
  <2>3. CASE u = t /\ stack'[t] = <<>>
    BY <2>3
  <2> QED BY <2>1, <2>2, <2>3
<1> QED BY <1>1 DEF FetchInv, Fitting, Fits

LEMMA MineFitting ==
  ASSUME TypeInv, FetchInv, NEW n \in Node, Mine(n)
  PROVE  FetchInv'
<1>1. CASE UNCHANGED callVars
  BY <1>1 DEF FetchInv, Fitting, Fits, callVars
<1>2. CASE \E b, intact, chain : Broadcast(n, b, intact, chain)
  <2>1. PICK m : msg' = [msg EXCEPT ![n] = m] /\ stack' = [stack EXCEPT ![n] = <<Cast(n)>>]
    BY <1>2 DEF Broadcast
  <2>2. <<Cast(n)>> \in Seq(Fitting(m.hashes))
    BY NewFramesFit
  <2>3. ASSUME NEW u \in Node PROVE stack'[u] \in Seq(Fitting(msg'[u].hashes))
    <3>1. CASE u # n
      BY <2>1, <3>1 DEF FetchInv, TypeInv, TypeOK
    <3>2. CASE u = n
      BY <2>1, <2>2, <3>2 DEF TypeInv, TypeOK
    <3> QED BY <3>1, <3>2
  <2> QED BY <2>3 DEF FetchInv, Fitting, Fits
<1> QED BY <1>1, <1>2 DEF Mine, CreateBlock, MinerPanic, AbandonBlock, PublishBlock,
           HideBlock, DropBlock, PublishRefused, PublishSpoiled, callVars

LEMMA CarryFitting ==
  ASSUME TypeInv, FetchInv, NEW t \in Node, Carry(t)
  PROVE  FetchInv'
<1> DEFINE h == msg[t].hashes
           S == Fitting(h)
<1>0. /\ stack \in [Node -> Seq(Frame)] /\ msg \in [Node -> Message \cup {Nil}]
      /\ stack[t] \in Seq(S)
  BY DEF FetchInv, TypeInv, TypeOK
<1>a. ASSUME stack[t] # <<>> PROVE Top(t) \in S
  BY <1>0, <1>a, FrontFacts DEF Top
<1>b. ASSUME stack[t] # <<>>, NEW f \in S, ReplaceTop(t, f), UNCHANGED msg
      PROVE  FetchInv'
  <2>1. stack'[t] \in Seq(S) /\ \A u \in Node \ {t} : stack'[u] = stack[u]
    BY <1>0, <1>b, TopReplaced
  <2> QED BY <1>b, <2>1, OneStackFits
<1>1. CASE CallPeer(t)
  <2>1. PICK p \in Top(t).todo :
          stack' = [stack EXCEPT ![t] = Append(Append(Front(@), CalledPeer(t, p)), Enter(p))]
    BY <1>1 DEF CallPeer
  <2>2. stack[t] # <<>> /\ p \in Node /\ msg' = msg
    BY <1>0, <1>1, TopFacts DEF CallPeer, At, Frame
  <2>3. CalledPeer(t, p) \in S /\ Enter(p) \in S
    BY <1>a, <2>2, CalledPeerFits, NewFramesFit
  <2> HIDE DEF S
  <2>4. Append(Front(stack[t]), CalledPeer(t, p)) \in Seq(S)
    BY <1>0, <2>2, <2>3, ReplaceLast
  <2>5. Append(Append(Front(stack[t]), CalledPeer(t, p)), Enter(p)) \in Seq(S)
    BY <2>3, <2>4, AppendFacts
  <2>6. stack'[t] \in Seq(S) /\ \A u \in Node \ {t} : stack'[u] = stack[u]
    BY <1>0, <2>1, <2>5
  <2> QED BY <2>2, <2>6, OneStackFits DEF S
<1>2. CASE CallFails(t) \/ PeerHasNot(t)
  <2>1. PICK p : ReplaceTop(t, CalledPeer(t, p))
    BY <1>2 DEF CallFails, PeerHasNot
  <2>2. stack[t] # <<>> /\ msg' = msg
    BY <1>2 DEF CallFails, PeerHasNot, Fetching, At
  <2>3. CalledPeer(t, p) \in S
    BY <1>a, <2>2, CalledPeerFits
  <2> QED BY <1>b, <2>1, <2>2, <2>3
<1>3. CASE PeerAnswers(t) \/ NobodyHas(t)
  <2>1. /\ Fetching(t) /\ stack[t] # <<>> /\ Top(t).pc = "fetch" /\ Top(t).want # <<>>
        /\ msg' = msg
    BY <1>3 DEF PeerAnswers, NobodyHas, Fetching, At
  <2>2. PICK b \in {Nil, Last(Top(t).want)} : ReplaceTop(t, Answered(t, b))
    BY <1>3 DEF PeerAnswers, NobodyHas
  <2>3. Top(t) \in Frame /\ Fits(Top(t).want \o Top(t).got, h)
    BY <1>a, <2>1 DEF Fitting
  <2>4. Top(t).want \in Seq(Block) /\ Top(t).got \in Seq(Block \cup {Nil})
    BY <2>3 DEF Frame
  <2>5. Len(h) \in Nat
    BY <2>1, TopFacts DEF Message
  <2>6. Fits(Front(Top(t).want) \o (<<b>> \o Top(t).got), h)
    BY <2>1, <2>3, <2>4, <2>5, AnswerFits
  <2>7. Answered(t, b) \in Frame
    <3>1. Last(Top(t).want) \in Block
      BY <2>1, <2>4, FrontFacts
    <3> QED BY <2>1, <3>1, AnsweredType
  <2>8. Answered(t, b).want = Front(Top(t).want) /\ Answered(t, b).got = <<b>> \o Top(t).got
    BY <2>3 DEF Answered, Frame
  <2>9. Answered(t, b) \in S
    BY <2>6, <2>7, <2>8 DEF Fitting
  <2> QED BY <1>b, <2>1, <2>2, <2>9
<1>4. CASE KeepChain(t) \/ ExtendChain(t)
  <2>1. At(t, "enter") /\ ReplaceTop(t, Cast(Handler(t))) /\ msg' = msg
    BY <1>4 DEF KeepChain, ExtendChain, Extends, Fork, Elsewhere, Verified, Received
  <2>2. stack[t] # <<>> /\ Cast(Handler(t)) \in S
    BY <2>1, EnterFacts, NewFramesFit
  <2> QED BY <1>b, <2>1, <2>2
<1>5. CASE BeginFork(t)
  <2> DEFINE n == Handler(t)
             want == MissingHashes(h, CommonAncestor(blocks[n], h))
             f == [node |-> n, pc |-> "fetch", todo |-> peers[n], want |-> want, got |-> <<>>]
  <2>1. At(t, "enter") /\ ReplaceTop(t, f) /\ msg' = msg
    BY <1>5 DEF BeginFork, Fork, Elsewhere, Verified, Received
  <2>2. stack[t] # <<>> /\ n \in Node /\ h \in Seq(Block)
    BY <2>1, EnterFacts DEF Message
  <2>3. /\ want \in Seq(Block) /\ peers[n] \in SUBSET Node
        /\ Len(want) <= Len(h)
        /\ \A j \in 1..Len(want) : want[j] = h[Len(h) - Len(want) + j]
    BY <2>2, MissingHashesFacts DEF TypeInv, TypeOK
  <2> HIDE DEF want
  <2>4. Fits(want \o <<>>, h)
    BY <2>3 DEF Fits
  <2>5. f \in S
    <3>1. f \in Frame /\ f.want = want /\ f.got = <<>>
      BY <2>2, <2>3 DEF Frame
    <3> HIDE DEF f
    <3> QED BY <2>4, <3>1 DEF Fitting
  <2> HIDE DEF f
  <2> QED BY <1>b, <2>1, <2>2, <2>5
<1>6. CASE \/ Return(t) \/ EndBroadcast(t) \/ Unwind(t)
           \/ RefuseBlacklisted(t) \/ IgnoreBlock(t) \/ RejectInvalid(t) \/ RefuseBlock(t)
           \/ RefuseDuplicate(t) \/ RefuseUnconnected(t)
  <2>1. stack[t] # <<>> /\ Pop(t)
    BY <1>6 DEF Return, EndBroadcast, Unwind, Reply, RefuseBlacklisted, IgnoreBlock,
         RejectInvalid, RefuseBlock, RefuseDuplicate, RefuseUnconnected, Fork,
         Elsewhere, Extends, Verified, Received, At
  <2>2. msg' = msg \/ (Len(stack[t]) = 1 /\ msg' = [msg EXCEPT ![t] = Nil])
    BY <1>0, <1>6 DEF Return, EndBroadcast, Unwind, Reply, RefuseBlacklisted, IgnoreBlock,
         RejectInvalid, RefuseBlock, RefuseDuplicate, RefuseUnconnected
  <2>3. /\ stack'[t] \in Seq(S) /\ \A u \in Node \ {t} : stack'[u] = stack[u]
        /\ Len(stack[t]) = 1 => stack'[t] = <<>>
    BY <1>0, <2>1, Popped
  <2>4. \A u \in Node \ {t} : msg'[u] = msg[u]
    BY <1>0, <2>2
  <2>5. msg'[t] = msg[t] \/ stack'[t] = <<>>
    BY <2>2, <2>3
  <2> QED BY <2>3, <2>4, <2>5, OneStackFits
<1>7. CASE ReceivePanic(t) \/ ForkPanic(t)
  BY <1>7 DEF ReceivePanic, ForkPanic, callVars, FetchInv, Fitting, Fits
<1>8. CASE FinishFork(t)
  <2>1. /\ stack[t] # <<>> /\ (ReplaceTop(t, Cast(Handler(t))) \/ Pop(t))
        /\ msg' = msg
    BY <1>8 DEF FinishFork, Fetched, At
  <2>2. Cast(Handler(t)) \in S
    BY <2>1, TopFacts, NewFramesFit
  <2>3. CASE Pop(t)
    <3>1. /\ stack'[t] \in Seq(S) /\ \A u \in Node \ {t} : stack'[u] = stack[u]
      BY <1>0, <2>1, <2>3, Popped
    <3> QED BY <2>1, <3>1, OneStackFits
  <2> QED BY <1>b, <2>1, <2>2, <2>3
<1> QED BY <1>1, <1>2, <1>3, <1>4, <1>5, <1>6, <1>7, <1>8 DEF Carry

LEMMA NextFitting == TypeInv /\ FetchInv /\ [Next]_vars => FetchInv'
<1> SUFFICES ASSUME TypeInv, FetchInv, [Next]_vars PROVE FetchInv'
  OBVIOUS
<1>1. CASE \E n \in Node : Mine(n)
  BY <1>1, MineFitting
<1>2. CASE \E t \in Node : Carry(t)
  BY <1>2, CarryFitting
<1>3. CASE \/ \E n \in Node : AddPeer(n)
           \/ \E x \in Tx : Gossip(x)
           \/ UNCHANGED vars
  <2>1. UNCHANGED callVars
    BY <1>3 DEF AddPeer, Gossip, SubmitTransaction, AcceptTransaction,
       RefuseTransaction, RelayTransaction, ReturnTransaction, UnchangedByTx, vars
  <2> QED BY <2>1 DEF FetchInv, Fitting, Fits, callVars
<1> QED BY <1>1, <1>2, <1>3 DEF Next

(* Whatever peers answer, fail to answer or change between two calls, what *)
(* RequestMissingBlocks has and wants are the end of the hashes it was     *)
(* given, in their order.                                                  *)
THEOREM FetchesAligned == Spec => []FetchAligned
<1>1. Init => FetchInv
  BY DEF Init, FetchInv
<1>2. FetchInv => FetchAligned
  <2>1. ASSUME FetchInv, NEW t \in Node, NEW i \in DOMAIN stack[t]
        PROVE  stack[t][i] \in Fitting(msg[t].hashes)
    BY <2>1 DEF FetchInv
  <2> QED BY <2>1 DEF FetchAligned, Fitting, Fits
<1> QED BY <1>1, <1>2, NextFitting, TypeInvariant, PTL DEF Spec

-----------------------------------------------------------------------------
(***************************************************************************)
(* Which chain is longer.  ComputeWork counts hashes, and those that come  *)
(* with a block its miner added are as many as the block is high, up to    *)
(* the window.                                                             *)
(***************************************************************************)
Carried(m) ==
  Len(m.hashes) = IF Height[m.block] + 1 > HashWindow
                  THEN HashWindow ELSE Height[m.block] + 1

WorkInv ==
  \A t \in Node :
     stack[t] # <<>> /\ msg[t].intact /\ Mode[t] # 3 => Carried(msg[t])

LEMMA MineCarried ==
  ASSUME TypeInv, ChainLinked, WorkInv, NEW n \in Node, Mine(n)
  PROVE  WorkInv'
<1>0. stack \in [Node -> Seq(Frame)] /\ msg \in [Node -> Message \cup {Nil}]
  BY DEF TypeInv, TypeOK
<1>1. CASE UNCHANGED callVars
  BY <1>1 DEF WorkInv, Carried, callVars
<1>2. ASSUME NEW b, NEW intact, NEW chain, Broadcast(n, b, intact, chain),
             Carried([block |-> b, intact |-> intact, hashes |-> LastHashes(chain)])
               \/ ~ intact \/ Mode[n] = 3
      PROVE  WorkInv'
  BY <1>0, <1>2 DEF Broadcast, WorkInv, Carried
<1>3. CASE PublishBlock(n)
  <2> DEFINE b == cand[n]
             chain == Append(blocks[n], b)
  <2>1. /\ b \in Block /\ blocks[n] \in Seq(Block) /\ blocks[n] # <<>>
        /\ Connects(blocks[n], b) /\ Linked(blocks[n])
    BY <1>3 DEF PublishBlock, Found, AddBlockOK, ChainLinked, TypeInv, TypeOK
  <2>2. Height[b] = Len(blocks[n]) /\ Len(blocks[n]) \in Nat
    BY <2>1, LinkedEnd DEF Connects
  <2>3. chain \in Seq(Block) /\ Len(chain) = Height[b] + 1
    BY <2>1, <2>2, AppendFacts
  <2>4. Broadcast(n, b, TRUE, chain)
    BY <1>3 DEF PublishBlock
  <2> HIDE DEF b, chain
  <2>5. Len(LastHashes(chain)) = IF Height[b] + 1 > HashWindow
                                 THEN HashWindow ELSE Height[b] + 1
    BY <2>3, LastHashesLength
  <2> QED BY <1>2, <2>4, <2>5 DEF Carried
<1>4. CASE PublishRefused(n)
  BY <1>2, <1>4 DEF PublishRefused
<1>5. CASE PublishSpoiled(n)
  BY <1>2, <1>5 DEF PublishSpoiled
<1> QED BY <1>1, <1>3, <1>4, <1>5 DEF Mine, CreateBlock, MinerPanic, AbandonBlock,
           HideBlock, DropBlock, callVars

LEMMA CarryCarried ==
  ASSUME TypeInv, WorkInv, NEW t \in Node, Carry(t)
  PROVE  WorkInv'
<1>1. stack[t] # <<>>
  BY DEF Carry, CallPeer, CallFails, Return, EndBroadcast, Unwind, RefuseBlacklisted,
     IgnoreBlock, RejectInvalid, ReceivePanic, ExtendChain, RefuseBlock, RefuseDuplicate,
     RefuseUnconnected, KeepChain, BeginFork, PeerAnswers, PeerHasNot, NobodyHas,
     ForkPanic, FinishFork, Fetching, Fetched, Fork, Elsewhere, Extends, Verified,
     Received, At
<1>2. /\ \A u \in Node \ {t} : stack'[u] = stack[u] /\ msg'[u] = msg[u]
      /\ stack'[t] # <<>> => msg'[t] = msg[t]
  BY CarryEffects
<1> QED BY <1>1, <1>2 DEF WorkInv, Carried

LEMMA NextCarried == TypeInv /\ ChainLinked /\ WorkInv /\ [Next]_vars => WorkInv'
<1> SUFFICES ASSUME TypeInv, ChainLinked, WorkInv, [Next]_vars PROVE WorkInv'
  OBVIOUS
<1>1. CASE UNCHANGED callVars
  BY <1>1 DEF WorkInv, Carried, callVars
<1>2. CASE (\E n \in Node : Mine(n)) \/ (\E t \in Node : Carry(t))
  BY <1>2, MineCarried, CarryCarried
<1> QED BY <1>1, <1>2 DEF Next, AddPeer, Gossip, SubmitTransaction, AcceptTransaction,
           RefuseTransaction, RelayTransaction, ReturnTransaction, UnchangedByTx, vars

(* A higher fork counts as more work as long as the receiver has fewer     *)
(* blocks than hashes travel, whatever the tree of blocks and the network. *)
THEOREM HigherCounts == Spec => []LongerBelowWindow
<1>1. Init => WorkInv
  BY DEF Init, WorkInv
<1>2. TypeInv /\ ChainLinked /\ WorkInv => LongerBelowWindow
  <2> SUFFICES ASSUME TypeInv, ChainLinked, WorkInv, NEW t \in Node, Mode[t] # 3, Fork(t),
                      Height[msg[t].block] > Height[Last(blocks[Handler(t)])],
                      Len(blocks[Handler(t)]) < HashWindow
               PROVE  Longer(t)
    BY DEF LongerBelowWindow, HigherFork
  <2> DEFINE c == blocks[Handler(t)]
  <2>1. At(t, "enter") /\ msg[t].intact /\ c # <<>>
    BY DEF Fork, Elsewhere, Verified, Received
  <2>2. /\ Handler(t) \in Node /\ msg[t] \in Message /\ c \in Seq(Block)
        /\ stack[t] # <<>>
    BY <2>1, EnterFacts
  <2>3. /\ Height[Last(c)] = Len(c) - 1 /\ Len(c) \in Nat \ {0}
        /\ Len(LastHashes(c)) = IF Len(c) > HashWindow THEN HashWindow ELSE Len(c)
    BY <2>1, <2>2, LinkedEnd, LastHashesLength DEF ChainLinked
  <2>4. Len(msg[t].hashes) = IF Height[msg[t].block] + 1 > HashWindow
                             THEN HashWindow ELSE Height[msg[t].block] + 1
    BY <2>1, <2>2 DEF WorkInv, Carried
  <2>5. Height[msg[t].block] \in Nat /\ HashWindow \in Nat
    BY <2>2, ChainAssumption DEF Message
  <2>6. Longer(t) <=> Len(msg[t].hashes) > Len(LastHashes(c))
    BY DEF Longer, Work
  <2>7. Height[msg[t].block] > Len(c) - 1
    BY <2>3
  <2> HIDE DEF c
  <2>8. Len(c) < HashWindow => Longer(t)
    BY <2>3, <2>4, <2>5, <2>6, <2>7
  <2> QED BY <2>8 DEF c
<1> QED BY <1>1, <1>2, NextCarried, TypeInvariant, ChainsLinked, PTL DEF Spec

-----------------------------------------------------------------------------
(***************************************************************************)
(* One honest miner.  No other node has a block under way, so that nobody  *)
(* changes a chain while a handler below or above waits for its answer.    *)
(***************************************************************************)
OneMines == Miners = {TheMiner} /\ Mode[TheMiner] = 0

(* How the frames of the miner's stack st stand to the chains bl: only the *)
(* last one does anything but broadcast, and it has asked, or will ask,    *)
(* for just the blocks that its node lacks.                                *)
Lacks(f, bl) ==
  /\ f.node # TheMiner
  /\ Len(f.want) + Len(f.got) = Len(bl[TheMiner]) - Len(bl[f.node])
  /\ Len(bl[TheMiner]) - Len(bl[f.node]) > 0

Waiting(st) == \A i \in 1..Len(st) : i # Len(st) => st[i].pc = "cast"

Stacked(st, bl) ==
  Waiting(st) /\ \A i \in 1..Len(st) : st[i].pc = "fetch" => Lacks(st[i], bl)

LEMMA StackedReplaced ==
  ASSUME NEW st \in Seq(Frame), st # <<>>, Waiting(st), NEW f \in Frame, NEW bl,
         f.pc = "fetch" => Lacks(f, bl)
  PROVE  Stacked(Append(Front(st), f), bl)
<1> DEFINE new == Append(Front(st), f)
<1>1. /\ Len(new) = Len(st) /\ new[Len(st)] = f /\ Len(st) \in Nat \ {0}
      /\ \A i \in 1..(Len(st) - 1) : new[i] = st[i]
  BY FrontFacts, ReplaceLast
<1> HIDE DEF new
<1>2. ASSUME NEW i \in 1..Len(new), i # Len(new) PROVE new[i].pc = "cast"
  <2>1. i \in 1..(Len(st) - 1) /\ i \in 1..Len(st) /\ i # Len(st)
    BY <1>1, <1>2
  <2> QED BY <1>1, <2>1 DEF Waiting
<1>3. ASSUME NEW i \in 1..Len(new), new[i].pc = "fetch" PROVE Lacks(new[i], bl)
  <2>1. i = Len(st)
    BY <1>1, <1>2, <1>3
  <2> QED BY <1>1, <1>3, <2>1
<1>4. Stacked(new, bl)
  BY <1>2, <1>3 DEF Stacked, Waiting
<1> QED BY <1>4 DEF new

LEMMA StackedPopped ==
  ASSUME NEW st \in Seq(Frame), st # <<>>, Waiting(st), NEW bl
  PROVE  Stacked(Front(st), bl)
<1>1. /\ Len(Front(st)) = Len(st) - 1 /\ Len(st) \in Nat \ {0}
      /\ \A i \in 1..(Len(st) - 1) : Front(st)[i] = st[i]
  BY FrontFacts
<1>2. ASSUME NEW i \in 1..Len(Front(st)) PROVE Front(st)[i].pc = "cast"
  <2>1. i \in 1..(Len(st) - 1) /\ i \in 1..Len(st) /\ i # Len(st)
    BY <1>1
  <2> QED BY <1>1, <2>1 DEF Waiting
<1> QED BY <1>2 DEF Stacked, Waiting

LEMMA StackedCalled ==
  ASSUME NEW st \in Seq(Frame), st # <<>>, Waiting(st), NEW f \in Frame, f.pc = "cast",
         NEW e \in Frame, e.pc = "enter", NEW bl
  PROVE  Stacked(Append(Append(Front(st), f), e), bl)
<1> DEFINE low == Append(Front(st), f)
           new == Append(low, e)
<1>1. /\ low \in Seq(Frame) /\ Len(low) = Len(st) /\ low[Len(st)] = f
      /\ Len(st) \in Nat \ {0} /\ \A i \in 1..(Len(st) - 1) : low[i] = st[i]
  BY FrontFacts, ReplaceLast
<1> HIDE DEF low
<1>2. /\ Len(new) = Len(st) + 1 /\ new[Len(st) + 1] = e
      /\ \A i \in 1..Len(st) : new[i] = low[i]
  BY <1>1, AppendFacts
<1> HIDE DEF new
<1>3. ASSUME NEW i \in 1..Len(st) PROVE new[i].pc = "cast"
  <2>1. CASE i = Len(st)
    BY <1>1, <1>2, <2>1
  <2>2. CASE i # Len(st)
    <3>1. i \in 1..(Len(st) - 1)
      BY <2>2
    <3> QED BY <1>1, <1>2, <2>2, <3>1 DEF Waiting
  <2> QED BY <2>1, <2>2
<1>4. ASSUME NEW i \in 1..Len(new) PROVE i \in 1..Len(st) \/ (i = Len(new) /\ new[i] = e)
  BY <1>1, <1>2
<1>5. Stacked(new, bl)
  BY <1>3, <1>4 DEF Stacked, Waiting
<1> QED BY <1>5 DEF new, low

-----------------------------------------------------------------------------
(* Which frames broadcast: at nodes that have the block, each node once.   *)
Holders(st, bl) ==
  \A i \in 1..Len(st) : st[i].pc = "cast" => Len(bl[st[i].node]) = Len(bl[TheMiner])

Apart(st) ==
  \A i, j \in 1..Len(st) :
     i < j /\ st[i].pc = "cast" /\ st[j].pc = "cast" => st[i].node # st[j].node

Spread(st, bl) == Holders(st, bl) /\ Apart(st)

(* Whatever was full stays full.                                           *)
KeepsUp(bl, new) ==
  /\ Len(new[TheMiner]) = Len(bl[TheMiner])
  /\ \A n \in Node : Len(bl[n]) = Len(bl[TheMiner]) => Len(new[n]) = Len(bl[n])

LEMMA SpreadReplaced ==
  ASSUME NEW st \in Seq(Frame), st # <<>>, NEW f \in Frame, NEW bl, NEW new,
         Spread(st, bl), KeepsUp(bl, new),
         f.pc = "cast" =>
           \/ Last(st).pc = "cast" /\ f.node = Last(st).node
           \/ Len(bl[f.node]) # Len(bl[TheMiner]) /\ Len(new[f.node]) = Len(bl[TheMiner])
  PROVE  Spread(Append(Front(st), f), new)
<1> DEFINE rep == Append(Front(st), f)
           L == Len(st)
<1>1. /\ Len(rep) = L /\ rep[L] = f /\ L \in Nat \ {0} /\ Last(st) = st[L]
      /\ \A i \in 1..(L - 1) : rep[i] = st[i]
  BY FrontFacts, ReplaceLast
<1> HIDE DEF rep
<1>2. \A i \in 1..L : i # L => i \in 1..(L - 1)
  BY <1>1
<1>3. \A i \in 1..L : st[i].node \in Node
  <2>1. \A i \in 1..L : st[i] \in Frame
    OBVIOUS
  <2> QED BY <2>1 DEF Frame
<1>4. f.pc = "cast" => Len(new[f.node]) = Len(new[TheMiner])
  <2>1. CASE Last(st).pc = "cast" /\ f.node = Last(st).node
    BY <1>1, <1>3, <2>1 DEF Spread, Holders, KeepsUp
  <2> QED BY <2>1 DEF KeepsUp
<1>5. ASSUME NEW i \in 1..L, rep[i].pc = "cast" PROVE Len(new[rep[i].node]) = Len(new[TheMiner])
  <2>1. CASE i = L
    BY <1>1, <1>4, <1>5, <2>1
  <2>2. CASE i # L
    <3>1. rep[i] = st[i]
      BY <1>1, <1>2, <2>2
    <3> QED BY <1>3, <1>5, <3>1 DEF Spread, Holders, KeepsUp
  <2> QED BY <2>1, <2>2
<1>6. ASSUME NEW i \in 1..L, NEW j \in 1..L, i < j, rep[i].pc = "cast", rep[j].pc = "cast"
      PROVE  rep[i].node # rep[j].node
  <2>1. i # L /\ rep[i] = st[i]
    BY <1>1, <1>2, <1>6
  <2>2. CASE j # L
    <3>1. rep[j] = st[j]
      BY <1>1, <1>2, <2>2
    <3> QED BY <1>6, <2>1, <3>1 DEF Spread, Apart
  <2>3. CASE j = L /\ Last(st).pc = "cast" /\ f.node = Last(st).node
    BY <1>1, <1>6, <2>1, <2>3 DEF Spread, Apart
  <2>4. CASE j = L /\ Len(bl[f.node]) # Len(bl[TheMiner])
    BY <1>1, <1>6, <2>1, <2>4 DEF Spread, Holders
  <2> QED BY <1>1, <1>6, <2>2, <2>3, <2>4
<1>7. Spread(rep, new)
  BY <1>1, <1>5, <1>6 DEF Spread, Holders, Apart
<1> QED BY <1>7 DEF rep

LEMMA SpreadPopped ==
  ASSUME NEW st \in Seq(Frame), st # <<>>, NEW bl, Spread(st, bl)
  PROVE  Spread(Front(st), bl)
<1>1. /\ Len(Front(st)) = Len(st) - 1 /\ Len(st) \in Nat \ {0}
      /\ \A i \in 1..(Len(st) - 1) : Front(st)[i] = st[i]
  BY FrontFacts
<1>2. \A i \in 1..Len(Front(st)) : i \in 1..Len(st) /\ Front(st)[i] = st[i]
  BY <1>1
<1> QED BY <1>2 DEF Spread, Holders, Apart

LEMMA SpreadPushed ==
  ASSUME NEW st \in Seq(Frame), NEW e \in Frame, e.pc # "cast", NEW bl, Spread(st, bl)
  PROVE  Spread(Append(st, e), bl)
<1>1. /\ Len(Append(st, e)) = Len(st) + 1 /\ Append(st, e)[Len(st) + 1] = e
      /\ \A i \in 1..Len(st) : Append(st, e)[i] = st[i]
  BY AppendFacts
<1>2. \A i \in 1..Len(Append(st, e)) :
        Append(st, e)[i].pc = "cast" => i \in 1..Len(st) /\ Append(st, e)[i] = st[i]
  BY <1>1
<1> QED BY <1>2 DEF Spread, Holders, Apart

-----------------------------------------------------------------------------
(* The forms of a step of a stack.                                         *)
LEMMA CarryForms ==
  ASSUME TypeInv, NEW t \in Node, Carry(t)
  PROVE  /\ stack[t] # <<>>
         /\ \A n \in Node : mining'[n] => mining[n]
         /\ \/ Pop(t) /\ UNCHANGED blocks
            \/ UNCHANGED <<stack, blocks>>
            \/ \E f \in Frame :
                 /\ ReplaceTop(t, f) /\ UNCHANGED blocks
                 /\ f.node = Handler(t) /\ f.pc = Top(t).pc
                 /\ Len(f.want) + Len(f.got) = Len(Top(t).want) + Len(Top(t).got)
            \/ CallPeer(t) \/ KeepChain(t) \/ BeginFork(t)
            \/ ExtendChain(t) \/ FinishFork(t)
<1> USE DEF chainVars, minerVars, callVars
<1>1. stack[t] # <<>>
  BY DEF Carry, CallPeer, CallFails, Return, EndBroadcast, Unwind, RefuseBlacklisted,
     IgnoreBlock, RejectInvalid, ReceivePanic, ExtendChain, RefuseBlock, RefuseDuplicate,
     RefuseUnconnected, KeepChain, BeginFork, PeerAnswers, PeerHasNot, NobodyHas,
     ForkPanic, FinishFork, Fetching, Fetched, Fork, Elsewhere, Extends, Verified,
     Received, At
<1>2. \A n \in Node : mining'[n] => mining[n]
  <2>1. mining \in [Node -> BOOLEAN]
    BY DEF TypeInv, TypeOK
  <2>2. UNCHANGED mining \/ mining' = [mining EXCEPT ![t] = @ /\ ~ Stops(t)]
    BY DEF Carry, CallPeer, CallFails, Return, EndBroadcast, Unwind, RefuseBlacklisted,
       IgnoreBlock, RejectInvalid, ReceivePanic, ExtendChain, RefuseBlock, RefuseDuplicate,
       RefuseUnconnected, KeepChain, BeginFork, PeerAnswers, PeerHasNot, NobodyHas,
       ForkPanic, FinishFork, Reply
  <2> QED BY <2>1, <2>2
<1>3. CASE CallFails(t) \/ PeerHasNot(t)
  <2>1. PICK p : ReplaceTop(t, CalledPeer(t, p)) /\ UNCHANGED blocks
    BY <1>3 DEF CallFails, PeerHasNot
  <2>2. CalledPeer(t, p) \in Frame
    BY <1>1, CalledPeerType
  <2>3. /\ CalledPeer(t, p).node = Handler(t) /\ CalledPeer(t, p).pc = Top(t).pc
        /\ CalledPeer(t, p).got = Top(t).got /\ CalledPeer(t, p).want = Top(t).want
    BY <1>1, TopFacts DEF CalledPeer, Frame, Handler
  <2> QED BY <1>1, <1>2, <2>1, <2>2, <2>3
<1>4. CASE PeerAnswers(t) \/ NobodyHas(t)
  <2>1. /\ Fetching(t) /\ Top(t).want # <<>> /\ UNCHANGED blocks
    BY <1>4 DEF PeerAnswers, NobodyHas, Fetching
  <2>2. PICK b \in {Nil, Last(Top(t).want)} : ReplaceTop(t, Answered(t, b))
    BY <1>4 DEF PeerAnswers, NobodyHas
  <2>3. /\ Top(t) \in Frame
        /\ Top(t).want \in Seq(Block) /\ Top(t).got \in Seq(Block \cup {Nil})
    BY <1>1, TopFacts DEF Frame
  <2>4. Last(Top(t).want) \in Block
    BY <2>1, <2>3, FrontFacts
  <2>5. Answered(t, b) \in Frame
    BY <2>1, <2>4, AnsweredType
  <2>6. /\ Answered(t, b).node = Handler(t) /\ Answered(t, b).pc = Top(t).pc
        /\ Answered(t, b).want = Front(Top(t).want)
        /\ Answered(t, b).got = <<b>> \o Top(t).got
    BY <2>3 DEF Answered, Frame, Handler
  <2>7. Len(Front(Top(t).want)) = Len(Top(t).want) - 1
    BY <2>1, <2>3, FrontFacts
  <2>8. Len(<<b>> \o Top(t).got) = 1 + Len(Top(t).got)
    BY <2>3, <2>4
  <2>9. Len(Top(t).want) \in Nat /\ Len(Top(t).got) \in Nat
    BY <2>3
  <2>10. Len(Front(Top(t).want)) + Len(<<b>> \o Top(t).got)
            = Len(Top(t).want) + Len(Top(t).got)
    <3>1. \A w, g \in Nat : (w - 1) + (1 + g) = w + g
      OBVIOUS
    <3> QED BY ONLY <2>7, <2>8, <2>9, <3>1, Zenon
  <2> QED BY <1>1, <1>2, <2>1, <2>2, <2>5, <2>6, <2>10
<1>5. CASE \/ Return(t) \/ EndBroadcast(t) \/ Unwind(t) \/ RefuseBlacklisted(t)
           \/ IgnoreBlock(t) \/ RejectInvalid(t) \/ RefuseBlock(t)
           \/ RefuseDuplicate(t) \/ RefuseUnconnected(t)
  <2>1. Pop(t) /\ UNCHANGED blocks
    BY <1>5 DEF Return, EndBroadcast, Unwind, Reply, RefuseBlacklisted, IgnoreBlock,
         RejectInvalid, RefuseBlock, RefuseDuplicate, RefuseUnconnected
  <2> QED BY <1>1, <1>2, <2>1
<1>6. CASE ReceivePanic(t) \/ ForkPanic(t)
  BY <1>1, <1>2, <1>6 DEF ReceivePanic, ForkPanic
<1> QED BY <1>1, <1>2, <1>3, <1>4, <1>5, <1>6 DEF Carry

-----------------------------------------------------------------------------
(* What holds of the chains and of the miner's stack.                      *)
SoleInv ==
  /\ \A n \in Node \ {TheMiner} : ~ mining[n] /\ stack[n] = <<>>
  /\ \A n \in Node : Behind(blocks[n], blocks[TheMiner])
  /\ stack[TheMiner] # <<>> =>
       /\ msg[TheMiner].block = Last(blocks[TheMiner])
       /\ msg[TheMiner].hashes = LastHashes(blocks[TheMiner])
  /\ Stacked(stack[TheMiner], blocks)

RelayInv == Spread(stack[TheMiner], blocks)

LEMMA MinerIsNode == OneMines => TheMiner \in Node
BY NetworkAssumption DEF OneMines

LEMMA InitSole == OneMines /\ Init => SoleInv /\ RelayInv
<1> SUFFICES ASSUME OneMines, Init PROVE SoleInv /\ RelayInv
  OBVIOUS
<1>1. TheMiner \in Node /\ Miners = {TheMiner}
  BY MinerIsNode DEF OneMines
<1>2. /\ stack[TheMiner] = <<>> /\ \A n \in Node : blocks[n] = <<Genesis>>
      /\ \A n \in Node \ {TheMiner} : ~ mining[n] /\ stack[n] = <<>>
  BY <1>1 DEF Init
<1>3. Behind(<<Genesis>>, <<Genesis>>)
  BY ChainAssumption DEF Behind
<1>4. Stacked(<<>>, blocks) /\ Spread(<<>>, blocks)
  BY DEF Stacked, Waiting, Spread, Holders, Apart
<1> QED BY <1>1, <1>2, <1>3, <1>4 DEF SoleInv, RelayInv

(* The handler on top of the miner's stack, if it is not broadcasting.     *)
LEMMA SoleTop ==
  ASSUME OneMines, TypeInv, ChainLinked, SoleInv, stack[TheMiner] # <<>>
  PROVE  /\ TheMiner \in Node /\ Handler(TheMiner) \in Node
         /\ stack[TheMiner] \in Seq(Frame) /\ Top(TheMiner) \in Frame
         /\ Top(TheMiner) = stack[TheMiner][Len(stack[TheMiner])]
         /\ Waiting(stack[TheMiner])
         /\ Behind(blocks[Handler(TheMiner)], blocks[TheMiner])
         /\ Linked(blocks[TheMiner])
         /\ msg[TheMiner].block = Last(blocks[TheMiner])
         /\ msg[TheMiner].hashes = LastHashes(blocks[TheMiner])
         /\ Top(TheMiner).pc = "fetch" => Lacks(Top(TheMiner), blocks)
<1>1. TheMiner \in Node
  BY MinerIsNode
<1>2. /\ Handler(TheMiner) \in Node
      /\ stack[TheMiner] \in Seq(Frame) /\ Top(TheMiner) \in Frame
      /\ Len(stack[TheMiner]) \in 1..Len(stack[TheMiner])
      /\ Top(TheMiner) = stack[TheMiner][Len(stack[TheMiner])]
  BY <1>1, TopFacts
<1> QED BY <1>1, <1>2 DEF SoleInv, Stacked, ChainLinked

(* A node that extends its chain was one block behind.                     *)
LEMMA ExtendCatchesUp ==
  ASSUME OneMines, TypeInv, ChainLinked, SoleInv, ExtendChain(TheMiner)
  PROVE  /\ Handler(TheMiner) # TheMiner /\ Top(TheMiner).pc = "enter"
         /\ Len(blocks[Handler(TheMiner)]) < Len(blocks[TheMiner])
         /\ blocks' = [blocks EXCEPT ![Handler(TheMiner)] = blocks[TheMiner]]
         /\ ReplaceTop(TheMiner, Cast(Handler(TheMiner)))
<1> DEFINE n == Handler(TheMiner)
           c == blocks[n]
           s == blocks[TheMiner]
<1>1. At(TheMiner, "enter") /\ stack[TheMiner] # <<>> /\ Top(TheMiner).pc = "enter"
  BY DEF ExtendChain, Extends, Verified, Received, At
<1>2. /\ Behind(c, s) /\ Linked(s) /\ msg[TheMiner].block = Last(s)
  BY <1>1, SoleTop
<1>3. c # <<>>
  BY <1>2, BehindIsPrefix
<1>4. PrevHash[Last(s)] = Last(c) /\ Last(s) # Genesis
  BY <1>2, <1>3 DEF ExtendChain, AddBlockOK, Connects, Verify
<1>5. Append(c, Last(s)) = s /\ Len(c) = Len(s) - 1 /\ Len(s) \in Nat
  BY <1>2, <1>4, EndConnects, BehindIsPrefix
<1>6. blocks' = [blocks EXCEPT ![n] = s]
  BY <1>2, <1>5 DEF ExtendChain, AddBlock
<1>7. Len(c) < Len(s) /\ n # TheMiner
  BY <1>5
<1> QED BY <1>1, <1>6, <1>7 DEF ExtendChain

(* HandleFork asks for what the node lacks.                                *)
LEMMA ForkCloses ==
  ASSUME OneMines, TypeInv, ChainLinked, SoleInv, BeginFork(TheMiner)
  PROVE  \E f \in Frame : /\ f.pc = "fetch" /\ Lacks(f, blocks)
                          /\ ReplaceTop(TheMiner, f) /\ UNCHANGED blocks
<1> DEFINE n == Handler(TheMiner)
           c == blocks[n]
           s == blocks[TheMiner]
           h == msg[TheMiner].hashes
           want == MissingHashes(h, CommonAncestor(c, h))
           f == [node |-> n, pc |-> "fetch", todo |-> peers[n], want |-> want, got |-> <<>>]
<1>1. At(TheMiner, "enter") /\ stack[TheMiner] # <<>>
  BY DEF BeginFork, Fork, Elsewhere, Verified, Received, At
<1>2. /\ n \in Node /\ Behind(c, s) /\ Linked(s)
      /\ msg[TheMiner].block = Last(s) /\ h = LastHashes(s)
  BY <1>1, SoleTop
<1>3. Common(c, h) # {} /\ ~ OnChain(c, Last(s))
  BY <1>2 DEF BeginFork, Connected, Fork, Duplicate
<1>4. Len(want) = Len(s) - Len(c)
  BY <1>2, <1>3, MissingCount
<1>5. c # s
  <2>1. Len(s) \in 1..Len(s) /\ Last(s) = s[Len(s)] /\ s \in Seq(Block)
    BY <1>2, BehindIsPrefix DEF Behind
  <2>2. OnChain(s, Last(s))
    BY <2>1 DEF OnChain
  <2> QED BY <1>3, <2>2
<1>6. Len(s) - Len(c) > 0 /\ n # TheMiner
  <2>1. n # TheMiner
    BY <1>5
  <2>2. Len(c) \in Nat /\ Len(s) \in Nat /\ Len(c) <= Len(s) /\ Len(c) # Len(s)
    BY <1>2, <1>5, BehindIsPrefix
  <2> HIDE DEF c, s
  <2>3. Len(s) - Len(c) > 0
    BY <2>2
  <2> QED BY <2>1, <2>3
<1>7. /\ want \in Seq(Block) /\ peers[n] \in SUBSET Node
  <2>1. h \in Seq(Block)
    BY <1>2, LastHashesType DEF Behind
  <2> QED BY <1>2, <2>1, MissingHashesFacts DEF TypeInv, TypeOK
<1>8. ReplaceTop(TheMiner, f) /\ UNCHANGED blocks
  BY DEF BeginFork, chainVars
<1> HIDE DEF want
<1>9. /\ f \in Frame /\ f.pc = "fetch" /\ f.node = n
      /\ Len(f.want) + Len(f.got) = Len(s) - Len(c)
  <2>1. f \in Frame /\ f.want = want /\ f.got = <<>> /\ f.node = n /\ f.pc = "fetch"
    BY <1>2, <1>7 DEF Frame
  <2>2. Len(want) \in Nat /\ Len(<<>>) = 0
    BY <1>7
  <2> QED BY <1>4, <2>1, <2>2
<1> HIDE DEF f
<1>10. Lacks(f, blocks)
  BY <1>6, <1>9 DEF Lacks
<1> QED BY <1>8, <1>9, <1>10

(* And puts it in its place, or leaves the chain as it is.                 *)
LEMMA ForkCatchesUp ==
  ASSUME OneMines, TypeInv, ChainLinked, FetchInv, SoleInv, FinishFork(TheMiner)
  PROVE  \/ Pop(TheMiner) /\ UNCHANGED blocks
         \/ /\ Handler(TheMiner) # TheMiner /\ Top(TheMiner).pc = "fetch"
            /\ Len(blocks[Handler(TheMiner)]) < Len(blocks[TheMiner])
            /\ blocks' = [blocks EXCEPT ![Handler(TheMiner)] = blocks[TheMiner]]
            /\ ReplaceTop(TheMiner, Cast(Handler(TheMiner)))
<1> DEFINE n == Handler(TheMiner)
           c == blocks[n]
           s == blocks[TheMiner]
           h == msg[TheMiner].hashes
           got == Top(TheMiner).got
           valid == got # <<>> /\ ValidateBlocks(got)
<1>1. stack[TheMiner] # <<>> /\ Top(TheMiner).pc = "fetch" /\ Top(TheMiner).want = <<>>
  BY DEF FinishFork, Fetched, At
<1>2. /\ n \in Node /\ TheMiner \in Node /\ Behind(c, s) /\ Linked(s) /\ h = LastHashes(s)
      /\ Lacks(Top(TheMiner), blocks) /\ Top(TheMiner) \in Frame
  BY <1>1, SoleTop
<1>3. blocks \in [Node -> Seq(Block)]
  BY DEF TypeInv, TypeOK
<1>4. CASE ~ valid
  <2>1. blocks' = [blocks EXCEPT ![n] = blocks[n]] /\ Pop(TheMiner)
    BY <1>4 DEF FinishFork
  <2>2. blocks' = blocks
    BY <1>3, <2>1
  <2> QED BY <2>1, <2>2
<1>5. CASE valid
  <2>1. got \in Seq(Block) /\ got # <<>>
    <3>1. got \in Seq(Block \cup {Nil})
      BY <1>2 DEF Frame
    <3> QED BY <1>5, <3>1, ValidBlocks
  <2>2. Len(got) = Len(s) - Len(c) /\ Len(s) - Len(c) > 0 /\ n # TheMiner
    <3>1. Len(<<>>) = 0 /\ Len(got) \in Nat
      BY <2>1
    <3>2. /\ n # TheMiner
          /\ Len(<<>>) + Len(got) = Len(s) - Len(c) /\ Len(s) - Len(c) > 0
      BY <1>1, <1>2 DEF Lacks, Handler
    <3> HIDE DEF c, s, got
    <3> QED BY <3>1, <3>2
  <2>3. /\ Len(got) <= Len(h)
        /\ \A j \in 1..Len(got) : got[j] \in {Nil, h[Len(h) - Len(got) + j]}
    <3>1. Top(TheMiner) \in Fitting(h)
      <4>1. stack[TheMiner] \in Seq(Fitting(h))
        BY <1>2 DEF FetchInv
      <4> QED BY <1>1, <4>1, FrontFacts DEF Top
    <3>2. Fits(<<>> \o got, h)
      BY <1>1, <3>1 DEF Fitting
    <3>3. <<>> \o got = got /\ DOMAIN got = 1..Len(got)
      BY <2>1
    <3> HIDE DEF got
    <3> QED BY <3>2, <3>3 DEF Fits
  <2>4. PICK a \in Nat :
          /\ a <= Len(s) /\ Len(h) = Len(s) - a
          /\ \A j \in 1..(Len(s) - a) : h[j] = s[a + j]
    <3>1. s \in Seq(Block)
      BY <1>2 DEF Behind
    <3>2. LastHashes(s) = h
      BY <1>2
    <3> HIDE DEF s, h
    <3> QED BY <3>1, <3>2, LastHashesPlace
  <2>5. Len(c) \in Nat /\ Len(s) \in Nat /\ Len(got) \in Nat
    BY <1>2, <2>1, BehindIsPrefix
  <2>6. ASSUME NEW j \in 1..Len(got) PROVE got[j] = s[Len(c) + j]
    <3>1. got[j] # Nil
      BY <2>1, ChainAssumption
    <3>2. /\ Len(h) - Len(got) + j \in 1..(Len(s) - a)
          /\ a + (Len(h) - Len(got) + j) = Len(c) + j
      <4> HIDE DEF c, s, h, got
      <4> QED BY <2>2, <2>3, <2>4, <2>5
    <3>3. h[Len(h) - Len(got) + j] = s[Len(c) + j]
      <4> HIDE DEF c, s, h, got
      <4> QED BY <2>4, <3>2
    <3> QED BY <2>3, <3>1, <3>3
  <2>7. ReplaceWithFork(c, got) = s
    BY <1>2, <2>1, <2>2, <2>6, MissingCompletes
  <2>8. s # <<>>
    BY <1>2, BehindIsPrefix
  <2>9. blocks' = [blocks EXCEPT ![n] = s] /\ ReplaceTop(TheMiner, Cast(n))
    BY <1>5, <2>7, <2>8 DEF FinishFork
  <2>10. Len(c) < Len(s)
    <3> HIDE DEF c, s, got
    <3> QED BY <2>2, <2>5
  <2> QED BY <1>1, <2>2, <2>9, <2>10
<1> QED BY <1>4, <1>5

(* The forms of a step of the miner's stack.                               *)
LEMMA SoleForms ==
  ASSUME OneMines, TypeInv, ChainLinked, FetchInv, SoleInv, Carry(TheMiner)
  PROVE  LET st  == stack[TheMiner]
             new == stack'[TheMiner]
             n   == Last(st).node
         IN  /\ st \in Seq(Frame) /\ st # <<>> /\ Waiting(st) /\ n \in Node
             /\ \/ UNCHANGED blocks /\ new = Front(st)
                \/ UNCHANGED blocks /\ new = st
                \/ /\ UNCHANGED blocks
                   /\ \E f \in Frame :
                        /\ new = Append(Front(st), f)
                        /\ f.pc = "fetch" => Lacks(f, blocks)
                        /\ f.pc = "cast" => Last(st).pc = "cast" /\ f.node = n
                \/ /\ UNCHANGED blocks
                   /\ \E f, e \in Frame :
                        /\ new = Append(Append(Front(st), f), e)
                        /\ f.pc = "cast" /\ Last(st).pc = "cast" /\ f.node = n
                        /\ e.pc = "enter"
                \/ /\ UNCHANGED blocks /\ KeepChain(TheMiner)
                   /\ new = Append(Front(st), Cast(n))
                \/ /\ n # TheMiner /\ Last(st).pc # "cast"
                   /\ Len(blocks[n]) < Len(blocks[TheMiner])
                   /\ blocks' = [blocks EXCEPT ![n] = blocks[TheMiner]]
                   /\ new = Append(Front(st), Cast(n))
<1> DEFINE t == TheMiner
           st == stack[t]
           new == stack'[t]
           n == Last(st).node
<1>1. t \in Node /\ stack[t] # <<>> /\ stack \in [Node -> Seq(Frame)]
  BY MinerIsNode, CarryForms DEF TypeInv, TypeOK
<1>2. /\ st \in Seq(Frame) /\ Waiting(st) /\ n \in Node
      /\ Top(t) \in Frame /\ Top(t) = Last(st) /\ Handler(t) = n
      /\ Top(t).pc = "fetch" => Lacks(Top(t), blocks)
  BY <1>1, SoleTop DEF Top, Handler
<1>3. ASSUME NEW f, ReplaceTop(t, f) PROVE new = Append(Front(st), f)
  BY <1>1, <1>3 DEF ReplaceTop
<1>4. CASE Pop(t) /\ UNCHANGED blocks
  <2>1. new = Front(st)
    BY <1>1, <1>4 DEF Pop
  <2> QED BY <1>1, <1>2, <1>4, <2>1
<1>5. CASE UNCHANGED <<stack, blocks>>
  BY <1>1, <1>2, <1>5
<1>6. CASE \E f \in Frame :
             /\ ReplaceTop(t, f) /\ UNCHANGED blocks
             /\ f.node = Handler(t) /\ f.pc = Top(t).pc
             /\ Len(f.want) + Len(f.got) = Len(Top(t).want) + Len(Top(t).got)
  <2>1. PICK f \in Frame :
             /\ ReplaceTop(t, f) /\ UNCHANGED blocks
             /\ f.node = Handler(t) /\ f.pc = Top(t).pc
             /\ Len(f.want) + Len(f.got) = Len(Top(t).want) + Len(Top(t).got)
    BY <1>6
  <2>2. new = Append(Front(st), f)
    BY <1>3, <2>1
  <2>3. f.pc = "fetch" => Lacks(f, blocks)
    BY <1>2, <2>1 DEF Lacks, Handler
  <2>4. f.pc = "cast" => Last(st).pc = "cast" /\ f.node = n
    BY <1>2, <2>1
  <2> QED BY <1>1, <1>2, <2>1, <2>2, <2>3, <2>4
<1>7. CASE CallPeer(t)
  <2>1. PICK p \in Top(t).todo :
          stack' = [stack EXCEPT ![t] = Append(Append(Front(@), CalledPeer(t, p)), Enter(p))]
    BY <1>7 DEF CallPeer
  <2>2. Top(t).pc = "cast" /\ UNCHANGED blocks /\ p \in Node
    BY <1>2, <1>7 DEF CallPeer, At, chainVars, Frame
  <2>3. /\ CalledPeer(t, p) \in Frame /\ CalledPeer(t, p).pc = "cast"
        /\ CalledPeer(t, p).node = n
    BY <1>1, <1>2, <2>2, CalledPeerType DEF CalledPeer, Frame, Handler
  <2>4. Enter(p) \in Frame /\ Enter(p).pc = "enter"
    BY <2>2, CastType DEF Enter
  <2>5. new = Append(Append(Front(st), CalledPeer(t, p)), Enter(p))
    BY <1>1, <2>1
  <2> QED BY <1>1, <1>2, <2>2, <2>3, <2>4, <2>5
<1>8. CASE KeepChain(t)
  <2>1. ReplaceTop(t, Cast(n)) /\ UNCHANGED blocks
    BY <1>2, <1>8 DEF KeepChain, chainVars
  <2> QED BY <1>1, <1>2, <1>3, <1>8, <2>1
<1>9. CASE BeginFork(t)
  <2>1. PICK f \in Frame : /\ f.pc = "fetch" /\ Lacks(f, blocks)
                           /\ ReplaceTop(t, f) /\ UNCHANGED blocks
    BY <1>9, ForkCloses
  <2> QED BY <1>1, <1>2, <1>3, <2>1
<1>10. CASE ExtendChain(t)
  <2>1. /\ n # t /\ Top(t).pc = "enter"
        /\ Len(blocks[n]) < Len(blocks[t])
        /\ blocks' = [blocks EXCEPT ![n] = blocks[t]]
        /\ ReplaceTop(t, Cast(n))
    BY <1>2, <1>10, ExtendCatchesUp
  <2> QED BY <1>1, <1>2, <1>3, <2>1
<1>11. CASE FinishFork(t)
  <2>1. \/ Pop(t) /\ UNCHANGED blocks
        \/ /\ n # t /\ Top(t).pc = "fetch"
           /\ Len(blocks[n]) < Len(blocks[t])
           /\ blocks' = [blocks EXCEPT ![n] = blocks[t]]
           /\ ReplaceTop(t, Cast(n))
    BY <1>2, <1>11, ForkCatchesUp
  <2> QED BY <1>1, <1>2, <1>3, <1>4, <2>1
<1> QED BY <1>1, <1>4, <1>5, <1>6, <1>7, <1>8, <1>9, <1>10, <1>11, CarryForms

LEMMA CarrySole ==
  ASSUME OneMines, TypeInv, ChainLinked, FetchInv, SoleInv, Carry(TheMiner)
  PROVE  SoleInv'
<1> DEFINE st == stack[TheMiner]
           new == stack'[TheMiner]
           n == Last(st).node
<1>1. /\ TheMiner \in Node /\ blocks \in [Node -> Seq(Block)]
      /\ \A k \in Node : mining'[k] => mining[k]
      /\ \A k \in Node \ {TheMiner} : stack'[k] = stack[k]
      /\ new # <<>> => msg'[TheMiner] = msg[TheMiner]
      /\ st # <<>>
  BY MinerIsNode, CarryForms, CarryEffects DEF TypeInv, TypeOK
<1>2. /\ st \in Seq(Frame) /\ Waiting(st) /\ n \in Node
  BY SoleForms
<1>3. \/ UNCHANGED blocks
      \/ n # TheMiner /\ blocks' = [blocks EXCEPT ![n] = blocks[TheMiner]]
  BY SoleForms
<1>4. /\ blocks'[TheMiner] = blocks[TheMiner]
      /\ \A k \in Node : Behind(blocks'[k], blocks'[TheMiner])
  BY <1>1, <1>3 DEF SoleInv
<1>5. Stacked(new, blocks')
  <2>1. CASE new = Front(st)
    BY <1>1, <1>2, <2>1, StackedPopped
  <2>2. CASE new = st /\ UNCHANGED blocks
    BY <2>2 DEF SoleInv
  <2>3. CASE \E f \in Frame : /\ new = Append(Front(st), f)
                              /\ f.pc = "fetch" => Lacks(f, blocks')
    <3>1. PICK f \in Frame : /\ new = Append(Front(st), f)
                             /\ f.pc = "fetch" => Lacks(f, blocks')
      BY <2>3
    <3> QED BY <1>1, <1>2, <3>1, StackedReplaced
  <2>4. CASE \E f, e \in Frame : /\ new = Append(Append(Front(st), f), e)
                                 /\ f.pc = "cast" /\ e.pc = "enter"
    <3>1. PICK f, e \in Frame : /\ new = Append(Append(Front(st), f), e)
                                /\ f.pc = "cast" /\ e.pc = "enter"
      BY <2>4
    <3> QED BY <1>1, <1>2, <3>1, StackedCalled
  <2>5. CASE new = Append(Front(st), Cast(n))
    <3>1. Cast(n) \in Frame /\ Cast(n).pc # "fetch"
      BY <1>2, CastType
    <3> QED BY <2>3, <2>5, <3>1
  <2> QED BY SoleForms, <2>1, <2>2, <2>3, <2>4, <2>5
<1> QED BY <1>1, <1>4, <1>5 DEF SoleInv

LEMMA MineSole ==
  ASSUME OneMines, TypeInv, ChainLinked, SoleInv, NEW n \in Node, Mine(n)
  PROVE  /\ SoleInv'
         /\ UNCHANGED blocks \/ OneLog!Extend
<1> DEFINE t == TheMiner
<1>1. /\ n = t /\ Mode[t] = 0 /\ stack[n] = <<>> /\ UNCHANGED mining
  <2>1. mining[n] /\ stack[n] = <<>> /\ UNCHANGED mining
    BY DEF Mine, CreateBlock, MinerPanic, AbandonBlock, PublishBlock, HideBlock,
       DropBlock, PublishRefused, PublishSpoiled, Found, Free, minerVars
  <2> QED BY <2>1 DEF SoleInv, OneMines
<1>2. CASE UNCHANGED <<blocks, msg, stack>>
  BY <1>1, <1>2 DEF SoleInv
<1>3. CASE PublishBlock(n)
  <2> DEFINE b == cand[t]
             s == blocks[t]
             new == Append(s, b)
  <2>1. /\ b \in Block /\ s \in Seq(Block) /\ s # <<>>
        /\ blocks \in [Node -> Seq(Block)]
        /\ stack \in [Node -> Seq(Frame)] /\ msg \in [Node -> Message \cup {Nil}]
        /\ blocks' = [blocks EXCEPT ![t] = new]
        /\ msg' = [msg EXCEPT ![t] =
             [block |-> b, intact |-> TRUE, hashes |-> LastHashes(new)]]
        /\ stack' = [stack EXCEPT ![t] = <<Cast(t)>>]
    BY <1>1, <1>3 DEF PublishBlock, Found, AddBlock, Broadcast, TypeInv, TypeOK
  <2>2. /\ Len(new) = Len(s) + 1 /\ new \in Seq(Block) /\ Last(new) = b
        /\ \A i \in 1..Len(s) : new[i] = s[i]
    BY <2>1, AppendFacts
  <2>3. Behind(new, new) /\ \A k \in Node : Behind(blocks[k], new)
    <3>1. Len(s) \in Nat
      BY <2>1
    <3> HIDE DEF new, s
    <3>2. Behind(new, new)
      BY <2>2, <3>1 DEF Behind
    <3>3. ASSUME NEW k \in Node PROVE Behind(blocks[k], new)
      <4>1. Behind(blocks[k], s)
        BY DEF SoleInv, s
      <4>2. /\ blocks[k] \in Seq(Block) /\ Len(blocks[k]) \in 1..Len(s)
            /\ \A i \in 1..Len(blocks[k]) : blocks[k][i] = s[i] /\ i \in 1..Len(s)
        BY <3>1, <4>1 DEF Behind
      <4> QED BY <2>2, <3>1, <4>2 DEF Behind
    <3> QED BY <3>2, <3>3
  <2>4. Stacked(<<Cast(t)>>, blocks')
    <3>1. Cast(t).pc = "cast"
      BY DEF Cast
    <3>2. Len(<<Cast(t)>>) = 1 /\ <<Cast(t)>>[1] = Cast(t)
      OBVIOUS
    <3> QED BY <3>1, <3>2 DEF Stacked, Waiting
  <2> HIDE DEF new
  <2>5. SoleInv'
    <3>1. \A k \in Node : Behind(blocks'[k], blocks'[t])
      BY <1>1, <2>1, <2>3
    <3>2. /\ stack'[t] = <<Cast(t)>> /\ blocks'[t] = new
          /\ msg'[t] = [block |-> b, intact |-> TRUE, hashes |-> LastHashes(new)]
          /\ \A k \in Node \ {t} : stack'[k] = stack[k]
      BY <1>1, <2>1
    <3> QED BY <1>1, <2>2, <2>4, <3>1, <3>2 DEF SoleInv
  <2> QED BY <2>1, <2>5 DEF OneLog!Extend, new
<1>4. ~ HideBlock(n) /\ ~ PublishRefused(n) /\ ~ PublishSpoiled(n)
  <2>1. Mode[n] # 3 /\ Mode[n] \notin {1, 2, 4}
    BY <1>1
  <2>2. ~ Hidden(n) /\ n \notin Liars
    BY ONLY <2>1 DEF Hidden, Liars
  <2> QED BY <2>1, <2>2 DEF HideBlock, PublishRefused, PublishSpoiled
<1> QED BY <1>2, <1>3, <1>4 DEF Mine, CreateBlock, MinerPanic, AbandonBlock, DropBlock,
           chainVars, callVars

(* Nobody else has a stack.                                                *)
LEMMA SoleCarrier ==
  ASSUME TypeInv, SoleInv, NEW t \in Node, Carry(t)
  PROVE  t = TheMiner
BY CarryForms DEF SoleInv

LEMMA NextSole ==
  ASSUME OneMines
  PROVE  TypeInv /\ ChainLinked /\ FetchInv /\ SoleInv /\ [Next]_vars
           => SoleInv' /\ [OneLog!Next]_blocks
<1> SUFFICES ASSUME TypeInv, ChainLinked, FetchInv, SoleInv, [Next]_vars
             PROVE  SoleInv' /\ [OneLog!Next]_blocks
  OBVIOUS
<1>1. CASE \E n \in Node : Mine(n)
  BY <1>1, MineSole DEF OneLog!Next
<1>2. CASE \E t \in Node : Carry(t)
  <2>1. Carry(TheMiner) /\ TheMiner \in Node
    BY <1>2, SoleCarrier
  <2>2. ASSUME NEW n \in Node \ {TheMiner}, Len(blocks[n]) < Len(blocks[TheMiner]),
               blocks' = [blocks EXCEPT ![n] = blocks[TheMiner]]
        PROVE  OneLog!Follow(n)
    <3> DEFINE c == blocks[n]
               s == blocks[TheMiner]
    <3>1. s \in Seq(Block) /\ Len(s) \in Nat /\ Len(c) \in Nat
      BY <2>1 DEF TypeInv, TypeOK
    <3>2. Len(s) \in (Len(c) + 1)..Len(s)
      <4>1. Len(c) < Len(s)
        BY <2>2
      <4> HIDE DEF c, s
      <4> QED BY <3>1, <4>1
    <3>3. SubSeq(s, 1, Len(s)) = s
      BY <3>1
    <3> QED BY <2>2, <3>2, <3>3 DEF OneLog!Follow
  <2>3. \/ UNCHANGED blocks
        \/ \E n \in Node \ {TheMiner} :
             /\ Len(blocks[n]) < Len(blocks[TheMiner])
             /\ blocks' = [blocks EXCEPT ![n] = blocks[TheMiner]]
    BY <2>1, SoleForms
  <2> QED BY <2>1, <2>2, <2>3, CarrySole DEF OneLog!Next
<1>3. CASE \/ \E n \in Node : AddPeer(n)
           \/ \E x \in Tx : Gossip(x)
           \/ UNCHANGED vars
  <2>1. UNCHANGED <<blocks, mining, msg, stack>>
    BY <1>3 DEF AddPeer, Gossip, SubmitTransaction, AcceptTransaction, RefuseTransaction,
       RelayTransaction, ReturnTransaction, UnchangedByTx, vars, chainVars, minerVars, callVars
  <2> QED BY <2>1 DEF SoleInv
<1> QED BY <1>1, <1>2, <1>3 DEF Next

LEMMA FetchesFit == Spec => []FetchInv
<1>1. Init => FetchInv
  BY DEF Init, FetchInv
<1> QED BY <1>1, NextFitting, TypeInvariant, PTL DEF Spec

(* However many nodes follow one honest miner, however late they join,     *)
(* whatever calls fail and whoever of them dies: every chain is a          *)
(* beginning of the miner's, and never gets shorter.                       *)
THEOREM SoleMinerFollowed ==
  ASSUME OneMines
  PROVE  Spec => FollowsLog
<1>1. Init => OneLog!Init
  BY DEF Init, OneLog!Init
<1>2. Init => SoleInv
  BY InitSole
<1>3. TypeInv /\ ChainLinked /\ FetchInv /\ SoleInv /\ [Next]_vars
        => SoleInv' /\ [OneLog!Next]_blocks
  BY NextSole
<1> QED BY <1>1, <1>2, <1>3, TypeInvariant, ChainsLinked, FetchesFit, PTL
        DEF Spec, FollowsLog, OneLog!Spec

-----------------------------------------------------------------------------
(***************************************************************************)
(* Relays of one miner's blocks.  A handler that keeps its chain relays    *)
(* the block each time it comes back; a shorter chain of the same miner is *)
(* not kept unless both windows are full.                                  *)
(***************************************************************************)
WithinWindow == Len(blocks[TheMiner]) <= HashWindow + 1

LEMMA NoneKept ==
  ASSUME OneMines, TypeInv, ChainLinked, SoleInv, WithinWindow
  PROVE  ~ KeepChain(TheMiner)
<1> SUFFICES ASSUME KeepChain(TheMiner) PROVE FALSE
  OBVIOUS
<1> DEFINE n == Handler(TheMiner)
           c == blocks[n]
           s == blocks[TheMiner]
<1>1. stack[TheMiner] # <<>>
  BY DEF KeepChain, Fork, Elsewhere, Verified, Received, At
<1>2. /\ Behind(c, s) /\ Linked(s)
      /\ msg[TheMiner].block = Last(s) /\ msg[TheMiner].hashes = LastHashes(s)
  BY <1>1, SoleTop
<1>3. /\ PrevHash[Last(s)] # Last(c) /\ ~ OnChain(c, Last(s))
      /\ ~ (Len(LastHashes(s)) > Len(LastHashes(c)))
  BY <1>2 DEF KeepChain, Fork, Elsewhere, Duplicate, Longer, Work
<1>4. /\ c \in Seq(Block) /\ s \in Seq(Block)
      /\ Len(c) \in Nat \ {0} /\ Len(s) \in Nat /\ Len(c) <= Len(s)
      /\ Last(c) = s[Len(c)] /\ Last(s) = s[Len(s)]
      /\ Len(s) <= HashWindow + 1 /\ HashWindow \in Nat
      /\ DOMAIN c = 1..Len(c) /\ DOMAIN s = 1..Len(s)
      /\ \A i \in 1..Len(c) : c[i] = s[i]
  <2>1. Len(s) <= HashWindow + 1 /\ HashWindow \in Nat
    BY ChainAssumption DEF WithinWindow
  <2>2. c \in Seq(Block) /\ s \in Seq(Block) /\ \A i \in 1..Len(c) : c[i] = s[i]
    BY <1>2 DEF Behind
  <2>3. /\ Len(c) \in Nat \ {0} /\ Len(s) \in Nat /\ Len(c) <= Len(s)
        /\ Last(c) = s[Len(c)] /\ Last(s) = s[Len(s)]
    BY <1>2, BehindIsPrefix
  <2> HIDE DEF c, s
  <2> QED BY <2>1, <2>2, <2>3
<1>5. /\ Len(LastHashes(c)) = IF Len(c) > HashWindow THEN HashWindow ELSE Len(c)
      /\ Len(LastHashes(s)) = IF Len(s) > HashWindow THEN HashWindow ELSE Len(s)
  BY <1>4, LastHashesLength
<1> HIDE DEF c, s
<1>6. Len(c) # Len(s)
  <2>1. ASSUME Len(c) = Len(s) PROVE FALSE
    <3>1. Len(c) \in 1..Len(c) /\ c[Len(c)] = Last(s)
      BY <1>4, <2>1
    <3> QED BY <1>3, <1>4, <3>1 DEF OnChain
  <2> QED BY <2>1
<1>7. Len(c) # Len(s) - 1
  <2>1. ASSUME Len(c) = Len(s) - 1 PROVE FALSE
    <3>1. Len(s) \in 1..Len(s) /\ Len(s) # 1
      BY <1>4, <2>1
    <3>2. PrevHash[s[Len(s)]] = s[Len(s) - 1]
      BY <1>2, <1>4, <3>1 DEF Linked
    <3> QED BY <1>3, <1>4, <2>1, <3>2
  <2> QED BY <2>1
<1>8. PICK j \in Nat, k \in Nat, w \in Nat : j = Len(c) /\ k = Len(s) /\ w = HashWindow
  BY <1>4
<1>9. j < w /\ j < k
  <2>1. j <= k /\ k <= w + 1 /\ j # k /\ j # k - 1
    BY <1>4, <1>6, <1>7, <1>8
  <2> QED BY ONLY <1>8, <2>1
<1> QED BY <1>3, <1>5, <1>8, <1>9

LEMMA SpreadAtRoot ==
  ASSUME NEW bl
  PROVE  Spread(<<>>, bl) /\ Spread(<<Cast(TheMiner)>>, bl)
<1>1. Spread(<<>>, bl)
  BY DEF Spread, Holders, Apart
<1>2. Cast(TheMiner).node = TheMiner
  BY DEF Cast
<1>3. /\ Len(<<Cast(TheMiner)>>) = 1 /\ <<Cast(TheMiner)>>[1] = Cast(TheMiner)
      /\ \A i, j \in 1..1 : i = 1 /\ ~ (i < j)
  OBVIOUS
<1>4. Spread(<<Cast(TheMiner)>>, bl)
  BY <1>2, <1>3 DEF Spread, Holders, Apart
<1> QED BY <1>1, <1>4

LEMMA CarrySpread ==
  ASSUME OneMines, TypeInv, ChainLinked, FetchInv, SoleInv, WithinWindow,
         RelayInv, Carry(TheMiner)
  PROVE  RelayInv'
<1> DEFINE st == stack[TheMiner]
           new == stack'[TheMiner]
           n == Last(st).node
<1>1. st \in Seq(Frame) /\ st # <<>> /\ n \in Node /\ TheMiner \in Node
  BY SoleForms, MinerIsNode
<1>2. blocks \in [Node -> Seq(Block)]
  BY DEF TypeInv, TypeOK
<1>3. KeepsUp(blocks, blocks)
  BY DEF KeepsUp
<1> USE DEF RelayInv
<1>4. CASE UNCHANGED blocks /\ (new = Front(st) \/ new = st)
  BY <1>1, <1>4, SpreadPopped
<1>5. ASSUME NEW f \in Frame, UNCHANGED blocks,
             f.pc = "cast" => Last(st).pc = "cast" /\ f.node = n
      PROVE  Spread(Append(Front(st), f), blocks)
  BY <1>1, <1>3, <1>5, SpreadReplaced
<1>6. CASE /\ UNCHANGED blocks
           /\ \E f, e \in Frame :
                /\ new = Append(Append(Front(st), f), e)
                /\ f.pc = "cast" /\ Last(st).pc = "cast" /\ f.node = n
                /\ e.pc = "enter"
  <2>1. PICK f, e \in Frame :
                /\ new = Append(Append(Front(st), f), e)
                /\ f.pc = "cast" /\ Last(st).pc = "cast" /\ f.node = n
                /\ e.pc = "enter"
    BY <1>6
  <2>2. Spread(Append(Front(st), f), blocks)
    BY <1>5, <1>6, <2>1
  <2>3. Append(Front(st), f) \in Seq(Frame)
    BY <1>1, ReplaceLast
  <2>4. e.pc # "cast"
    BY <2>1
  <2> QED BY <1>6, <2>1, <2>2, <2>3, <2>4, SpreadPushed
<1>7. CASE /\ n # TheMiner /\ Last(st).pc # "cast"
           /\ Len(blocks[n]) < Len(blocks[TheMiner])
           /\ blocks' = [blocks EXCEPT ![n] = blocks[TheMiner]]
           /\ new = Append(Front(st), Cast(n))
  <2>1. /\ Len(blocks[n]) # Len(blocks[TheMiner])
        /\ blocks'[n] = blocks[TheMiner] /\ blocks'[TheMiner] = blocks[TheMiner]
        /\ \A k \in Node \ {n} : blocks'[k] = blocks[k]
    <3>1. Len(blocks[n]) \in Nat /\ Len(blocks[TheMiner]) \in Nat
      BY <1>1, <1>2
    <3> QED BY <1>1, <1>2, <1>7, <3>1
  <2>2. KeepsUp(blocks, blocks')
    BY <2>1 DEF KeepsUp
  <2>3. Cast(n) \in Frame /\ Cast(n).node = n
    BY <1>1, CastType
  <2>4. Spread(Append(Front(st), Cast(n)), blocks')
    BY <1>1, <2>1, <2>2, <2>3, SpreadReplaced
  <2> QED BY <1>7, <2>4
<1>8. ~ KeepChain(TheMiner)
  BY NoneKept
<1> QED BY <1>4, <1>5, <1>6, <1>7, <1>8, SoleForms

LEMMA NextSpread ==
  ASSUME OneMines
  PROVE  TypeInv /\ ChainLinked /\ FetchInv /\ SoleInv /\ RelayInv
           /\ WithinWindow /\ [Next]_vars => RelayInv'
<1> SUFFICES ASSUME TypeInv, ChainLinked, FetchInv, SoleInv, WithinWindow,
                    RelayInv, [Next]_vars
             PROVE  RelayInv'
  OBVIOUS
<1>1. ASSUME NEW n \in Node, Mine(n) PROVE RelayInv'
  <2>1. n = TheMiner /\ stack[n] = <<>>
    <3>1. mining[n] /\ stack[n] = <<>>
      BY <1>1 DEF Mine, CreateBlock, MinerPanic, AbandonBlock, PublishBlock, HideBlock,
         DropBlock, PublishRefused, PublishSpoiled, Found, Free
    <3> QED BY <3>1 DEF SoleInv
  <2>2. stack \in [Node -> Seq(Frame)]
    BY DEF TypeInv, TypeOK
  <2>3. \/ stack' = stack
        \/ stack' = [stack EXCEPT ![n] = <<Cast(n)>>]
    BY <1>1 DEF Mine, CreateBlock, MinerPanic, AbandonBlock, PublishBlock, HideBlock,
       DropBlock, PublishRefused, PublishSpoiled, Broadcast, callVars
  <2>4. stack'[TheMiner] \in {<<>>, <<Cast(TheMiner)>>}
    BY <2>1, <2>2, <2>3
  <2> QED BY <2>4, SpreadAtRoot DEF RelayInv
<1>2. ASSUME NEW t \in Node, Carry(t) PROVE RelayInv'
  BY <1>2, SoleCarrier, CarrySpread
<1>3. CASE \/ \E n \in Node : AddPeer(n)
           \/ \E x \in Tx : Gossip(x)
           \/ UNCHANGED vars
  BY <1>3 DEF AddPeer, Gossip, SubmitTransaction, AcceptTransaction, RefuseTransaction,
     RelayTransaction, ReturnTransaction, UnchangedByTx, vars, chainVars, callVars, RelayInv
<1> QED BY <1>1, <1>2, <1>3 DEF Next

(* As long as the chain of one honest miner has not outgrown the hashes    *)
(* that travel with a block, no cascade of calls, of any depth and through *)
(* any topology, brings a block back to a node that is relaying it.        *)
THEOREM RelaysOnce ==
  ASSUME OneMines
  PROVE  Spec /\ []WithinWindow => []RelayOnce
<1>1. Init => SoleInv /\ RelayInv
  BY InitSole
<1>2. TypeInv /\ ChainLinked /\ FetchInv /\ SoleInv /\ [Next]_vars => SoleInv'
  BY NextSole
<1>3. TypeInv /\ ChainLinked /\ FetchInv /\ SoleInv /\ RelayInv
        /\ WithinWindow /\ [Next]_vars => RelayInv'
  BY NextSpread
<1>4. SoleInv /\ RelayInv => RelayOnce
  <2> SUFFICES ASSUME SoleInv, RelayInv,
                      NEW t \in Node, NEW i \in DOMAIN stack[t], NEW j \in DOMAIN stack[t],
                      i < j, stack[t][i].pc = "cast", stack[t][j].pc = "cast"
               PROVE  stack[t][i].node # stack[t][j].node
    BY DEF RelayOnce
  <2>1. stack[t] # <<>>
    OBVIOUS
  <2>2. t = TheMiner
    BY <2>1 DEF SoleInv
  <2> QED BY <2>2 DEF RelayInv, Spread, Apart
<1> QED BY <1>1, <1>2, <1>3, <1>4, TypeInvariant, ChainsLinked, FetchesFit, PTL DEF Spec

-----------------------------------------------------------------------------
(***************************************************************************)
(* What a fork switch results in.  A linked chain is known by its end, so  *)
(* that a node that switches gets just the chain whose hashes it was sent. *)
(***************************************************************************)
LEMMA LinkedByEnd ==
  ASSUME NEW c \in Seq(Block), NEW d \in Seq(Block), Linked(c), Linked(d),
         c # <<>>, d # <<>>, Last(c) = Last(d)
  PROVE  c = d
<1>1. /\ Len(c) \in Nat \ {0} /\ Last(c) = c[Len(c)] /\ Last(d) = d[Len(d)]
      /\ Len(c) = Len(d)
  <2>1. /\ Height[Last(c)] = Len(c) - 1 /\ Len(c) \in Nat \ {0}
        /\ Height[Last(d)] = Len(d) - 1 /\ Len(d) \in Nat \ {0}
    BY LinkedEnd
  <2>2. Len(c) = Len(d)
    BY <2>1
  <2>3. Last(c) = c[Len(c)] /\ Last(d) = d[Len(d)]
    BY FrontFacts
  <2> QED BY <2>1, <2>2, <2>3
<1> DEFINE T == {i \in 1..Len(c) : c[i] # d[i]}
<1>2. CASE T = {}
  <2>1. \A i \in 1..Len(c) : c[i] = d[i]
    BY <1>2
  <2> QED BY <1>1, <2>1, SameSequence
<1>3. CASE T # {}
  <2>1. PICK i \in T : \A j \in T : j <= i
    <3>1. T \subseteq 1..Len(c) /\ Len(c) \in Nat
      BY <1>1
    <3> HIDE DEF T
    <3> QED BY <1>3, <3>1, MaxPosition
  <2>2. i \in 1..Len(c) /\ c[i] # d[i] /\ i # Len(c)
    BY <1>1
  <2>3. i + 1 \in 1..Len(c) /\ i + 1 # 1 /\ (i + 1) - 1 = i
    BY <1>1, <2>2
  <2>4. c[i + 1] = d[i + 1]
    <3>1. ASSUME c[i + 1] # d[i + 1] PROVE FALSE
      <4>1. i + 1 \in T
        BY <2>3, <3>1
      <4>2. i + 1 <= i
        BY <2>1, <4>1
      <4> QED BY <2>2, <4>2
    <3> QED BY <3>1
  <2>5. DOMAIN c = 1..Len(c) /\ DOMAIN d = 1..Len(c)
    BY <1>1
  <2>6. PrevHash[c[i + 1]] = c[i] /\ PrevHash[d[i + 1]] = d[i]
    BY <2>3, <2>5 DEF Linked
  <2> QED BY <2>2, <2>4, <2>6
<1> QED BY <1>2, <1>3

(* Two parts of a sequence make it up.                                     *)
LEMMA JoinedIs ==
  ASSUME NEW S, NEW s \in Seq(S), NEW low \in Seq(S), NEW high \in Seq(S),
         Len(s) = Len(low) + Len(high),
         \A i \in 1..Len(low) : s[i] = low[i],
         \A i \in 1..Len(high) : s[Len(low) + i] = high[i]
  PROVE  low \o high = s
<1>1. /\ low \o high \in Seq(S) /\ Len(low \o high) = Len(low) + Len(high)
      /\ \A i \in 1..Len(low) : (low \o high)[i] = low[i]
      /\ \A i \in 1..Len(high) : (low \o high)[Len(low) + i] = high[i]
  BY ConcatFacts
<1>2. ASSUME NEW i \in 1..Len(s) PROVE (low \o high)[i] = s[i]
  <2>1. CASE i \in 1..Len(low)
    BY <1>1, <2>1
  <2>2. CASE i \notin 1..Len(low)
    <3>1. i - Len(low) \in 1..Len(high) /\ Len(low) + (i - Len(low)) = i
      BY <2>2
    <3> QED BY <1>1, <3>1
  <2> QED BY <2>1, <2>2
<1> QED BY <1>1, <1>2, SameSequence

LEMMA ForkGivesChain ==
  ASSUME NEW c \in Seq(Block), Linked(c), NEW s \in Seq(Block), Linked(s),
         NEW got \in Seq(Block), got # <<>>, ValidateBlocks(got),
         Len(got) <= Len(LastHashes(s)),
         \A j \in 1..Len(got) :
            got[j] = LastHashes(s)[Len(LastHashes(s)) - Len(got) + j]
  PROVE  ReplaceWithFork(c, got) \in {<<>>, s}
<1> DEFINE h == LastHashes(s)
           base == RollbackToHash(c, PrevHash[got[1]])
<1>1. PICK a \in Nat :
        /\ a <= Len(s) /\ Len(h) = Len(s) - a
        /\ \A j \in 1..(Len(s) - a) : h[j] = s[a + j]
  BY LastHashesPlace
<1>2. Len(got) \in Nat \ {0} /\ Len(s) \in Nat
  OBVIOUS
<1>3. PICK k \in Nat : k = Len(s) - Len(got)
  <2>1. Len(s) - Len(got) \in Nat
    <3> HIDE DEF h
    <3> QED BY <1>1, <1>2 DEF h
  <2> QED BY <2>1
<1>4. \A j \in 1..Len(got) : got[j] = s[k + j] /\ k + j \in 1..Len(s)
  <2> TAKE j \in 1..Len(got)
  <2>1. Len(got) <= Len(h) /\ got[j] = h[Len(h) - Len(got) + j]
    OBVIOUS
  <2> HIDE DEF h
  <2>2. /\ Len(h) - Len(got) + j \in 1..(Len(s) - a)
        /\ a + (Len(h) - Len(got) + j) = k + j
        /\ k + j \in 1..Len(s)
    BY <1>1, <1>2, <1>3, <2>1
  <2> QED BY <1>1, <2>1, <2>2
<1>5. 1 \in 1..Len(got) /\ got[1] = s[k + 1] /\ k + 1 \in 1..Len(s)
  BY <1>2, <1>4
<1>6. DOMAIN s = 1..Len(s)
  OBVIOUS
<1>7. k # 0
  <2>1. ASSUME k = 0 PROVE FALSE
    <3>1. got[1] = s[1] /\ 1 \in DOMAIN s
      BY <1>5, <1>6, <2>1
    <3>2. got[1] = Genesis
      BY <3>1 DEF Linked
    <3> QED BY <1>5, <3>2 DEF ValidateBlocks, LinkedUpTo, Verify
  <2> QED BY <2>1
<1>8. PrevHash[got[1]] = s[k] /\ k \in 1..Len(s)
  <2>1. k + 1 # 1 /\ (k + 1) - 1 = k /\ k \in 1..Len(s)
    BY <1>5, <1>7
  <2> QED BY <1>5, <1>6, <2>1 DEF Linked
<1>9. CASE base = <<>>
  BY <1>9 DEF ReplaceWithFork
<1>10. CASE base # <<>>
  <2>1. PICK m \in 1..Len(c) : c[m] = s[k] /\ base = SubSeq(c, 1, m)
    BY <1>8, <1>10, RollbackFacts
  <2> DEFINE low == SubSeq(s, 1, k)
  <2>2. /\ base \in Seq(Block) /\ Linked(base) /\ base # <<>> /\ Last(base) = s[k]
    <3>1. base \in Seq(Block) /\ Len(base) = m /\ base[m] = c[m] /\ Linked(base)
      BY <2>1, LinkedPrefix
    <3> QED BY <1>10, <2>1, <3>1, FrontFacts
  <2>3. /\ low \in Seq(Block) /\ Linked(low) /\ low # <<>> /\ Last(low) = s[k]
        /\ Len(low) = k /\ \A i \in 1..k : low[i] = s[i]
    <3>1. /\ low \in Seq(Block) /\ Len(low) = k /\ Linked(low)
          /\ \A i \in 1..k : low[i] = s[i]
      BY <1>8, LinkedPrefix
    <3>2. low # <<>>
      BY <1>7, <3>1
    <3>3. k \in 1..k
      BY <1>7
    <3> HIDE DEF low
    <3> QED BY <3>1, <3>2, <3>3, FrontFacts
  <2> HIDE DEF base, low
  <2>4. base = low
    BY <2>2, <2>3, LinkedByEnd
  <2>5. ReplaceWithFork(c, got) = low \o got
    BY <1>10, <2>4 DEF ReplaceWithFork, base
  <2>6. low \o got = s
    <3>1. Len(s) = Len(low) + Len(got)
      BY <1>2, <1>3, <2>3
    <3>2. \A i \in 1..Len(got) : s[Len(low) + i] = got[i]
      BY <1>4, <2>3
    <3>3. \A i \in 1..Len(low) : s[i] = low[i]
      BY <2>3
    <3> QED BY <2>3, <3>1, <3>2, <3>3, JoinedIs
  <2> QED BY <2>5, <2>6
<1> QED BY <1>9, <1>10

-----------------------------------------------------------------------------
(***************************************************************************)
(* What a mode 3 miner hides.  Its blocks are secret until the chain they  *)
(* are on is released.  A node may have them on its own chain; what it     *)
(* announces is open: no secret, or released.  And a mode 3 node takes     *)
(* nothing below the height of the release, so that the block it works on  *)
(* is one AddBlock takes for as long as it is not late.                    *)
(***************************************************************************)
Secret(b) == /\ b # Genesis /\ Mode[MinerOf[b]] = 3
             /\ Height[b] > 1 /\ Height[b] < ForkRelease

Released(c) == Len(c) > ForkRelease

Kept(n, c) ==
  \A i \in DOMAIN c : Secret(c[i]) /\ MinerOf[c[i]] # n => Released(c)

Open(c) == \A i \in DOMAIN c : Secret(c[i]) => Released(c)

(* The chain whose hashes travel with a block that is not spoiled.         *)
Shown(m, c) == /\ Linked(c) /\ m.hashes = LastHashes(c) /\ Open(c)
               /\ Height[m.block] >= ForkRelease => Released(c)

Announced(m) == /\ ~ Secret(m.block) /\ Height[m.block] >= 1
                /\ \E c \in Seq(Block) : Shown(m, c)

(* The forks that are followed.                                            *)
Allowed(m) ==
  {f \in Frame : f.pc = "fetch" =>
                   m.intact /\ (Mode[f.node] = 3 => Height[m.block] >= ForkRelease)}

Settled(n) ==
  Mode[n] = 3 /\ cand[n] # Nil =>
     \/ blocks[n] = <<>> \/ Stale(n) \/ Released(blocks[n])
     \/ AddBlockOK(n, cand[n])

Working(n) == cand[n] # Nil => Height[cand[n]] >= 1

(* The stacks, and what they carry. *)
CallsHide ==
  /\ \A t \in Node : stack[t] # <<>> /\ msg[t].intact => Announced(msg[t])
  /\ \A t \in Node : stack[t] \in Seq(Allowed(msg[t]))

HideInv ==
  /\ \A n \in Node : Kept(n, blocks[n]) /\ Settled(n) /\ Working(n)
  /\ CallsHide

(* What the other invariants add.                                         *)
HideBase == TypeInv /\ ChainLinked /\ FetchInv /\ OwnCandidate

LEMMA InitHide == Init => HideInv
<1> SUFFICES ASSUME Init PROVE HideInv
  OBVIOUS
<1>1. \A n \in Node : Kept(n, blocks[n])
  BY DEF Init, Kept, Secret
<1>2. \A n \in Node : Settled(n) /\ Working(n)
  BY DEF Init, Settled, Working
<1> QED BY <1>1, <1>2 DEF Init, HideInv, CallsHide

(* What the miner adds to its chain and shows is open.                     *)
LEMMA ShownIsOpen ==
  ASSUME HideBase, HideInv, NEW n \in Node, PublishBlock(n)
  PROVE  /\ Open(Append(blocks[n], cand[n]))
         /\ Linked(Append(blocks[n], cand[n]))
         /\ Append(blocks[n], cand[n]) \in Seq(Block)
         /\ ~ Secret(cand[n])
         /\ Height[cand[n]] >= ForkRelease => Released(Append(blocks[n], cand[n]))
<1> DEFINE b == cand[n]
           c == blocks[n]
           d == Append(c, b)
<1>1. /\ b \in Block /\ b # Genesis /\ c \in Seq(Block) /\ c # <<>> /\ Linked(c)
      /\ Connects(c, b) /\ MinerOf[b] = n /\ Kept(n, c) /\ ~ Hidden(n)
  BY ChainAssumption DEF PublishBlock, Found, AddBlockOK, HideBase, HideInv, ChainLinked,
     OwnCandidate, TypeInv, TypeOK
<1>2. /\ d \in Seq(Block) /\ Len(d) = Len(c) + 1
      /\ \A i \in 1..Len(c) : d[i] = c[i]
      /\ d[Len(c) + 1] = b
  BY <1>1, AppendFacts
<1>3. Linked(d)
  BY <1>1, ConnectsLinked
<1>4. Height[b] = Len(c) /\ Len(c) \in Nat
  BY <1>1, LinkedEnd DEF Connects
<1>5. ~ Secret(b)
  BY <1>1 DEF Secret, Hidden
<1>6. ForkRelease \in Nat
  BY NetworkAssumption
<1> HIDE DEF b, c, d
<1>7. Height[b] >= ForkRelease => Released(d)
  BY <1>2, <1>4, <1>6 DEF Released
<1>8. ASSUME NEW i \in DOMAIN d, Secret(d[i]) PROVE Released(d)
  <2>1. DOMAIN d = 1..(Len(c) + 1)
    BY <1>2
  <2>2. i \in 1..Len(c) /\ d[i] = c[i]
    BY <1>2, <1>4, <1>5, <1>8, <2>1
  <2>3. CASE MinerOf[c[i]] # n
    <3>1. Released(c)
      BY <1>1, <1>8, <2>2, <2>3 DEF Kept
    <3> QED BY <1>2, <1>4, <1>6, <3>1 DEF Released
  <2>4. CASE MinerOf[c[i]] = n
    <3>1. Mode[n] = 3 /\ Height[c[i]] > 1 /\ Height[c[i]] = i - 1
      BY <1>1, <1>8, <2>2, <2>4 DEF Secret, Linked
    <3>2. Height[b] > 1
      BY <1>4, <2>2, <3>1
    <3>3. Height[b] >= ForkRelease
      BY <1>1, <1>4, <1>6, <3>1, <3>2 DEF Hidden, b
    <3> QED BY <1>7, <3>3
  <2> QED BY <2>3, <2>4
<1> QED BY <1>2, <1>3, <1>5, <1>7, <1>8 DEF Open, b, c, d

LEMMA KeptAppend ==
  ASSUME NEW n, NEW c \in Seq(Block), Kept(n, c), NEW b \in Block,
         Secret(b) => MinerOf[b] = n
  PROVE  Kept(n, Append(c, b))
<1> DEFINE d == Append(c, b)
<1>1. /\ d \in Seq(Block) /\ Len(d) = Len(c) + 1 /\ Len(c) \in Nat
      /\ \A i \in 1..Len(c) : d[i] = c[i]
      /\ d[Len(c) + 1] = b
  BY AppendFacts
<1> HIDE DEF d
<1>2. ASSUME NEW i \in DOMAIN d, Secret(d[i]), MinerOf[d[i]] # n PROVE Released(d)
  <2>1. i \in 1..Len(c) \/ i = Len(c) + 1
    BY <1>1
  <2>2. i \in 1..Len(c) /\ d[i] = c[i]
    BY <1>1, <1>2, <2>1
  <2>3. Released(c)
    BY <1>2, <2>2 DEF Kept
  <2> QED BY <1>1, <2>3, NetworkAssumption DEF Released
<1> QED BY <1>2 DEF Kept, d

(* The nodes a step does not touch.                                       *)
LEMMA OthersHide ==
  ASSUME HideInv, NEW m \in Node,
         blocks'[m] = blocks[m], utxos'[m] = utxos[m], cand'[m] = cand[m]
  PROVE  Kept(m, blocks'[m]) /\ Settled(m)' /\ Working(m)'
<1>1. Kept(m, blocks[m]) /\ Settled(m) /\ Working(m)
  BY DEF HideInv, CallsHide
<1> QED BY <1>1 DEF Kept, Settled, Working, Stale, AddBlockOK, Released

LEMMA MineHides ==
  ASSUME HideBase, HideInv, NEW n \in Node, Mine(n), NEW m \in Node
  PROVE  Kept(m, blocks'[m]) /\ Settled(m)' /\ Working(m)'
<1> USE DEF chainVars, minerVars
<1>0. /\ blocks \in [Node -> Seq(Block)] /\ utxos \in [Node -> UTXOSet]
      /\ cand \in [Node -> (Block \ {Genesis}) \cup {Nil}]
      /\ Kept(m, blocks[m]) /\ Linked(blocks[m])
  BY DEF HideBase, HideInv, ChainLinked, TypeInv, TypeOK
<1>1. CASE m # n
  <2>1. blocks'[m] = blocks[m] /\ utxos'[m] = utxos[m] /\ cand'[m] = cand[m]
    BY <1>0, <1>1 DEF Mine, CreateBlock, MinerPanic, AbandonBlock, PublishBlock, HideBlock,
       DropBlock, PublishRefused, PublishSpoiled, Found, AddBlock
  <2> QED BY <2>1, OthersHide
<1>2. CASE m = n /\ UNCHANGED <<blocks, utxos, cand>>
  BY <1>2, OthersHide
<1>3. CASE m = n /\ CreateBlock(n)
  <2>1. PICK x \in Spendable(n), b \in CreatedOn(blocks[n]) :
          TxOf[b] = x /\ cand' = [cand EXCEPT ![n] = b]
    BY <1>3 DEF CreateBlock
  <2>2. /\ blocks[n] \in Seq(Block) /\ blocks[n] # <<>> /\ Linked(blocks[n])
        /\ UNCHANGED <<blocks, utxos>>
    BY <1>0, <1>3 DEF CreateBlock
  <2>3. /\ Height[Last(blocks[n])] = Len(blocks[n]) - 1 /\ Len(blocks[n]) \in Nat \ {0}
        /\ Last(blocks[n]) \in Block
    BY <2>2, LinkedEnd, FrontFacts
  <2>4. /\ b \in Block \ {Genesis} /\ PrevHash[b] = Last(blocks[n])
        /\ Height[b] = Len(blocks[n])
    BY <2>3, ChainAssumption DEF CreatedOn
  <2>5. AddBlockOK(n, b)
    BY <2>1, <2>3, <2>4 DEF AddBlockOK, Connects, Verify, Spendable
  <2>6. cand'[n] = b
    BY <1>0, <2>1
  <2> QED BY <1>0, <1>3, <2>2, <2>3, <2>4, <2>5, <2>6
          DEF Settled, Working, AddBlockOK
<1>4. CASE m = n /\ cand' = [cand EXCEPT ![n] = Nil]
  <2>1. cand'[n] = Nil
    BY <1>0, <1>4
  <2>2. Settled(n)' /\ Working(n)'
    BY <2>1 DEF Settled, Working
  <2>3. CASE UNCHANGED blocks
    BY <1>0, <1>4, <2>2, <2>3
  <2>4. CASE Found(n) /\ AddBlock(n, cand[n])
    <3>1. blocks'[n] = Append(blocks[n], cand[n])
      BY <1>0, <2>4 DEF AddBlock
    <3>2. cand[n] \in Block /\ MinerOf[cand[n]] = n
      BY <1>0, <2>4 DEF Found, HideBase, OwnCandidate
    <3>3. blocks[n] \in Seq(Block)
      BY <1>0
    <3>4. Kept(n, Append(blocks[n], cand[n]))
      BY <1>0, <1>4, <3>2, <3>3, KeptAppend
    <3> QED BY <1>4, <2>2, <3>1, <3>4
  <2> QED BY <1>4, <2>3, <2>4 DEF Mine, CreateBlock, MinerPanic, AbandonBlock,
             PublishBlock, HideBlock, DropBlock, PublishRefused, PublishSpoiled
<1> QED BY <1>1, <1>2, <1>3, <1>4 DEF Mine, MinerPanic, AbandonBlock, PublishBlock,
           HideBlock, DropBlock, PublishRefused, PublishSpoiled, Found

LEMMA NewFramesAllowed ==
  ASSUME TypeInv, NEW n \in Node, NEW m
  PROVE  Cast(n) \in Allowed(m) /\ Enter(n) \in Allowed(m)
<1>1. Cast(n) \in Frame /\ Enter(n) \in Frame
  BY CastType
<1> QED BY <1>1 DEF Cast, Enter, Allowed

LEMMA MineCallsHide ==
  ASSUME HideBase, HideInv, NEW n \in Node, Mine(n)
  PROVE  CallsHide'
<1>0. /\ stack \in [Node -> Seq(Frame)] /\ msg \in [Node -> Message \cup {Nil}]
      /\ blocks \in [Node -> Seq(Block)] /\ Linked(blocks[n])
      /\ Settled(n) /\ Working(n)
  BY DEF HideBase, HideInv, ChainLinked, TypeInv, TypeOK
<1>1. CASE UNCHANGED callVars
  BY <1>1 DEF HideInv, CallsHide, Announced, Shown, Open, Released, Secret, Allowed, callVars
<1>2. ASSUME NEW intact, NEW chain, Broadcast(n, cand[n], intact, chain), Found(n),
             intact => /\ ~ Secret(cand[n]) /\ chain \in Seq(Block)
                       /\ Linked(chain) /\ Open(chain)
                       /\ Height[cand[n]] >= ForkRelease => Released(chain)
      PROVE  CallsHide'
  <2> DEFINE m == [block |-> cand[n], intact |-> intact, hashes |-> LastHashes(chain)]
  <2>1. msg' = [msg EXCEPT ![n] = m] /\ stack' = [stack EXCEPT ![n] = <<Cast(n)>>]
    BY <1>2 DEF Broadcast
  <2>2. m.intact => Announced(m)
    <3>1. Height[cand[n]] >= 1
      BY <1>0, <1>2 DEF Found, Working
    <3>2. m.block = cand[n] /\ m.hashes = LastHashes(chain) /\ m.intact = intact
      OBVIOUS
    <3> HIDE DEF m
    <3> QED BY <1>2, <3>1, <3>2 DEF Announced, Shown
  <2>3. <<Cast(n)>> \in Seq(Allowed(m))
    BY NewFramesAllowed DEF HideBase
  <2> HIDE DEF m
  <2>4. ASSUME NEW u \in Node
        PROVE  /\ stack'[u] # <<>> /\ msg'[u].intact => Announced(msg'[u])
               /\ stack'[u] \in Seq(Allowed(msg'[u]))
    <3>1. CASE u # n
      BY <1>0, <2>1, <3>1 DEF HideInv, CallsHide
    <3>2. CASE u = n
      BY <1>0, <2>1, <2>2, <2>3, <3>2
    <3> QED BY <3>1, <3>2
  <2> QED BY <2>4 DEF CallsHide, Announced, Shown, Open, Released, Secret, Allowed
<1>3. CASE PublishBlock(n)
  <2>1. /\ Found(n) /\ Broadcast(n, cand[n], TRUE, Append(blocks[n], cand[n]))
    BY <1>3 DEF PublishBlock
  <2> QED BY <1>2, <1>3, <2>1, ShownIsOpen
<1>4. CASE PublishRefused(n)
  <2>1. /\ Found(n) /\ Broadcast(n, cand[n], TRUE, blocks[n])
        /\ Mode[n] = 3 /\ ~ Hidden(n) /\ ~ AddBlockOK(n, cand[n])
        /\ cand[n] # Nil /\ blocks[n] # <<>> /\ ~ Stale(n)
    BY <1>4 DEF PublishRefused, Found
  <2>2. Released(blocks[n])
    BY <1>0, <2>1 DEF Settled
  <2>3. MinerOf[cand[n]] = n
    BY <2>1 DEF HideBase, OwnCandidate
  <2>4. ~ Secret(cand[n])
    BY <2>1, <2>3 DEF Secret, Hidden
  <2>5. Open(blocks[n]) /\ blocks[n] \in Seq(Block)
    BY <1>0, <2>2 DEF Open
  <2> QED BY <1>0, <1>2, <2>1, <2>2, <2>4, <2>5
<1>5. CASE PublishSpoiled(n)
  <2>1. Found(n) /\ Broadcast(n, cand[n], FALSE, blocks[n])
    BY <1>5 DEF PublishSpoiled
  <2> QED BY <1>2, <2>1
<1> QED BY <1>1, <1>3, <1>4, <1>5 DEF Mine, CreateBlock, MinerPanic, AbandonBlock,
           HideBlock, DropBlock, callVars

(* What the handler of a block that is not spoiled knows.                  *)
LEMMA AnnouncedAtTop ==
  ASSUME HideBase, HideInv, NEW t \in Node, stack[t] # <<>>
  PROVE  /\ msg[t].intact => Announced(msg[t])
         /\ Top(t) \in Allowed(msg[t])
         /\ stack[t] \in Seq(Allowed(msg[t]))
<1>1. /\ stack[t] \in Seq(Allowed(msg[t]))
      /\ msg[t].intact => Announced(msg[t])
  BY DEF HideInv, CallsHide
<1>2. Last(stack[t]) \in Allowed(msg[t])
  BY <1>1, FrontFacts
<1> QED BY <1>1, <1>2 DEF Top

LEMMA CarryCallsHide ==
  ASSUME HideBase, HideInv, NEW t \in Node, Carry(t)
  PROVE  CallsHide'
<1> DEFINE m == msg[t]
           S == Allowed(m)
<1>0. /\ stack \in [Node -> Seq(Frame)] /\ stack[t] # <<>>
      /\ stack[t] \in Seq(S) /\ Top(t) \in S /\ (m.intact => Announced(m))
      /\ TypeInv /\ Handler(t) \in Node
  BY CarryForms, AnnouncedAtTop, TopFacts DEF HideBase, TypeInv, TypeOK
<1>1. /\ \A u \in Node \ {t} : stack'[u] = stack[u] /\ msg'[u] = msg[u]
      /\ stack'[t] # <<>> => msg'[t] = m
  BY CarryEffects DEF HideBase
<1>2. ASSUME stack'[t] \in Seq(S) PROVE CallsHide'
  <2>1. ASSUME NEW u \in Node
        PROVE  /\ stack'[u] # <<>> /\ msg'[u].intact => Announced(msg'[u])
               /\ stack'[u] \in Seq(Allowed(msg'[u]))
    <3>1. CASE u # t
      BY <1>1, <3>1 DEF HideInv, CallsHide
    <3>2. CASE u = t /\ stack'[t] # <<>>
      BY <1>0, <1>1, <1>2, <3>2
    <3>3. CASE u = t /\ stack'[t] = <<>>
      BY <3>3
    <3> QED BY <3>1, <3>2, <3>3
  <2> QED BY <2>1 DEF CallsHide, Announced, Shown, Open, Released, Secret, Allowed
<1>3. ASSUME NEW f \in S, ReplaceTop(t, f) PROVE stack'[t] \in Seq(S)
  BY <1>0, <1>3, TopReplaced
<1>4. ASSUME Pop(t) PROVE stack'[t] \in Seq(S)
  BY <1>0, <1>4, Popped
<1>5. CASE UNCHANGED stack
  BY <1>0, <1>2, <1>5
<1>6. CASE \E f \in Frame : ReplaceTop(t, f) /\ f.node = Handler(t) /\ f.pc = Top(t).pc
  <2>1. PICK f \in Frame : ReplaceTop(t, f) /\ f.node = Handler(t) /\ f.pc = Top(t).pc
    BY <1>6
  <2>2. f \in S
    BY <1>0, <2>1 DEF Allowed, Handler
  <2> QED BY <1>2, <1>3, <2>1, <2>2
<1>7. CASE CallPeer(t)
  <2>1. PICK p \in Top(t).todo :
          stack' = [stack EXCEPT ![t] = Append(Append(Front(@), CalledPeer(t, p)), Enter(p))]
    BY <1>7 DEF CallPeer
  <2>2. p \in Node /\ Top(t).pc = "cast"
    BY <1>0, <1>7, TopFacts DEF CallPeer, At, Frame
  <2>3. CalledPeer(t, p) \in S /\ Enter(p) \in S
    <3>1. CalledPeer(t, p) \in Frame /\ CalledPeer(t, p).pc = Top(t).pc
      BY <1>0, CalledPeerType
    <3>2. CalledPeer(t, p) \in S
      BY <2>2, <3>1 DEF Allowed
    <3> QED BY <1>0, <2>2, <3>2, NewFramesAllowed
  <2> HIDE DEF S
  <2>4. Append(Front(stack[t]), CalledPeer(t, p)) \in Seq(S)
    BY <1>0, <2>3, ReplaceLast
  <2>5. Append(Append(Front(stack[t]), CalledPeer(t, p)), Enter(p)) \in Seq(S)
    BY <2>3, <2>4, AppendFacts
  <2>6. stack'[t] \in Seq(S)
    BY <1>0, <2>1, <2>5
  <2> QED BY <1>2, <2>6 DEF S
<1>8. CASE KeepChain(t) \/ ExtendChain(t)
  BY <1>0, <1>2, <1>3, <1>8, NewFramesAllowed DEF KeepChain, ExtendChain
<1>9. CASE BeginFork(t)
  <2> DEFINE n == Handler(t)
             want == MissingHashes(m.hashes, CommonAncestor(blocks[n], m.hashes))
             f == [node |-> n, pc |-> "fetch", todo |-> peers[n], want |-> want, got |-> <<>>]
  <2>1. /\ ReplaceTop(t, f) /\ m.intact /\ ~ Ignored(t) /\ m \in Message
    BY <1>0, <1>9, TopFacts DEF BeginFork, Fork, Elsewhere, Verified, Received
  <2>2. want \in Seq(Block) /\ peers[n] \in SUBSET Node
    <3>1. m.hashes \in Seq(Block)
      BY <2>1 DEF Message
    <3> QED BY <1>0, <3>1, MissingHashesFacts DEF TypeInv, TypeOK
  <2>3. Mode[n] = 3 => Height[m.block] >= ForkRelease
    <3>1. Height[m.block] >= 1 /\ Height[m.block] \in Nat /\ ForkRelease \in Nat
      BY <1>0, <2>1, ChainAssumption, NetworkAssumption DEF Announced, Message
    <3> QED BY <2>1, <3>1 DEF Ignored
  <2> HIDE DEF want
  <2>4. f \in Frame /\ f.node = n
    BY <1>0, <2>2 DEF Frame
  <2> HIDE DEF f
  <2>5. f \in S
    BY <2>1, <2>3, <2>4 DEF Allowed
  <2> QED BY <1>2, <1>3, <2>1, <2>5
<1>10. CASE FinishFork(t)
  <2>1. ReplaceTop(t, Cast(Handler(t))) \/ Pop(t)
    BY <1>10 DEF FinishFork
  <2> QED BY <1>0, <1>2, <1>3, <1>4, <2>1, NewFramesAllowed
<1> QED BY <1>2, <1>4, <1>5, <1>6, <1>7, <1>8, <1>9, <1>10, CarryForms DEF HideBase

(* A handler adds what is no secret; and where it mines in mode 3, the     *)
(* block that releases its chain or one above.                             *)
LEMMA ExtendHides ==
  ASSUME HideBase, HideInv, NEW t \in Node, ExtendChain(t), NEW m \in Node
  PROVE  Kept(m, blocks'[m]) /\ Settled(m)' /\ Working(m)'
<1> DEFINE n == Handler(t)
           b == msg[t].block
           c == blocks[n]
<1>1. /\ At(t, "enter") /\ msg[t].intact /\ ~ Ignored(t) /\ c # <<>>
      /\ AddBlockOK(n, b) /\ AddBlock(n, b) /\ UNCHANGED cand
  BY DEF ExtendChain, Extends, Verified, Received, minerVars
<1>2. /\ n \in Node /\ b \in Block /\ c \in Seq(Block) /\ Linked(c) /\ Kept(n, c)
      /\ stack[t] # <<>> /\ Working(n)
      /\ blocks \in [Node -> Seq(Block)] /\ utxos \in [Node -> UTXOSet]
  BY <1>1, EnterFacts DEF HideBase, HideInv, ChainLinked, Message, TypeInv, TypeOK
<1>3. ~ Secret(b) /\ Height[b] >= 1
  BY <1>1, <1>2, AnnouncedAtTop DEF Announced
<1>4. CASE m # n
  <2>1. blocks'[m] = blocks[m] /\ utxos'[m] = utxos[m] /\ cand'[m] = cand[m]
    BY <1>1, <1>2, <1>4 DEF AddBlock
  <2> QED BY <2>1, OthersHide
<1>5. CASE m = n
  <2>1. blocks'[m] = Append(c, b)
    BY <1>1, <1>2, <1>5 DEF AddBlock
  <2>2. Kept(m, Append(c, b))
    BY <1>2, <1>3, <1>5, KeptAppend
  <2>3. ASSUME Mode[m] = 3 PROVE Released(Append(c, b))
    <3>1. Height[b] = Len(c) /\ Len(c) \in Nat
      BY <1>1, <1>2, LinkedEnd DEF AddBlockOK, Connects
    <3>2. Height[b] >= ForkRelease /\ ForkRelease \in Nat
      BY <1>1, <1>3, <1>5, <2>3, <3>1, NetworkAssumption DEF Ignored
    <3>3. Len(Append(c, b)) = Len(c) + 1
      BY <1>2, AppendFacts
    <3> QED BY <3>1, <3>2, <3>3 DEF Released
  <2>4. Settled(m)'
    BY <2>1, <2>3 DEF Settled, Released
  <2>5. Working(m)'
    BY <1>1, <1>2, <1>5 DEF Working
  <2> QED BY <2>1, <2>2, <2>4, <2>5
<1> QED BY <1>4, <1>5

(* A node that switches ends up with nothing or with the chain whose       *)
(* hashes it was sent, which is open.                                      *)
LEMMA ForkHides ==
  ASSUME HideBase, HideInv, NEW t \in Node, FinishFork(t), NEW m \in Node
  PROVE  Kept(m, blocks'[m]) /\ Settled(m)' /\ Working(m)'
<1> DEFINE n == Handler(t)
           c == blocks[n]
           h == msg[t].hashes
           got == Top(t).got
           valid == got # <<>> /\ ValidateBlocks(got)
           chain == IF valid THEN ReplaceWithFork(c, got) ELSE c
<1>1. /\ stack[t] # <<>> /\ Top(t).pc = "fetch" /\ Top(t).want = <<>>
      /\ blocks' = [blocks EXCEPT ![n] = chain] /\ UNCHANGED <<cand, utxos>>
  BY DEF FinishFork, Fetched, At, minerVars
<1>2. /\ n \in Node /\ Top(t) \in Frame /\ c \in Seq(Block) /\ Linked(c)
      /\ blocks \in [Node -> Seq(Block)]
  BY <1>1, TopFacts DEF HideBase, ChainLinked, TypeInv, TypeOK
<1>3. CASE m # n \/ ~ valid
  <2>1. blocks'[m] = blocks[m] /\ utxos'[m] = utxos[m] /\ cand'[m] = cand[m]
    BY <1>1, <1>2, <1>3
  <2> QED BY <2>1, OthersHide
<1>4. CASE m = n /\ valid
  <2>1. /\ Announced(msg[t])
        /\ Mode[n] = 3 => Height[msg[t].block] >= ForkRelease
    BY <1>1, AnnouncedAtTop DEF Allowed, Handler
  <2>2. PICK s \in Seq(Block) : Shown(msg[t], s)
    BY <2>1 DEF Announced
  <2>3. got \in Seq(Block) /\ got # <<>> /\ ValidateBlocks(got)
    <3>1. got \in Seq(Block \cup {Nil})
      BY <1>2 DEF Frame
    <3> QED BY <1>4, <3>1, ValidBlocks
  <2>4. /\ Len(got) <= Len(h)
        /\ \A j \in 1..Len(got) : got[j] = h[Len(h) - Len(got) + j]
    <3>1. Top(t) \in Fitting(h)
      <4>1. stack[t] \in Seq(Fitting(h))
        BY DEF HideBase, FetchInv
      <4> QED BY <1>1, <4>1, FrontFacts DEF Top
    <3>2. Fits(<<>> \o got, h)
      BY <1>1, <3>1 DEF Fitting
    <3>3. <<>> \o got = got /\ DOMAIN got = 1..Len(got)
      BY <2>3
    <3>4. \A j \in 1..Len(got) : got[j] # Nil
      BY <2>3, ChainAssumption
    <3> HIDE DEF got
    <3> QED BY <3>2, <3>3, <3>4 DEF Fits
  <2>5. Linked(s) /\ h = LastHashes(s) /\ Open(s)
    BY <2>2 DEF Shown
  <2>6. ReplaceWithFork(c, got) \in {<<>>, s}
    <3> HIDE DEF got, h, c
    <3> QED BY <1>2, <2>3, <2>4, <2>5, ForkGivesChain DEF c
  <2>7. blocks'[m] \in {<<>>, s}
    BY <1>1, <1>2, <1>4, <2>6
  <2>8. Kept(m, blocks'[m])
    BY <2>5, <2>7 DEF Kept, Open
  <2>9. Settled(m)'
    <3>1. Mode[m] = 3 => Released(s)
      BY <1>4, <2>1, <2>2 DEF Shown
    <3> QED BY <2>7, <3>1 DEF Settled, Released
  <2>10. Working(m)'
    BY <1>1 DEF HideInv, Working
  <2> QED BY <2>8, <2>9, <2>10
<1> QED BY <1>3, <1>4

LEMMA NextHides == HideBase /\ HideInv /\ [Next]_vars => HideInv'
<1> SUFFICES ASSUME HideBase, HideInv, [Next]_vars PROVE HideInv'
  OBVIOUS
<1>1. CASE \E n \in Node : Mine(n)
  BY <1>1, MineHides, MineCallsHide DEF HideInv, CallsHide
<1>2. CASE \E t \in Node : Carry(t)
  <2>1. PICK t \in Node : Carry(t)
    BY <1>2
  <2>2. CASE ExtendChain(t) \/ FinishFork(t)
    BY <2>1, <2>2, ExtendHides, ForkHides, CarryCallsHide DEF HideInv, CallsHide
  <2>3. CASE UNCHANGED <<blocks, utxos, cand>>
    <3>1. \A m \in Node : Kept(m, blocks'[m]) /\ Settled(m)' /\ Working(m)'
      BY <2>3, OthersHide
    <3> QED BY <2>1, <3>1, CarryCallsHide DEF HideInv, CallsHide
  <2> QED BY <2>1, <2>2, <2>3 DEF Carry, CallPeer, CallFails, Return, EndBroadcast, Unwind,
         Reply, RefuseBlacklisted, IgnoreBlock, RejectInvalid, ReceivePanic, RefuseBlock,
         RefuseDuplicate, RefuseUnconnected, KeepChain, BeginFork, PeerAnswers, PeerHasNot,
         NobodyHas, ForkPanic, chainVars, minerVars
<1>3. CASE UNCHANGED <<chainVars, minerVars, callVars>>
  <2>1. \A m \in Node : Kept(m, blocks'[m]) /\ Settled(m)' /\ Working(m)'
    BY <1>3, OthersHide DEF chainVars, minerVars
  <2>2. CallsHide'
    BY <1>3 DEF HideInv, CallsHide, Announced, Shown, Open, Released, Secret, Allowed, callVars
  <2> QED BY <2>1, <2>2 DEF HideInv, CallsHide
<1> QED BY <1>1, <1>2, <1>3 DEF Next, AddPeer, Gossip, SubmitTransaction,
       AcceptTransaction, RefuseTransaction, RelayTransaction, ReturnTransaction,
       UnchangedByTx, vars

(* Whatever the network, however many miners hide, and whatever blocks and *)
(* forks cross: no node has a hidden block of another before the chain it  *)
(* is on is released, not through a fork and not by asking for blocks.     *)
THEOREM HiddenStayHidden == Spec => []Withheld
<1>1. TypeInv /\ ChainLinked /\ FetchInv /\ SpoilInv => HideBase
  BY DEF HideBase, SpoilInv
<1>2. HideInv => Withheld
  <2> SUFFICES ASSUME HideInv, NEW m \in Node, NEW n \in Node, NEW i \in DOMAIN blocks[n],
                      m # n, Mode[m] = 3, blocks[n][i] # Genesis, MinerOf[blocks[n][i]] = m,
                      Height[blocks[n][i]] > 1, Height[blocks[n][i]] < ForkRelease
               PROVE  Len(blocks[n]) > ForkRelease
    BY DEF Withheld
  <2>1. Kept(n, blocks[n])
    BY DEF HideInv, CallsHide
  <2> QED BY <2>1 DEF Kept, Secret, Released
<1> QED BY <1>1, <1>2, InitHide, NextHides, TypeInvariant, ChainsLinked, FetchesFit,
           SpoilSafe, PTL DEF Spec
=============================================================================
