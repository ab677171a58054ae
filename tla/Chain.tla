------------------------------- MODULE Chain --------------------------------
(***************************************************************************)
(* The block list of a node and the algorithms on it                       *)
(* (internal/blockchain/blockchain.go).                                    *)
(*                                                                         *)
(* A block is identified with its hash.  The hash covers the previous hash,*)
(* the height, the content and the nonce, so the header fields are         *)
(* constant functions of the block.  The genesis block is the same at      *)
(* every node: NewBlock leaves its hash empty, which is also the previous  *)
(* hash it carries.                                                        *)
(***************************************************************************)
EXTENDS Ledger, Sequences, SequencesExt

CONSTANTS Node,
          Block, Genesis,
          PrevHash, Height,   \* header fields
          Children,           \* the blocks that can be mined on a block
          MinerOf, TxOf,      \* whose block it is, and the transaction in it
          HashWindow,         \* 100: how many hashes travel with a block
          Nil                 \* the Go nil

ASSUME ChainAssumption ==
  /\ Genesis \in Block
  /\ PrevHash \in [Block -> Block]
  /\ PrevHash[Genesis] = Genesis
  /\ Height \in [Block -> Nat]
  /\ Height[Genesis] = 0
  /\ Children \in [Block -> SUBSET (Block \ {Genesis})]
  /\ \A b \in Block : \A c \in Children[b] : PrevHash[c] = b
  /\ MinerOf \in [Block \ {Genesis} -> Node]
  /\ TxOf \in [Block \ {Genesis} -> Tx]
  /\ HashWindow \in Nat \ {0}
  /\ Nil \notin Block

(* CreateBlock: on the last block of the chain, at the height of its length. *)
CreatedOn(c) == {b \in Children[Last(c)] : Height[b] = Len(c)}

(* Block.Verify: all hashes right and below the target.  The genesis block *)
(* never had its hash computed and fails it.                               *)
Verify(b) == b # Genesis

OnChain(c, b) == \E i \in DOMAIN c : c[i] = b

HasTransaction(c, tx) ==
  \E i \in DOMAIN c : c[i] # Genesis /\ TxOf[c[i]] = tx

(* Depth 1 is the last block; -1 when the chain does not hold tx. *)
TransactionDepth(c, tx) ==
  IF HasTransaction(c, tx)
  THEN Len(c) + 1 - Max({i \in DOMAIN c : c[i] # Genesis /\ TxOf[c[i]] = tx})
  ELSE -1

LastHashes(c) ==
  SubSeq(c, IF Len(c) > HashWindow THEN Len(c) - HashWindow + 1 ELSE 1, Len(c))

(* What AddBlock asks of a block before it looks at the transactions. *)
Connects(c, b) ==
  /\ Verify(b)
  /\ c # <<>> => /\ PrevHash[b] = Last(c)
                 /\ Height[b] = Height[Last(c)] + 1

(* The block of the chain that is highest among the hashes received. *)
Common(c, hashes) == {i \in DOMAIN c : OnChain(hashes, c[i])}
CommonAncestor(c, hashes) == c[Max(Common(c, hashes))]

(* ComputeWork counts all the hashes it is given, those before the common  *)
(* ancestor too, on both sides.                                            *)
Work(hashes) == Len(hashes)

Positions(s, b) == {i \in DOMAIN s : s[i] = b}

(* The hashes RequestMissingBlocks asks for: from the end back to start.   *)
MissingHashes(hashes, start) ==
  IF Positions(hashes, start) = {} THEN hashes
  ELSE SubSeq(hashes, Max(Positions(hashes, start)) + 1, Len(hashes))

(* ValidateBlocks compares no previous hash for the first block.           *)
LinkedUpTo(s, k) ==
  \A i \in 1..k : /\ s[i] # Nil
                  /\ Verify(s[i])
                  /\ i > 1 => PrevHash[s[i]] = s[i-1]
ValidateBlocks(s) == LinkedUpTo(s, Len(s))

(* It calls Verify on a nil block when all those before it are right.      *)
ValidatePanics(s) == \E i \in DOMAIN s : s[i] = Nil /\ LinkedUpTo(s, i-1)

(* Faulty variant: pops the block it was to stop at.                       *)
RollbackPastHash(c, to) ==
  IF Positions(c, to) = {} THEN <<>> ELSE SubSeq(c, 1, Max(Positions(c, to)) - 1)

(* RollbackToHash pops until it meets the hash, and has popped everything  *)
(* by the time it reports that it did not.                                 *)
RollbackToHash(c, to) ==
  IF Positions(c, to) = {} THEN <<>> ELSE SubSeq(c, 1, Max(Positions(c, to)))

(* Faulty variant: forgets the common part.                                *)
ForkOnly(c, missing) == missing

(* ReplaceWithFork: the UTXO set is not an argument, and not a result.     *)
ReplaceWithFork(c, missing) ==
  LET base == RollbackToHash(c, PrevHash[missing[1]])
  IN  IF base = <<>> THEN <<>> ELSE base \o missing

(* What a chain is meant to be: it runs from the genesis block, each block *)
(* on its predecessor and at the height its header says.                   *)
Linked(c) ==
  \A i \in DOMAIN c :
     /\ Height[c[i]] = i - 1
     /\ IF i = 1 THEN c[i] = Genesis
                 ELSE c[i] # Genesis /\ PrevHash[c[i]] = c[i-1]
=============================================================================
