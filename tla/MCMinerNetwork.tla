--------------------------- MODULE MCMinerNetwork ---------------------------
(***************************************************************************)
(* Small instances of MinerNetwork for TLC.                                *)
(*                                                                         *)
(* A miner can put each of its transactions on any block, so the blocks    *)
(* form a tree in which every node has one child for each pair of a miner  *)
(* and a transaction it can have (Pair).  They are numbered level by       *)
(* level, 0 the genesis block: the children of b are Arity * b + 1 to      *)
(* Arity * b + Arity.  MaxHeight bounds the tree.                          *)
(***************************************************************************)
EXTENDS MinerNetwork, TLC

CONSTANTS n1, n2, n3, n4, t1, t2, t3, t4, t5, t6, t7, t8,
          Pair,       \* who can mine what: a sequence of pairs
          MaxHeight

(***************************************************************************)
(* f1 and f2 are there from the start, o_i is made by t_i.  t1, t2, t3     *)
(* spend one another's output in turn, so do t4, t5, t6; t7 is a rival of  *)
(* t2, and t8 follows t7.                                                  *)
(***************************************************************************)
MCUtxo == {"f1", "f2", "o1", "o2", "o3", "o4", "o5", "o6", "o7", "o8"}
MCInitial == {"f1", "f2"}
MCInputs == [x \in Tx |->
  CASE x = t1 -> {"f1"} [] x = t2 -> {"o1"} [] x = t3 -> {"o2"}
    [] x = t4 -> {"f2"} [] x = t5 -> {"o4"} [] x = t6 -> {"o5"}
    [] x = t7 -> {"o1"} [] x = t8 -> {"o7"}]
MCOutputs == [x \in Tx |->
  CASE x = t1 -> {"o1"} [] x = t2 -> {"o2"} [] x = t3 -> {"o3"}
    [] x = t4 -> {"o4"} [] x = t5 -> {"o5"} [] x = t6 -> {"o6"}
    [] x = t7 -> {"o7"} [] x = t8 -> {"o8"}]

Arity == Len(Pair)
FirstAt(k) == IF Arity = 1 THEN k ELSE (Arity^k - 1) \div (Arity - 1)

LastBlock == FirstAt(MaxHeight + 1) - 1
MCBlock == 0..LastBlock
MCGenesis == 0
MCPrevHash == [b \in 0..LastBlock |-> IF b = 0 THEN 0 ELSE (b - 1) \div Arity]
MCHeight == [b \in 0..LastBlock |-> Max({k \in 0..MaxHeight : FirstAt(k) <= b})]
MCChildren == [b \in 0..LastBlock |->
  IF MCHeight[b] = MaxHeight THEN {} ELSE (Arity * b + 1)..(Arity * b + Arity)]
PairOf(b) == Pair[((b - 1) % Arity) + 1]
MCMinerOf == [b \in 1..LastBlock |-> PairOf(b)[1]]
MCTxOf == [b \in 1..LastBlock |-> PairOf(b)[2]]

(* What clients do not submit is in the pools from the start. *)
MCBootPool ==
  [n \in Node |-> {x \in Tx \ Clients : \E i \in DOMAIN Pair : Pair[i] = <<n, x>>}]

NoPeers == [n \in Node |-> {}]
Complete == [n \in Node |-> Node \ {n}]

Honest == [n \in Node |-> 0]
Selfish3 == [n \in Node |-> IF n = n3 THEN 3 ELSE 0]
OneLiar == [n \in Node |-> IF n = n3 THEN 4 ELSE 0]

RivalPairs == <<<<n1, t1>>, <<n1, t2>>, <<n1, t3>>,
               <<n2, t4>>, <<n2, t5>>, <<n2, t6>>, <<n2, t7>>>>
LiarPairs == Append(RivalPairs, <<n3, t1>>)
HubPairs == <<<<n1, t1>>, <<n1, t2>>, <<n1, t3>>, <<n2, t7>>,
              <<n3, t4>>, <<n3, t5>>, <<n3, t6>>, <<n3, t1>>>>
OnePairs == <<<<n1, t1>>, <<n1, t2>>, <<n1, t3>>>>

(* n1 and n2 call each other; n3 calls n2, and nobody calls n3. *)
Outsider == [n \in Node |->
  CASE n = n1 -> {n2} [] n = n2 -> {n1} [] n = n3 -> {n2}]
Line == [n \in Node |->
  CASE n = n1 -> {n2} [] n = n2 -> {n1, n3} [] n = n3 -> {n2}]
(* n2 comes to call n4 some time. *)
Half == [n \in Node |->
  CASE n = n1 -> {n2} [] n = n2 -> {n1, n3} [] n = n3 -> {n2} [] n = n4 -> {n2}]
LateN4 == [n \in Node |-> IF n = n2 THEN {n4} ELSE {}]
=============================================================================
