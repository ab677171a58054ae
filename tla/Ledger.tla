------------------------------- MODULE Ledger -------------------------------
(***************************************************************************)
(* The unspent outputs a node keeps (internal/blockchain/utxo.go) and the  *)
(* part of a transaction they depend on (transaction.go).                  *)
(*                                                                         *)
(* A transaction is a model value; what it consumes and creates are the    *)
(* constant functions Inputs and Outputs.  Only transactions that pass     *)
(* Transaction.Verify are members of Tx: a node tests them once, on        *)
(* submission, and the copies it holds do not change afterwards.  The one  *)
(* exception, the transaction a mode 1 miner corrupts on purpose, is the   *)
(* flag "intact" of module MinerNetwork.  AddTransaction below wants       *)
(* transactions that list no input twice (UTXOSet.GetUTXOs, which clients  *)
(* use, never does); module UtxoBlocks has the others.                     *)
(***************************************************************************)
EXTENDS Integers, FiniteSets

CONSTANTS Tx,        \* transactions, identified by their hash
          Utxo,      \* outputs, identified by <TxID, Index, Amount, Address>
          Initial,   \* the outputs every node loads at start (cmd/miner)
          Inputs,    \* the outputs a transaction consumes
          Outputs    \* the outputs a transaction creates

(***************************************************************************)
(* VerifyContent wants positive amounts and equal totals, and              *)
(* NewTransaction always makes an output, so no transaction is without     *)
(* inputs or outputs.  GetUTXO stamps the outputs of a transaction with    *)
(* its hash, so nobody else creates them.                                  *)
(***************************************************************************)
ASSUME LedgerAssumption ==
  /\ Initial \subseteq Utxo
  /\ Inputs \in [Tx -> SUBSET Utxo]
  /\ Outputs \in [Tx -> SUBSET Utxo]
  /\ \A t \in Tx : Inputs[t] # {} /\ Outputs[t] # {}
  /\ \A t \in Tx : Outputs[t] \cap Initial = {}
  /\ \A s, t \in Tx : s # t => Outputs[s] \cap Outputs[t] = {}

(***************************************************************************)
(* An input names the hash of the transaction it spends from, and the hash *)
(* covers the inputs (HashTransaction).  No transactions can spend from    *)
(* each other in a circle: among any, the last one made feeds none.        *)
(***************************************************************************)
ASSUME SpendingOrder ==
  \A some \in SUBSET Tx : IsFiniteSet(some) /\ some # {} =>
     \E s \in some : \A t \in some : Outputs[s] \cap Inputs[t] = {}

(***************************************************************************)
(* UTXOSet.utxos is a list per address, to which AddUTXO appends without   *)
(* looking: the same output can be listed twice.  It is therefore a bag,   *)
(* the number of times each output is listed.                              *)
(***************************************************************************)
UTXOSet == [Utxo -> Nat]

NewUTXOSet == [u \in Utxo |-> IF u \in Initial THEN 1 ELSE 0]

CheckUTXO(set, u) == set[u] > 0

(* Faulty variant: takes any transaction whose content is right.           *)
CheckContentOnly(set, tx) == Inputs[tx] # {}

CheckTransaction(set, tx) == \A u \in Inputs[tx] : CheckUTXO(set, u)

(* Faulty variant: leaves the inputs in the set.                           *)
AddOutputsOnly(set, tx) ==
  [u \in Utxo |-> set[u] + (IF u \in Outputs[tx] THEN 1 ELSE 0)]

(* RemoveUTXO drops one occurrence of each input, AddUTXO appends one of   *)
(* each output; used under CheckTransaction, so no removal fails.          *)
AddTransaction(set, tx) ==
  [u \in Utxo |-> set[u] - (IF u \in Inputs[tx] THEN 1 ELSE 0)
                         + (IF u \in Outputs[tx] THEN 1 ELSE 0)]

(* The unspent outputs a history of transactions leaves: what UTXOSet is   *)
(* meant to hold.                                                          *)
Created(history) == Initial \cup UNION {Outputs[t] : t \in history}
Consumed(history) == UNION {Inputs[t] : t \in history}
Unspent(history) == Created(history) \ Consumed(history)

Conflict(s, t) == s # t /\ Inputs[s] \cap Inputs[t] # {}
=============================================================================
