----------------------------- MODULE SpendOnce ------------------------------
(***************************************************************************)
(* What a node promises about the transactions it accepts: each spends     *)
(* outputs that are unspent at that moment, and exactly the outputs it     *)
(* creates become unspent.  No blocks, no forks, no messages, and no node  *)
(* that changes what another one accepted.                                 *)
(*                                                                         *)
(* MinerNetwork implements this (MinerNetwork!SpendsOnce), with the        *)
(* transactions of AddBlock's history as accepted and the outputs listed   *)
(* in UTXOSet as unspent.                                                  *)
(***************************************************************************)
EXTENDS Ledger

CONSTANT Node

VARIABLES accepted,   \* the transactions each node has accepted
          unspent     \* the outputs each node would let a transaction spend

Init ==
  /\ accepted = [n \in Node |-> {}]
  /\ unspent = [n \in Node |-> Initial]

Accept(n, x) ==
  /\ Inputs[x] \subseteq unspent[n]
  /\ accepted' = [accepted EXCEPT ![n] = @ \cup {x}]
  /\ unspent' = [unspent EXCEPT ![n] = (@ \ Inputs[x]) \cup Outputs[x]]

Next == \E n \in Node, x \in Tx : Accept(n, x)

Spec == Init /\ [][Next]_<<accepted, unspent>>
=============================================================================
