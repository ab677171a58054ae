---------------------------- MODULE MCUtxoBlocks ----------------------------
(* Instance for TLC: f1, f2 and f3 are there from the start.  t1 and t2    *)
(* conflict, t3 spends what t1 makes, t4 names f3 twice, t5 conflicts with *)
(* t2 and t4.  Blocks have up to three transactions.                       *)
EXTENDS UtxoBlocks

CONSTANTS t1, t2, t3, t4, t5

MCUtxo == {"f1", "f2", "f3", "o1", "o2", "o3", "o4", "o5", "bare"}
MCInitial == {"f1", "f2", "f3"}
MCListing == [x \in Tx |->
  CASE x = t1 -> <<"f1">> [] x = t2 -> <<"f2", "f1">> [] x = t3 -> <<"o1">>
    [] x = t4 -> <<"f3", "f3">> [] x = t5 -> <<"f3", "f2">>]
MCInputs == [x \in Tx |-> {MCListing[x][k] : k \in DOMAIN MCListing[x]}]
MCOutputs == [x \in Tx |->
  CASE x = t1 -> {"o1"} [] x = t2 -> {"o2"} [] x = t3 -> {"o3"}
    [] x = t4 -> {"o4"} [] x = t5 -> {"o5"}]
MCBlock == UNION {[1..n -> Tx] : n \in 1..3}
=============================================================================
