---------------------------- MODULE MCChainRace -----------------------------
(* Instance for TLC: two branches from genesis, of which the first blocks  *)
(* have conflicting transactions.  Each goroutine has several roles.       *)
EXTENDS ChainRace, TLC

CONSTANTS n, p1, p2, p3, t1, t2, t3, t4, g, a1, a2, b1, b2

MCUtxo == {"f1", "f2", "f3", "o1", "o2", "o3", "o4"}
MCInitial == {"f1", "f2", "f3"}
MCInputs == [x \in Tx |->
  CASE x \in {t1, t3} -> {"f1"} [] x = t2 -> {"f2"} [] x = t4 -> {"f3"}]
MCOutputs == [x \in Tx |->
  CASE x = t1 -> {"o1"} [] x = t2 -> {"o2"} [] x = t3 -> {"o3"} [] x = t4 -> {"o4"}]

MCPrevHash == [b \in Block |-> CASE b \in {g, a1, b1} -> g [] b = a2 -> a1 [] b = b2 -> b1]
MCHeight == [b \in Block |-> CASE b = g -> 0 [] b \in {a1, b1} -> 1 [] b \in {a2, b2} -> 2]
MCTxOf == [b \in Block \ {g} |-> CASE b = a1 -> t1 [] b = a2 -> t2 [] b = b1 -> t3 [] b = b2 -> t4]
MCMinerOf == [b \in Block \ {g} |-> n]
MCChildren == [b \in Block |-> {c \in Block \ {g} : MCPrevHash[c] = b}]
MCBranch == {<<a1, a2>>, <<b2>>}
=============================================================================
