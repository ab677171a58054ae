CONSTANTS
  n = n  g = g
  a1 = a1  a2 = a2  b1 = b1  b2 = b2
  t1 = t1  t2 = t2  t3 = t3  t4 = t4
  p1 = p1  p2 = p2  p3 = p3
  Node = {n}
  Tx = {t1, t2, t3, t4}
  Utxo <- MCUtxo
  Initial <- MCInitial
  Inputs <- MCInputs
  Outputs <- MCOutputs
  Genesis = g
  PrevHash <- MCPrevHash
  Height <- MCHeight
  Children <- MCChildren
  MinerOf <- MCMinerOf
  TxOf <- MCTxOf
  HashWindow = 100
  Nil = Nil
  Branch <- MCBranch
  Block = {g, a1, a2, b1, b2}
  Adder = {p1, p2}
  Switcher = {p2, p3}
  Reader = {p1}
  MaxLen = 3
  MayMix = FALSE
SPECIFICATION Spec
INVARIANTS ConsistentAlone SpentOnceOnList SeenInPlace
 
CHECK_DEADLOCK FALSE
