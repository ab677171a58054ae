CONSTANTS
  n1 = n1  n2 = n2  n3 = n3  n4 = n4
  t1 = t1  t2 = t2  t3 = t3  t4 = t4  t5 = t5  t6 = t6  t7 = t7  t8 = t8
  Nil = Nil
  Node = {n1, n2}
  Tx = {t1, t2, t3, t4, t5, t6, t7}
  Utxo <- MCUtxo
  Initial <- MCInitial
  Inputs <- MCInputs
  Outputs <- MCOutputs
  Pair <- RivalPairs
  MaxHeight = 5
  Block <- MCBlock
  Genesis <- MCGenesis
  PrevHash <- MCPrevHash
  Height <- MCHeight
  Children <- MCChildren
  MinerOf <- MCMinerOf
  TxOf <- MCTxOf
  HashWindow = 100
  Mode <- Honest
  BootPeers <- Complete
  LatePeers <- NoPeers
  Miners = {n1, n2}
  BootPool <- MCBootPool
  Clients = {}
  ForkRelease = 5
  ForkStop = 10
  BanLimit = 3
  Unreliable = {}
  MaxDepth = 6
SPECIFICATION Spec
INVARIANT ChainSpendsUnspent
CHECK_DEADLOCK FALSE
