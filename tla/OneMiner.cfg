CONSTANTS
  n1 = n1  n2 = n2  n3 = n3  n4 = n4
  t1 = t1  t2 = t2  t3 = t3  t4 = t4  t5 = t5  t6 = t6  t7 = t7  t8 = t8
  Nil = Nil
  Node = {n1, n2, n3, n4}
  Tx = {t1, t2, t3}
  Utxo <- MCUtxo
  Initial <- MCInitial
  Inputs <- MCInputs
  Outputs <- MCOutputs
  Pair <- OnePairs
  MaxHeight = 3
  Block <- MCBlock
  Genesis <- MCGenesis
  PrevHash <- MCPrevHash
  Height <- MCHeight
  Children <- MCChildren
  MinerOf <- MCMinerOf
  TxOf <- MCTxOf
  HashWindow = 3
  Mode <- Honest
  BootPeers <- Half
  LatePeers <- LateN4
  Miners = {n1}
  BootPool <- MCBootPool
  Clients = {t3}
  ForkRelease = 5
  ForkStop = 10
  BanLimit = 3
  Unreliable = {n4}
  MaxDepth = 9
SPECIFICATION FairSpec
INVARIANTS RelayOnce
PROPERTIES FollowsLog TxConfirmed TxReachesAll
CHECK_DEADLOCK FALSE
