CONSTANTS
  m1 = m1  m2 = m2
  Byte = {0, 1}
  MaxBytes = 2
  Miner = {m1, m2}
  Key = {"a", "b"}
  Address <- MCAddress
  Funds <- MCFunds
  Amount = {2}
  MaxInt32 = 1
  Height = {1, 2}
  MaxTx = 2
  MaxBlocks = 1
  Nil = Nil
SPECIFICATION Spec
INVARIANTS SameEverywhere ValidIfBalanced BlocksSurvive
CHECK_DEADLOCK FALSE
