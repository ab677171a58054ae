CONSTANTS
  m1 = m1  m2 = m2
  Miner = {m1, m2}
  Skew <- MCSkew
  Second = 2
  targetBlockTime = 1
  difficultyWindow = 2
  dynamicStart = 3
  InitialDifficulty = 6
  MaxHeight = 5
  MaxTime = 5
SPECIFICATION FairSpec
INVARIANTS OnlyRushStops Retargets
PROPERTIES RushEndsAll
CHECK_DEADLOCK FALSE
