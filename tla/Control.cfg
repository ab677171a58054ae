CONSTANTS
  Loop = {l1, l2}
  First = l1
  Request = {r1, r2, r3}
  Mode = 3
  None = None
SPECIFICATION FairSpec
INVARIANTS TypeOK LateBlockOnce SoundInTurn
PROPERTIES StopEnds
CHECK_DEADLOCK FALSE
