----------------------------- MODULE Difficulty -----------------------------
(***************************************************************************)
(* The difficulty of a new block, Blockchain.GetDifficulty                 *)
(* (internal/blockchain/blockchain.go), and the miners that create blocks  *)
(* by it (CreateBlock, NewBlock, VerifyHash).                              *)
(*                                                                         *)
(* A difficulty is the bound a hash has to stay below: higher is easier.   *)
(* It depends on the chain alone, above all on the whole seconds between   *)
(* two timestamps, which are the times at which two miners created these   *)
(* blocks, by their own clocks.  Nobody compares timestamps or difficulties*)
(* of received blocks with anything.  All miners are on one chain here and *)
(* have transactions to mine; forks are the subject of MinerNetwork.       *)
(***************************************************************************)
EXTENDS Integers, SequencesExt

CONSTANTS
  Miner,
  Skew,                \* how far the clock of a miner is ahead
  Second,              \* ticks of time in a second (1000)
  targetBlockTime,     \* seconds (20)
  difficultyWindow,    \* blocks (10)
  dynamicStart,        \* height up to which the difficulty is constant (1000)
  InitialDifficulty,
  MaxHeight, MaxTime   \* bounds of the model

ASSUME DifficultyAssumption ==
  /\ IsFiniteSet(Miner) /\ Skew \in [Miner -> Int]
  /\ Second \in Nat \ {0} /\ targetBlockTime \in Nat \ {0}
  /\ difficultyWindow \in Nat \ {0}
  /\ dynamicStart \in Nat /\ dynamicStart > difficultyWindow
  /\ InitialDifficulty \in Nat \ {0}

-----------------------------------------------------------------------------
(***************************************************************************)
(* GetDifficulty computes with rational numbers (big.Rat), here pairs of a *)
(* numerator and a denominator; only Inv makes a denominator negative.     *)
(***************************************************************************)
RatAdd(p, q) == <<p[1] * q[2] + q[1] * p[2], p[2] * q[2]>>
RatMul(p, k) == <<p[1] * k, p[2]>>
RatInv(p) == IF p[1] > 0 THEN <<p[2], p[1]>> ELSE <<- p[2], - p[1]>>
RatFloor(p) == p[1] \div p[2]

(* Division of int64 numbers drops the fraction.                           *)
Quotient(a, b) == IF a >= 0 THEN a \div b ELSE - ((- a) \div b)

(* Block number i of a chain; the genesis block is number 0.               *)
At(chain, i) == chain[i + 1]

(* The code's lower bound of 2 keeps the genesis block, with its own time  *)
(* in every process, out of the window; it never binds, as dynamicStart is *)
(* greater than the window.                                                *)
Start(cur) == IF cur - difficultyWindow < 2 THEN 2 ELSE cur - difficultyWindow

(* Faulty variant: the time of the blocks Start(cur) to cur - 1 without    *)
(* the one before them.                                                    *)
TotalTimeWithin(chain, cur) ==
  At(chain, cur - 1).timestamp - At(chain, Start(cur)).timestamp

TotalTime(chain, cur) ==
  At(chain, cur - 1).timestamp - At(chain, Start(cur) - 1).timestamp

Seconds(chain, cur) == Quotient(TotalTime(chain, cur), Second)

(* Faulty variant: a sum of difficulties, not of their inverses.           *)
SumOfDifficulties(chain, cur) ==
  FoldLeft(LAMBDA sum, d : RatAdd(sum, <<d, 1>>), <<0, 1>>,
           [k \in 1..(cur - Start(cur)) |-> At(chain, Start(cur) + k - 1).difficulty])

(* Difficulties of zero are passed over.                                   *)
TotalDifficulty(chain, cur) ==
  LET Window == [k \in 1..(cur - Start(cur)) |-> At(chain, Start(cur) + k - 1).difficulty]
  IN FoldLeft(LAMBDA sum, d : IF d = 0 THEN sum ELSE RatAdd(sum, <<1, d>>), <<0, 1>>, Window)

(* The sum is divided by the seconds (Quo), later the quotient inverted.   *)
Panics(chain, cur) ==
  /\ cur > dynamicStart
  /\ Seconds(chain, cur) = 0 \/ TotalDifficulty(chain, cur)[1] = 0

GetDifficulty(chain, cur) ==
  IF cur <= dynamicStart THEN InitialDifficulty
  ELSE LET ratio == RatInv(RatMul(TotalDifficulty(chain, cur), targetBlockTime))
       IN RatFloor(RatMul(ratio, Seconds(chain, cur)))

-----------------------------------------------------------------------------
VARIABLES
  now,        \* real time
  blocks,     \* Blockchain.Blocks, with the real time of their creation
  candidate,  \* the block a miner tries nonces for
  ended       \* whether the process of a miner has ended by a panic

vars == <<now, blocks, candidate, ended>>

Header == [height : Nat, timestamp : Int, difficulty : Int, born : Nat]
NoBlock == [height |-> 0, timestamp |-> 0, difficulty |-> InitialDifficulty, born |-> 0]

(* NoBlock stands for the genesis block, which nobody mines.               *)
Init ==
  /\ now = 0
  /\ blocks = <<NoBlock>>
  /\ candidate = [m \in Miner |-> NoBlock]
  /\ ended = [m \in Miner |-> FALSE]

Tick ==
  /\ now < MaxTime
  /\ now' = now + 1
  /\ UNCHANGED <<blocks, candidate, ended>>

NewBlock(m) ==
  [height |-> Len(blocks), timestamp |-> now + Skew[m],
   difficulty |-> GetDifficulty(blocks, Len(blocks)), born |-> now]

(* A miner creates a block when it has none, or finds while it tries       *)
(* nonces that the chain has advanced.                                     *)
Creates(m) ==
  /\ ~ ended[m] /\ Len(blocks) <= MaxHeight
  /\ candidate[m].height < Len(blocks)

(* Faulty variant: a panic does not end the process.                       *)
CreateRecovered(m) ==
  /\ Creates(m) /\ ~ Panics(blocks, Len(blocks))
  /\ candidate' = [candidate EXCEPT ![m] = NewBlock(m)]
  /\ UNCHANGED <<now, blocks, ended>>

CreateBlock(m) ==
  /\ Creates(m)
  /\ IF Panics(blocks, Len(blocks))
     THEN /\ ended' = [ended EXCEPT ![m] = TRUE]
          /\ UNCHANGED candidate
     ELSE /\ candidate' = [candidate EXCEPT ![m] = NewBlock(m)]
          /\ UNCHANGED ended
  /\ UNCHANGED <<now, blocks>>

(* VerifyHash: some hash is below the difficulty only if it is positive.   *)
Minable(m) == candidate[m].height > 0 /\ candidate[m].difficulty > 0

(* The miner finds a hash; when the chain has advanced meanwhile, the      *)
(* block is dropped.                                                       *)
FindHash(m) ==
  /\ ~ ended[m] /\ Minable(m)
  /\ blocks' = IF candidate[m].height = Len(blocks) THEN Append(blocks, candidate[m]) ELSE blocks
  /\ candidate' = [candidate EXCEPT ![m] = NoBlock]
  /\ UNCHANGED <<now, ended>>

Next == Tick \/ \E m \in Miner : CreateBlock(m) \/ FindHash(m)

Spec == Init /\ [][Next]_vars

(* The mining goroutine goes on; time may stand still.                     *)
FairSpec == Spec /\ \A m \in Miner : WF_vars(CreateBlock(m))

-----------------------------------------------------------------------------
(***************************************************************************)
(* Properties.                                                             *)
(***************************************************************************)
Dynamic == Len(blocks) > dynamicStart
WindowSeconds == Seconds(blocks, Len(blocks))
WindowDifficulties ==
  {At(blocks, i).difficulty : i \in Start(Len(blocks))..(Len(blocks) - 1)}
WindowLength == Len(blocks) - Start(Len(blocks))

(* The real time in which the window's blocks were created.                *)
RealTime ==
  At(blocks, Len(blocks) - 1).born - At(blocks, Start(Len(blocks)) - 1).born

(* What the clocks of two miners differ by at most.                        *)
Spread == Max({Skew[m] - Skew[n] : m, n \in Miner})

(* A miner crashes, or has a block no hash is good enough for, only if the *)
(* window took less than a second plus what clocks differ by, or if the    *)
(* difficulty is so low that the next one is below 1.  In particular the   *)
(* sum that is inverted is never zero.                                     *)
OnlyRushStops ==
  \A m \in Miner :
    ended[m] \/ (candidate[m].height = Len(blocks) /\ candidate[m].difficulty <= 0) =>
      \/ RealTime < Second + Spread
      \/ /\ WindowSeconds > 0
         /\ \E d \in WindowDifficulties :
              d * WindowSeconds < targetBlockTime * WindowLength

(* The new difficulty is the old one times the time the window took over   *)
(* the time it should have taken: between that of the lowest and that of   *)
(* the highest difficulty of the window, rounded down.                     *)
Retargets ==
  Dynamic /\ WindowSeconds > 0 =>
    LET new == GetDifficulty(blocks, Len(blocks))
        goal == targetBlockTime * WindowLength
    IN /\ \E d \in WindowDifficulties : new * goal <= d * WindowSeconds
       /\ \E d \in WindowDifficulties : (new + 1) * goal > d * WindowSeconds

(* After a window of less than a second the processes of all miners end,   *)
(* if they have transactions to mine.                                      *)
RushEndsAll ==
  Dynamic /\ WindowSeconds = 0 /\ Len(blocks) <= MaxHeight ~> \A m \in Miner : ended[m]
=============================================================================
