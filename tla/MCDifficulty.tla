---------------------------- MODULE MCDifficulty ----------------------------
(* Instances of Difficulty for TLC.                                        *)
EXTENDS Difficulty

CONSTANTS m1, m2

(* The clock of m2 is one tick behind. *)
MCSkew == [m \in Miner |-> IF m = m2 THEN -1 ELSE 0]
=============================================================================
