--------------------------- MODULE MCPeerManager ----------------------------
(* Instance for TLC: n listens, under two names for one address; l, which  *)
(* spoils blocks, and h call it.                                           *)
EXTENDS PeerManager, TLC

CONSTANTS n, h, l, c1, c2

MCListener == [a \in Address |-> n]
MCComplete == [text \in Text |-> IF text = "n:" THEN Nil ELSE "n:50051"]
MCSymmetry == Permutations(Call)
=============================================================================
