------------------------------- MODULE MCWire -------------------------------
(* Instance for TLC: numbers of one or two bytes with two values, blocks    *)
(* up to one height more than fits.                                        *)
EXTENDS Wire

CONSTANTS m1, m2

MCOutput(n, amount) == [txid |-> "f", index |-> n, amount |-> amount, address |-> "A"]
MCAddress == [key \in Key |-> IF key = "a" THEN "A" ELSE "B"]
MCFunds == {<<MCOutput(1, 2)>>, <<MCOutput(0, 1), MCOutput(1, 2)>>}
=============================================================================
