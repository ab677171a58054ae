------------------------------ MODULE MCWallet ------------------------------
(* Instance for TLC: two keys, one of them with several outputs, and a     *)
(* recipient who is not in the keys file.                                  *)
EXTENDS Wallet

CONSTANTS alice, bob, shop

MCAllotment ==
  [a \in Address |-> CASE a = alice -> <<1, 2, 1>>
                      [] a = bob -> <<1>>
                      [] OTHER -> <<>>]
=============================================================================
