------------------------------ MODULE Payments ------------------------------
(***************************************************************************)
(* What money does: a holder of a key pays an amount it has to somebody    *)
(* else's address or its own, at one stroke.  No outputs, no change, no    *)
(* transactions under way.                                                 *)
(*                                                                         *)
(* Wallet implements this with the balances that the UTXO set of any one   *)
(* miner shows (Wallet!SetPays).                                           *)
(***************************************************************************)
EXTENDS Integers

CONSTANTS Key, Address, Amount

VARIABLE balance

Pay(s, r, n) ==
  /\ balance[s] >= n
  /\ balance' = IF r = s THEN balance
                ELSE [balance EXCEPT ![s] = @ - n, ![r] = @ + n]

Next == \E s \in Key, r \in Address, n \in Amount : Pay(s, r, n)

Spec == balance \in [Address -> Nat] /\ [][Next]_balance
=============================================================================
