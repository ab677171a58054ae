----------------------------- MODULE Signature ------------------------------
(***************************************************************************)
(* A signature as the bytes of its two numbers (internal/crypto/sign.go).  *)
(*                                                                         *)
(* big.Int.Bytes writes a number without leading zeros, so a number is its *)
(* byte string here; SetBytes reads any string and drops the zeros.  Sign  *)
(* puts the bytes of r and s one behind the other, VerifySignature cuts    *)
(* what it gets in the middle.                                             *)
(***************************************************************************)
EXTENDS Naturals, Sequences, FiniteSets

CONSTANTS Byte,     \* 0..255
          MaxBytes  \* 32: the longest r or s

ASSUME SignatureAssumption ==
  /\ 0 \in Byte /\ Byte \subseteq Nat
  /\ MaxBytes \in Nat \ {0}

(* r and s of ecdsa.Sign: positive, most of them 32 bytes long.            *)
Number ==
  UNION {{b \in [1..n -> Byte] : b[1] # 0} : n \in 1..MaxBytes}

LeadingZeros(b) == {k \in 1..Len(b) : \A j \in 1..k : b[j] = 0}

SetBytes(b) == SubSeq(b, Cardinality(LeadingZeros(b)) + 1, Len(b))

Encode(r, s) == r \o s

(* Faulty variant: the odd byte goes to r.                                 *)
HalfUp(signature) == (Len(signature) + 1) \div 2

(* rLen *)
Half(signature) == Len(signature) \div 2

Decode(signature) ==
  << SetBytes(SubSeq(signature, 1, Half(signature))),
     SetBytes(SubSeq(signature, Half(signature) + 1, Len(signature))) >>

(* The lengths for which the cut falls between the two numbers.            *)
Balanced(r, s) == Len(s) = Len(r) \/ Len(s) = Len(r) + 1
=============================================================================
