-------------------------- MODULE UtxoBlocksProofs --------------------------
(***************************************************************************)
(* Proofs about UTXOSet.AddBlock, for every set of transactions and blocks *)
(* of any length.                                                          *)
(*                                                                         *)
(* The argument follows the places of a block, the pairs of a transaction  *)
(* and an input of it, in the order AddBlock comes to them.  The first     *)
(* check finds every place's output created (Known), the loops take the    *)
(* outputs of the places they have passed (Taken), and as a removal that   *)
(* finds nothing ends the call, the passed places name distinct outputs    *)
(* (Distinct).  An output that is missing at a place to come was therefore *)
(* taken for a place already passed (Shared): the block names it twice.    *)
(* Within a transaction the second check sharpens this: what is missing    *)
(* was taken for the same transaction (SharedHere).                        *)
(***************************************************************************)
EXTENDS UtxoBlocks, TLAPS

(* The loops have passed input k of transaction i.                         *)
Passed(i, k) == i < txi \/ (i = txi /\ k < inp)

Places(i) == DOMAIN Listing[block[i]]
Name(i, k) == Listing[block[i]][k]

Accounted ==
  /\ gone \subseteq Created(applied)
  /\ Consumed(applied) \subseteq gone

Known ==
  \A i \in DOMAIN block : \A k \in Places(i) : Name(i, k) \in Created(applied)

Taken ==
  \A i \in DOMAIN block : \A k \in Places(i) : Passed(i, k) => Name(i, k) \in gone

Distinct ==
  \A i, j \in DOMAIN block : \A k \in Places(i), l \in Places(j) :
    Passed(i, k) /\ Passed(j, l) /\ Name(i, k) = Name(j, l) => i = j /\ k = l

Shared ==
  \A i \in DOMAIN block : \A k \in Places(i) :
    ~ Passed(i, k) /\ Name(i, k) \in gone =>
      \E j \in DOMAIN block : \E l \in Places(j) :
        Passed(j, l) /\ Name(j, l) = Name(i, k)

SharedHere ==
  \A k \in DOMAIN Listing[Current] :
    k >= inp /\ Listing[Current][k] \in gone =>
      \E l \in DOMAIN Listing[Current] : l < inp /\ Listing[Current][l] = Listing[Current][k]

Running ==
  /\ block \in Block /\ result = "none"
  /\ txi \in 1..Len(block) + 1
  /\ Known /\ Taken /\ Distinct /\ Shared

Removing ==
  /\ txi \in DOMAIN block
  /\ inp \in 1..Len(Listing[Current]) + 1
  /\ Inputs[Current] \cap Consumed(applied) = {}
  /\ SharedHere

(* Outputs taken and not consumed are those of transactions that name one  *)
(* twice, or of the transaction at work.                                   *)
LostOrUnderWay ==
  \A u \in gone \ Consumed(applied) :
    \/ \E t \in Tx : u \in Inputs[t] /\ NamesTwice(t)
    \/ /\ pc = "input"
       /\ \E k \in DOMAIN Listing[Current] : k < inp /\ u = Listing[Current][k]

IInv ==
  /\ TypeOK
  /\ ListsCreated
  /\ Accounted
  /\ SpentOnce
  /\ FailsOnOverlap
  /\ pc \in {"tx", "input"} => Running
  /\ pc = "tx" => inp = 1
  /\ pc = "input" => Removing
  /\ LostOrUnderWay

-----------------------------------------------------------------------------
LEMMA BlockFacts ==
  ASSUME NEW b \in Block
  PROVE  /\ Len(b) \in Nat \ {0} /\ DOMAIN b = 1..Len(b)
         /\ \A i \in DOMAIN b : b[i] \in Tx
BY BlockAssumption

LEMMA ListingFacts ==
  ASSUME NEW t \in Tx
  PROVE  /\ Len(Listing[t]) \in Nat /\ DOMAIN Listing[t] = 1..Len(Listing[t])
         /\ \A k \in DOMAIN Listing[t] : Listing[t][k] \in Inputs[t] /\ Listing[t][k] \in Utxo
         /\ \A u \in Inputs[t] : \E k \in DOMAIN Listing[t] : u = Listing[t][k]
         /\ Inputs[t] # {}
<1>1. Listing[t] \in Seq(Utxo)
  BY BlockAssumption
<1>2. Inputs[t] = {Listing[t][k] : k \in DOMAIN Listing[t]}
  BY BlockAssumption
<1>3. Inputs[t] # {}
  BY LedgerAssumption
<1>4. /\ Len(Listing[t]) \in Nat /\ DOMAIN Listing[t] = 1..Len(Listing[t])
      /\ \A k \in DOMAIN Listing[t] : Listing[t][k] \in Utxo
  BY <1>1
<1>5. /\ \A k \in DOMAIN Listing[t] : Listing[t][k] \in Inputs[t]
      /\ \A u \in Inputs[t] : \E k \in DOMAIN Listing[t] : u = Listing[t][k]
  BY <1>2, Zenon
<1> QED BY <1>3, <1>4, <1>5

(* A transaction that passes the second check shares no input with the     *)
(* transactions applied before.                                            *)
LEMMA CheckedIsFresh ==
  ASSUME TypeOK, ListsCreated, Accounted, NEW t \in Tx, CheckTransaction(utxos, t)
  PROVE  /\ Inputs[t] \cap gone = {}
         /\ Inputs[t] \subseteq Created(applied)
         /\ Inputs[t] \cap Consumed(applied) = {}
<1>1. \A u \in Inputs[t] : u \in Utxo /\ utxos[u] > 0
  BY LedgerAssumption DEF CheckTransaction, CheckUTXO
<1>2. \A u \in Inputs[t] : u \in Created(applied) \ gone
  BY <1>1 DEF ListsCreated
<1> QED BY <1>2 DEF Accounted

(* What the second check does not find, or a removal misses, is gone.      *)
LEMMA MissedIsGone ==
  ASSUME ListsCreated, NEW u \in Utxo, u \in Created(applied), ~ CheckUTXO(utxos, u)
  PROVE  u \in gone
<1>1. ~ (utxos[u] > 0)
  BY DEF CheckUTXO
<1>2. utxos[u] = IF u \in Created(applied) \ gone THEN 1 ELSE 0
  BY DEF ListsCreated
<1> QED BY <1>1, <1>2

LEMMA InitInv == Init => IInv
<1> SUFFICES ASSUME Init PROVE IInv
  OBVIOUS
<1>1. Created({}) = Initial /\ Consumed({}) = {}
  BY DEF Created, Consumed
<1>2. TypeOK
  BY DEF Init, TypeOK, UTXOSet, NewUTXOSet
<1>3. ListsCreated
  BY <1>1 DEF Init, ListsCreated, NewUTXOSet
<1> QED
  BY <1>1, <1>2, <1>3 DEF Init, IInv, Accounted, SpentOnce, FailsOnOverlap, LostOrUnderWay

-----------------------------------------------------------------------------
(* One lemma for each action.                                              *)

LEMMA RefuseBlockInv ==
  ASSUME IInv, NEW b \in Block, RefuseBlock(b) PROVE IInv'
BY DEF IInv, RefuseBlock, Return, TypeOK, ListsCreated, Accounted, SpentOnce, FailsOnOverlap,
       LostOrUnderWay, UTXOSet

LEMMA BeginBlockInv ==
  ASSUME IInv, NEW b \in Block, BeginBlock(b) PROVE IInv'
<1> USE DEF BeginBlock
<1>1. /\ block' = b /\ pc' = "tx" /\ txi' = 1 /\ inp' = 1 /\ result' = "none"
      /\ UNCHANGED <<utxos, applied, gone>>
  OBVIOUS
<1>2. Len(b) \in Nat \ {0} /\ DOMAIN b = 1..Len(b)
  BY BlockFacts
<1>3. \A i \in DOMAIN b : /\ b[i] \in Tx
                         /\ Inputs[b[i]] \cap gone = {}
                         /\ Inputs[b[i]] \subseteq Created(applied)
  <2> SUFFICES ASSUME NEW i \in DOMAIN b
               PROVE  /\ b[i] \in Tx
                      /\ Inputs[b[i]] \cap gone = {}
                      /\ Inputs[b[i]] \subseteq Created(applied)
    OBVIOUS
  <2>1. b[i] \in Tx
    BY BlockFacts
  <2>2. CheckTransaction(utxos, b[i])
    BY DEF CheckBlock
  <2> QED BY <2>1, <2>2, CheckedIsFresh DEF IInv
<1>4. \A i \in DOMAIN b : \A k \in DOMAIN Listing[b[i]] :
        /\ k \in Nat \ {0}
        /\ Listing[b[i]][k] \notin gone
        /\ Listing[b[i]][k] \in Created(applied)
  BY <1>3, ListingFacts
<1>5. \A i \in DOMAIN b : \A k \in DOMAIN Listing[b[i]] : ~ (i < 1 \/ (i = 1 /\ k < 1))
  BY <1>2, <1>4
<1>6. Running'
  BY <1>1, <1>2, <1>4, <1>5 DEF Running, Known, Taken, Distinct, Shared, Passed, Places, Name
<1>7. TypeOK'
  <2>1. /\ utxos \in UTXOSet /\ applied \subseteq Tx /\ gone \subseteq Utxo
    BY DEF IInv, TypeOK
  <2>2. utxos' \in UTXOSet /\ applied' \subseteq Tx /\ gone' \subseteq Utxo
    BY <1>1, <2>1
  <2> QED BY ONLY <1>1, <2>2, b \in Block DEF TypeOK
<1> QED
  BY <1>1, <1>6, <1>7
     DEF IInv, ListsCreated, Accounted, SpentOnce, FailsOnOverlap, LostOrUnderWay

LEMMA CurrentFacts ==
  ASSUME IInv, pc \in {"tx", "input"}, txi <= Len(block)
  PROVE  /\ txi \in DOMAIN block
         /\ Current \in Tx
BY BlockFacts DEF IInv, Running, Current

LEMMA RefuseTxInv == ASSUME IInv, RefuseTx PROVE IInv'
<1> USE DEF RefuseTx, Return
<1>1. /\ pc = "tx" /\ pc' = "idle" /\ result' = "failed"
      /\ UNCHANGED <<utxos, block, txi, inp, applied, gone>>
  OBVIOUS
<1>2. txi \in DOMAIN block /\ Current \in Tx
  BY CurrentFacts
<1>3. Running /\ inp = 1
  BY DEF IInv
<1>4. PICK u \in Inputs[Current] : ~ CheckUTXO(utxos, u)
  BY DEF CheckTransaction
<1>5. PICK k \in DOMAIN Listing[Current] : u = Listing[Current][k]
  BY <1>2, ListingFacts
<1>6. u \in Utxo /\ k \in Nat \ {0}
  BY <1>2, <1>5, ListingFacts
<1>7. u \in Created(applied)
  BY <1>2, <1>3, <1>5 DEF Running, Known, Places, Name, Current
<1>8. u \in gone
  BY <1>4, <1>6, <1>7, MissedIsGone DEF IInv
<1>9. ~ Passed(txi, k)
  BY <1>2, <1>3, <1>6, BlockFacts DEF Running, Passed
<1>10. PICK j \in DOMAIN block : \E l \in Places(j) : Passed(j, l) /\ Name(j, l) = Name(txi, k)
  BY <1>2, <1>3, <1>5, <1>8, <1>9 DEF Running, Shared, Places, Name, Current
<1>11. Overlaps(block)
  BY <1>2, <1>5, <1>9, <1>10 DEF Overlaps, Places, Name, Current
<1>12. TypeOK'
  BY <1>1 DEF IInv, TypeOK
<1> QED
  BY <1>1, <1>11, <1>12
     DEF IInv, ListsCreated, Accounted, SpentOnce, FailsOnOverlap, LostOrUnderWay

LEMMA BeginTxInv == ASSUME IInv, BeginTx PROVE IInv'
<1> USE DEF BeginTx
<1>1. /\ pc = "tx" /\ pc' = "input" /\ inp' = 1
      /\ UNCHANGED <<utxos, block, txi, result, applied, gone>>
  OBVIOUS
<1>2. txi \in DOMAIN block /\ Current \in Tx
  BY CurrentFacts
<1>3. Running /\ inp = 1
  BY DEF IInv
<1>4. Running'
  BY <1>1, <1>3 DEF Running, Known, Taken, Distinct, Shared, Passed, Places, Name
<1>5. /\ Inputs[Current] \cap gone = {}
      /\ Inputs[Current] \cap Consumed(applied) = {}
  BY <1>2, CheckedIsFresh DEF IInv
<1>6. Removing'
  <2>1. \A k \in DOMAIN Listing[Current] : Listing[Current][k] \notin gone
    BY <1>2, <1>5, ListingFacts
  <2>2. 1 \in 1..Len(Listing[Current]) + 1
    BY <1>2, ListingFacts
  <2> QED BY <1>1, <1>2, <1>5, <2>1, <2>2 DEF Removing, SharedHere, Current
<1>7. TypeOK'
  BY <1>1, <1>2 DEF IInv, TypeOK
<1>8. LostOrUnderWay'
  BY <1>1 DEF IInv, LostOrUnderWay
<1> QED
  BY <1>1, <1>4, <1>6, <1>7, <1>8 DEF IInv, ListsCreated, Accounted, SpentOnce, FailsOnOverlap

LEMMA RemoveInputInv == ASSUME IInv, RemoveInput PROVE IInv'
<1> USE DEF RemoveInput
<1>1. /\ pc = "input" /\ inp <= Len(Listing[Current])
      /\ CheckUTXO(utxos, Input)
      /\ utxos' = [utxos EXCEPT ![Input] = @ - 1]
      /\ gone' = gone \cup {Input} /\ inp' = inp + 1
      /\ UNCHANGED <<block, pc, txi, result, applied>>
  OBVIOUS
<1> HIDE DEF RemoveInput
<1>2. Running /\ Removing
  BY <1>1 DEF IInv
<1>3. txi \in DOMAIN block /\ Current \in Tx
  BY <1>2, BlockFacts DEF Running, Removing, Current
<1>4. /\ inp \in DOMAIN Listing[Current] /\ inp \in Nat /\ Input \in Utxo
      /\ Input = Name(txi, inp) /\ Input \in Inputs[Current]
  BY <1>1, <1>2, <1>3, ListingFacts DEF Removing, Input, Name, Current
<1>5. utxos[Input] = 1 /\ Input \in Created(applied) /\ Input \notin gone
  BY <1>1, <1>4 DEF IInv, ListsCreated, CheckUTXO
<1>6. utxos \in UTXOSet
  BY DEF IInv, TypeOK
<1>7. /\ utxos' \in UTXOSet
      /\ utxos'[Input] = 0
      /\ \A u \in Utxo : u # Input => utxos'[u] = utxos[u]
  BY <1>1, <1>4, <1>5, <1>6 DEF UTXOSet
<1>8. ListsCreated'
  BY <1>1, <1>5, <1>7 DEF IInv, ListsCreated
<1>9. TypeOK'
  <2>1. inp' \in Nat \ {0} /\ gone' \subseteq Utxo
    <3>1. gone \subseteq Utxo
      BY DEF IInv, TypeOK
    <3> QED BY ONLY <1>1, <1>4, <3>1
  <2>2. /\ block' \in Block \cup {<<>>} /\ pc' = "input" /\ txi' \in Nat \ {0}
        /\ txi' \in DOMAIN block' /\ applied' \subseteq Tx
        /\ result' \in {"none", "refused", "failed", "ok", "not removed"}
    BY <1>1 DEF IInv, TypeOK
  <2> QED BY <1>7, <2>1, <2>2 DEF TypeOK
<1>10. Accounted'
  BY <1>1, <1>5 DEF IInv, Accounted
<1>11. \A i \in DOMAIN block : \A k \in Places(i) :
         /\ i \in Nat /\ k \in Nat
         /\ Passed(i, k)' <=> Passed(i, k) \/ (i = txi /\ k = inp)
  <2> SUFFICES ASSUME NEW i \in DOMAIN block, NEW k \in Places(i)
               PROVE  /\ i \in Nat /\ k \in Nat
                      /\ Passed(i, k)' <=> Passed(i, k) \/ (i = txi /\ k = inp)
    OBVIOUS
  <2>1. i \in Nat /\ block[i] \in Tx
    BY <1>2, BlockFacts DEF Running
  <2>2. k \in Nat
    BY <2>1, ListingFacts DEF Places
  <2> QED BY <1>1, <1>4, <2>1, <2>2 DEF Passed
<1>12. Running'
  <2>1. /\ \A i \in DOMAIN block : Places(i)' = Places(i)
        /\ \A i \in DOMAIN block : \A k \in Places(i) : Name(i, k)' = Name(i, k)
        /\ block' = block
    BY <1>1 DEF Places, Name
  <2>2. Known' /\ Taken'
    BY <1>1, <1>2, <1>4, <1>11, <2>1 DEF Running, Known, Taken
  <2>3. Distinct'
    <3> SUFFICES ASSUME NEW i \in DOMAIN block, NEW j \in DOMAIN block,
                        NEW k \in Places(i), NEW l \in Places(j),
                        Passed(i, k)', Passed(j, l)', Name(i, k) = Name(j, l)
                 PROVE  i = j /\ k = l
      BY <2>1 DEF Distinct
    <3>1. \/ Passed(i, k) /\ Passed(j, l)
          \/ Passed(i, k) /\ j = txi /\ l = inp
          \/ i = txi /\ k = inp /\ Passed(j, l)
          \/ i = txi /\ k = inp /\ j = txi /\ l = inp
      BY <1>11
    <3>2. ~ (Passed(i, k) /\ j = txi /\ l = inp) /\ ~ (i = txi /\ k = inp /\ Passed(j, l))
      BY <1>2, <1>4, <1>5 DEF Running, Taken
    <3> QED BY <1>2, <3>1, <3>2 DEF Running, Distinct
  <2>4. Shared'
    <3> SUFFICES ASSUME NEW i \in DOMAIN block, NEW k \in Places(i),
                        ~ Passed(i, k)', Name(i, k) \in gone'
                 PROVE  \E j \in DOMAIN block : \E l \in Places(j) :
                          Passed(j, l)' /\ Name(j, l) = Name(i, k)
      BY <2>1 DEF Shared
    <3>1. CASE Name(i, k) = Input
      <4>1. inp \in Places(txi)
        BY <1>4 DEF Places, Current
      <4>2. PICK j \in DOMAIN block : j = txi
        BY <1>3
      <4>3. PICK l \in Places(j) : l = inp
        BY <4>1, <4>2
      <4>4. Passed(j, l)' /\ Name(j, l) = Input
        BY <1>4, <1>11, <4>2, <4>3
      <4> QED BY <3>1, <4>4
    <3>2. CASE Name(i, k) # Input
      <4>1. ~ Passed(i, k) /\ Name(i, k) \in gone
        BY <1>1, <1>11, <3>2
      <4>2. PICK j \in DOMAIN block : \E l \in Places(j) :
              Passed(j, l) /\ Name(j, l) = Name(i, k)
        BY <1>2, <4>1 DEF Running, Shared
      <4> QED BY <1>11, <4>2
    <3> QED BY <3>1, <3>2
  <2>5. block' \in Block /\ result' = "none" /\ txi' \in 1..Len(block') + 1
    BY <1>1, <1>2 DEF Running
  <2> QED BY <2>2, <2>3, <2>4, <2>5 DEF Running
<1>13. Removing'
  <2>1. Current' = Current
    BY <1>1 DEF Current
  <2>2. inp + 1 \in 1..Len(Listing[Current]) + 1
    BY <1>3, <1>4, ListingFacts
  <2>3. SharedHere'
    <3> SUFFICES ASSUME NEW k \in DOMAIN Listing[Current],
                        k >= inp + 1, Listing[Current][k] \in gone \cup {Input}
                 PROVE  \E l \in DOMAIN Listing[Current] :
                          l < inp + 1 /\ Listing[Current][l] = Listing[Current][k]
      BY <1>1, <2>1 DEF SharedHere
    <3>1. k \in Nat /\ Listing[Current][inp] = Input
      BY <1>3, ListingFacts DEF Input
    <3>2. CASE Listing[Current][k] = Input
      BY <1>4, <3>1, <3>2
    <3>3. CASE Listing[Current][k] \in gone
      <4>1. k >= inp
        BY <1>4, <3>1
      <4>2. PICK l \in DOMAIN Listing[Current] :
              l < inp /\ Listing[Current][l] = Listing[Current][k]
        BY <1>2, <3>3, <4>1 DEF Removing, SharedHere
      <4>3. l \in Nat
        BY <1>3, ListingFacts
      <4> QED BY <1>4, <4>2, <4>3
    <3> QED BY <3>2, <3>3
  <2> QED BY <1>1, <1>2, <2>1, <2>2, <2>3 DEF Removing
<1>14. LostOrUnderWay'
  <2> SUFFICES ASSUME NEW u \in (gone \cup {Input}) \ Consumed(applied)
               PROVE  \/ \E t \in Tx : u \in Inputs[t] /\ NamesTwice(t)
                      \/ \E k \in DOMAIN Listing[Current] : k < inp + 1 /\ u = Listing[Current][k]
    BY <1>1 DEF LostOrUnderWay, Current
  <2>1. CASE u = Input
    BY <1>4, <2>1 DEF Input
  <2>2. CASE u \in gone
    <3>1. \/ \E t \in Tx : u \in Inputs[t] /\ NamesTwice(t)
          \/ \E k \in DOMAIN Listing[Current] : k < inp /\ u = Listing[Current][k]
      BY <2>2 DEF IInv, LostOrUnderWay
    <3>2. \A k \in DOMAIN Listing[Current] : k \in Nat
      BY <1>3, ListingFacts
    <3> QED BY <1>4, <3>1, <3>2
  <2> QED BY <2>1, <2>2
<1> QED
  BY <1>1, <1>8, <1>9, <1>10, <1>12, <1>13, <1>14 DEF IInv, SpentOnce, FailsOnOverlap

LEMMA MissInputInv == ASSUME IInv, MissInput PROVE IInv'
<1>1. /\ pc = "input" /\ inp <= Len(Listing[Current])
      /\ ~ CheckUTXO(utxos, Input)
      /\ pc' = "idle" /\ result' = "failed"
      /\ UNCHANGED <<utxos, block, txi, inp, applied, gone>>
  BY DEF MissInput, Return
<1>2. Running /\ Removing
  BY <1>1 DEF IInv
<1>3. txi \in DOMAIN block /\ Current \in Tx
  BY <1>2, BlockFacts DEF Running, Removing, Current
<1>4. /\ inp \in DOMAIN Listing[Current] /\ inp \in Nat /\ Input \in Utxo
      /\ Input = Name(txi, inp) /\ Input = Listing[Current][inp] /\ Input \in Inputs[Current]
  BY <1>1, <1>2, <1>3, ListingFacts DEF Removing, Input, Name, Current
<1>5. Input \in Created(applied)
  BY <1>2, <1>3, <1>4 DEF Running, Known, Places, Current
<1>6. Input \in gone
  BY <1>1, <1>4, <1>5, MissedIsGone DEF IInv
<1>7. PICK l \in DOMAIN Listing[Current] : l < inp /\ Listing[Current][l] = Listing[Current][inp]
  BY <1>2, <1>4, <1>6 DEF Removing, SharedHere
<1>8. l # inp
  BY <1>3, <1>4, <1>7, ListingFacts
<1>9. NamesTwice(Current)
  BY <1>4, <1>7, <1>8 DEF NamesTwice
<1>10. Overlaps(block)
  BY <1>3, <1>4, <1>7, <1>8 DEF Overlaps, Current
<1>11. LostOrUnderWay'
  <2> SUFFICES ASSUME NEW u \in gone \ Consumed(applied)
               PROVE  \E t \in Tx : u \in Inputs[t] /\ NamesTwice(t)
    BY <1>1 DEF LostOrUnderWay
  <2>1. CASE \E k \in DOMAIN Listing[Current] : k < inp /\ u = Listing[Current][k]
    BY <1>3, <1>9, <2>1, ListingFacts
  <2>2. CASE ~ \E k \in DOMAIN Listing[Current] : k < inp /\ u = Listing[Current][k]
    BY <2>2 DEF IInv, LostOrUnderWay
  <2> QED BY <2>1, <2>2
<1>12. TypeOK'
  BY <1>1 DEF IInv, TypeOK
<1> QED
  BY <1>1, <1>10, <1>11, <1>12 DEF IInv, ListsCreated, Accounted, SpentOnce, FailsOnOverlap

LEMMA AddOutputsInv == ASSUME IInv, AddOutputs PROVE IInv'
<1>1. /\ pc = "input" /\ inp > Len(Listing[Current])
      /\ utxos' = [u \in Utxo |-> utxos[u] + (IF u \in Outputs[Current] THEN 1 ELSE 0)]
      /\ applied' = applied \cup {Current}
      /\ pc' = "tx" /\ txi' = txi + 1 /\ inp' = 1
      /\ UNCHANGED <<block, result, gone>>
  BY DEF AddOutputs
<1>2. Running /\ Removing
  BY <1>1 DEF IInv
<1>3. txi \in DOMAIN block /\ Current \in Tx /\ txi \in Nat
  BY <1>2, BlockFacts DEF Running, Removing, Current
<1>4. /\ \A k \in DOMAIN Listing[Current] : k < inp
      /\ inp \in Nat
  BY <1>1, <1>2, <1>3, ListingFacts DEF Removing
<1>5. \A k \in DOMAIN Listing[Current] : Listing[Current][k] \in gone
  BY <1>2, <1>3, <1>4 DEF Running, Taken, Passed, Places, Name, Current
<1>6. Inputs[Current] \subseteq gone
  BY <1>3, <1>5, ListingFacts
<1>7. Current \notin applied
  <2>1. Inputs[Current] # {}
    BY <1>3, ListingFacts
  <2> QED BY <1>2, <2>1 DEF Removing, Consumed
<1>8. /\ Created(applied') = Created(applied) \cup Outputs[Current]
      /\ Consumed(applied') = Consumed(applied) \cup Inputs[Current]
  BY <1>1 DEF Created, Consumed
<1>9. Outputs[Current] \cap Created(applied) = {}
  <2>1. \A t \in applied : t \in Tx /\ t # Current
    BY <1>7 DEF IInv, TypeOK
  <2>2. \A t \in applied : Outputs[Current] \cap Outputs[t] = {}
    BY <1>3, <2>1, LedgerAssumption
  <2>3. Outputs[Current] \cap Initial = {}
    BY <1>3, LedgerAssumption
  <2> QED BY <2>2, <2>3 DEF Created
<1>10. Outputs[Current] \cap gone = {}
  BY <1>9 DEF IInv, Accounted
<1>11. ListsCreated'
  <2> SUFFICES ASSUME NEW u \in Utxo
               PROVE  utxos'[u] = IF u \in Created(applied') \ gone THEN 1 ELSE 0
    BY <1>1 DEF ListsCreated
  <2>1. utxos[u] = IF u \in Created(applied) \ gone THEN 1 ELSE 0
    BY DEF IInv, ListsCreated
  <2>2. utxos'[u] = utxos[u] + (IF u \in Outputs[Current] THEN 1 ELSE 0)
    BY <1>1
  <2> QED BY <1>8, <1>9, <1>10, <2>1, <2>2
<1>12. Accounted'
  BY <1>1, <1>6, <1>8 DEF IInv, Accounted
<1>13. SpentOnce'
  <2>1. \A t \in applied : Inputs[t] \cap Inputs[Current] = {}
    BY <1>2 DEF Removing, Consumed
  <2> QED BY <1>1, <2>1 DEF IInv, SpentOnce, Conflict
<1>14. \A i \in DOMAIN block : \A k \in Places(i) : Passed(i, k)' <=> Passed(i, k)
  <2> SUFFICES ASSUME NEW i \in DOMAIN block, NEW k \in Places(i)
               PROVE  Passed(i, k)' <=> Passed(i, k)
    OBVIOUS
  <2>1. i \in Nat /\ block[i] \in Tx
    BY <1>2, BlockFacts DEF Running
  <2>2. k \in Nat \ {0}
    BY <2>1, ListingFacts DEF Places
  <2>3. i = txi => k < inp
    BY <1>4 DEF Places, Current
  <2> QED BY <1>1, <1>3, <2>1, <2>2, <2>3 DEF Passed
<1>15. Running'
  <2>1. /\ \A i \in DOMAIN block : Places(i)' = Places(i)
        /\ \A i \in DOMAIN block : \A k \in Places(i) : Name(i, k)' = Name(i, k)
        /\ block' = block
    BY <1>1 DEF Places, Name
  <2>2. Known'
    BY <1>2, <1>8, <2>1 DEF Running, Known
  <2>3. Taken' /\ Distinct' /\ Shared'
    BY <1>1, <1>2, <1>14, <2>1 DEF Running, Taken, Distinct, Shared
  <2>4. txi' \in 1..Len(block') + 1
    <3>1. Len(block) \in Nat /\ DOMAIN block = 1..Len(block)
      BY <1>2, BlockFacts DEF Running
    <3> QED BY <1>1, <1>3, <3>1
  <2> QED BY <1>1, <1>2, <2>2, <2>3, <2>4 DEF Running
<1>16. LostOrUnderWay'
  <2> SUFFICES ASSUME NEW u \in gone \ (Consumed(applied) \cup Inputs[Current])
               PROVE  \E t \in Tx : u \in Inputs[t] /\ NamesTwice(t)
    BY <1>1, <1>8 DEF LostOrUnderWay
  <2>1. ~ \E k \in DOMAIN Listing[Current] : k < inp /\ u = Listing[Current][k]
    BY <1>3, ListingFacts
  <2> QED BY <2>1 DEF IInv, LostOrUnderWay
<1>17. TypeOK'
  <2>1. utxos \in UTXOSet /\ applied \subseteq Tx /\ gone \subseteq Utxo
    BY DEF IInv, TypeOK
  <2>2. utxos' \in UTXOSet
    BY <1>1, <2>1 DEF UTXOSet
  <2>3. applied' \subseteq Tx /\ txi' \in Nat \ {0} /\ gone' \subseteq Utxo
    BY <1>1, <1>3, <2>1
  <2>4. block' \in Block /\ result' = "none"
    BY <1>1, <1>2 DEF Running
  <2> QED BY ONLY <1>1, <2>2, <2>3, <2>4 DEF TypeOK
<1> QED
  BY <1>1, <1>11, <1>12, <1>13, <1>15, <1>16, <1>17 DEF IInv, FailsOnOverlap, Running

LEMMA EndBlockInv == ASSUME IInv, EndBlock PROVE IInv'
<1>1. /\ pc = "tx" /\ txi > Len(block) /\ pc' = "idle" /\ result' = "ok"
      /\ UNCHANGED <<utxos, block, txi, inp, applied, gone>>
  BY DEF EndBlock, Return
<1>2. Running
  BY <1>1 DEF IInv
<1>3. ~ Overlaps(block)
  <2>1. \A i \in DOMAIN block : i < txi
    BY <1>1, <1>2, BlockFacts DEF Running
  <2> QED BY <1>2, <2>1 DEF Running, Distinct, Passed, Overlaps, Places, Name
<1>4. TypeOK'
  BY <1>1 DEF IInv, TypeOK
<1> QED
  BY <1>1, <1>3, <1>4
     DEF IInv, ListsCreated, Accounted, SpentOnce, FailsOnOverlap, LostOrUnderWay

LEMMA RemoveBlockInv == ASSUME IInv, RemoveBlock PROVE IInv'
<1>1. /\ pc = "idle" /\ pc' = "idle" /\ result' = "not removed"
      /\ UNCHANGED <<utxos, block, txi, inp, applied, gone>>
  BY DEF RemoveBlock, Return
<1>2. TypeOK'
  BY <1>1 DEF IInv, TypeOK
<1> QED
  BY <1>1, <1>2 DEF IInv, ListsCreated, Accounted, SpentOnce, FailsOnOverlap, LostOrUnderWay

LEMMA StutterInv == ASSUME IInv, UNCHANGED vars PROVE IInv'
<1>1. UNCHANGED <<utxos, block, pc, txi, inp, result, applied, gone>>
  BY DEF vars, callVars
<1>2. TypeOK' /\ ListsCreated' /\ Accounted' /\ SpentOnce' /\ FailsOnOverlap'
  BY <1>1 DEF IInv, TypeOK, ListsCreated, Accounted, SpentOnce, FailsOnOverlap
<1>3. LostOrUnderWay'
  BY <1>1 DEF IInv, LostOrUnderWay, Current
<1>4. Running' = Running
  BY <1>1 DEF Running, Known, Taken, Distinct, Shared, Passed, Places, Name
<1>5. Removing' = Removing
  BY <1>1 DEF Removing, SharedHere, Current
<1> QED BY <1>1, <1>2, <1>3, <1>4, <1>5 DEF IInv

LEMMA NextInv == IInv /\ [Next]_vars => IInv'
<1> SUFFICES ASSUME IInv, [Next]_vars PROVE IInv'
  OBVIOUS
<1>1. CASE \E b \in Block : RefuseBlock(b)
  BY <1>1, RefuseBlockInv
<1>2. CASE \E b \in Block : BeginBlock(b)
  BY <1>2, BeginBlockInv
<1>3. CASE RefuseTx
  BY <1>3, RefuseTxInv
<1>4. CASE BeginTx
  BY <1>4, BeginTxInv
<1>5. CASE RemoveInput
  BY <1>5, RemoveInputInv
<1>6. CASE MissInput
  BY <1>6, MissInputInv
<1>7. CASE AddOutputs
  BY <1>7, AddOutputsInv
<1>8. CASE EndBlock
  BY <1>8, EndBlockInv
<1>9. CASE RemoveBlock
  BY <1>9, RemoveBlockInv
<1>10. CASE UNCHANGED vars
  BY <1>10, StutterInv
<1> QED
  BY <1>1, <1>2, <1>3, <1>4, <1>5, <1>6, <1>7, <1>8, <1>9, <1>10 DEF Next

LEMMA Invariant == Spec => []IInv
BY InitInv, NextInv, PTL DEF Spec

(* Whatever blocks AddBlock is called with, its variables are well typed;  *)
(* above all, no output is ever listed less than zero times.               *)
THEOREM UtxoBlocksTypeCorrect == Spec => []TypeOK
<1>1. IInv => TypeOK
  BY DEF IInv
<1> QED BY Invariant, <1>1, PTL

(* A call of AddBlock fails after its first check exactly if the block     *)
(* names an output twice.                                                  *)
THEOREM HalfwayFailures == Spec => []FailsOnOverlap
<1>1. IInv => FailsOnOverlap
  BY DEF IInv
<1> QED BY Invariant, <1>1, PTL

(* Whatever fails halfway, every created output not yet taken out is       *)
(* listed, once, and nothing else is.                                      *)
THEOREM SetListsCreated == Spec => []ListsCreated
<1>1. IInv => ListsCreated
  BY DEF IInv
<1> QED BY Invariant, <1>1, PTL

(* AddBlock never applies two transactions that spend the same output,     *)
(* though its first check lets blocks with such transactions pass.         *)
THEOREM BlocksSpendOnce == Spec => []SpentOnce
<1>1. IInv => SpentOnce
  BY DEF IInv
<1> QED BY Invariant, <1>1, PTL

(* Only a transaction that names an output twice takes one out for nothing. *)
THEOREM OnlyTwiceNamedLost == Spec => []LostByTwice
<1>1. IInv => LostByTwice
  BY DEF IInv, LostOrUnderWay, LostByTwice
<1> QED BY Invariant, <1>1, PTL
=============================================================================
