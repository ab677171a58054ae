----------------------------- MODULE UtxoBlocks -----------------------------
(***************************************************************************)
(* UTXOSet.AddBlock and RemoveBlock, loop iteration by loop iteration, for *)
(* blocks with any number of transactions                                  *)
(* (internal/blockchain/utxo.go).                                          *)
(*                                                                         *)
(* AddBlock checks all transactions, then applies one after another; each  *)
(* is checked again, its inputs are removed one by one and its outputs     *)
(* added.  A removal that does not find its output ends the call with an   *)
(* error, and nothing that was done is undone.  VerifyContent does not     *)
(* object to a transaction that names an input twice, nor the first check  *)
(* to transactions of a block that name the same input.                    *)
(*                                                                         *)
(* The miners of this repository put one transaction into a block, whose   *)
(* inputs GetUTXOs chose; module MinerNetwork has these blocks only, and   *)
(* adds them in one step.  Calls come one after another here.              *)
(***************************************************************************)
EXTENDS Ledger, Sequences

CONSTANTS Listing,   \* the inputs of a transaction, in their order
          Block,     \* the blocks, as sequences of verified transactions
          NoStamp    \* an output without TxID, as transactions hold them

(* VerifyContent refuses an input without TxID and an output with one.     *)
ASSUME BlockAssumption ==
  /\ Listing \in [Tx -> Seq(Utxo)]
  /\ \A t \in Tx : Inputs[t] = {Listing[t][k] : k \in DOMAIN Listing[t]}
  /\ Block \subseteq Seq(Tx) \ {<<>>}
  /\ NoStamp \in Utxo \ Initial
  /\ \A t \in Tx : NoStamp \notin Inputs[t] \cup Outputs[t]

VARIABLES
  utxos,     \* UTXOSet.utxos
  block,     \* the argument of the last call
  pc,        \* "idle", "tx" (before AddTransaction), "input" (in its loop)
  txi, inp,  \* the transaction, and the input, that are next
  result,    \* what the last call returned
  applied,   \* history: transactions applied to the end
  gone       \* history: outputs RemoveUTXO took out

callVars == <<block, pc, txi, inp, result>>
vars == <<utxos, callVars, applied, gone>>

Init ==
  /\ utxos = NewUTXOSet
  /\ block = <<>> /\ pc = "idle" /\ txi = 1 /\ inp = 1 /\ result = "none"
  /\ applied = {} /\ gone = {}

Current == block[txi]
Input == Listing[Current][inp]

Return(value) == pc' = "idle" /\ result' = value

-----------------------------------------------------------------------------
(* Faulty variant: leaves the checks to AddTransaction.                    *)
CheckNothing(b) == Len(b) > 0

CheckBlock(b) == \A i \in DOMAIN b : CheckTransaction(utxos, b[i])

RefuseBlock(b) ==
  /\ pc = "idle" /\ ~ CheckBlock(b)
  /\ block' = b /\ Return("refused")
  /\ UNCHANGED <<utxos, txi, inp, applied, gone>>

BeginBlock(b) ==
  /\ pc = "idle" /\ CheckBlock(b)
  /\ block' = b /\ pc' = "tx" /\ txi' = 1 /\ inp' = 1 /\ result' = "none"
  /\ UNCHANGED <<utxos, applied, gone>>

(* AddTransaction finds that an earlier transaction took an input. *)
RefuseTx ==
  /\ pc = "tx" /\ txi <= Len(block)
  /\ ~ CheckTransaction(utxos, Current)
  /\ Return("failed")
  /\ UNCHANGED <<utxos, block, txi, inp, applied, gone>>

(* Faulty variant: relies on the check of the block.                       *)
BeginTxUnchecked ==
  /\ pc = "tx" /\ txi <= Len(block)
  /\ pc' = "input" /\ inp' = 1
  /\ UNCHANGED <<utxos, block, txi, result, applied, gone>>

BeginTx ==
  /\ pc = "tx" /\ txi <= Len(block)
  /\ CheckTransaction(utxos, Current)
  /\ pc' = "input" /\ inp' = 1
  /\ UNCHANGED <<utxos, block, txi, result, applied, gone>>

(* RemoveUTXO *)
RemoveInput ==
  /\ pc = "input" /\ inp <= Len(Listing[Current])
  /\ CheckUTXO(utxos, Input)
  /\ utxos' = [utxos EXCEPT ![Input] = @ - 1]
  /\ gone' = gone \cup {Input}
  /\ inp' = inp + 1
  /\ UNCHANGED <<block, pc, txi, result, applied>>

(* RemoveUTXO does not find the output. *)
MissInput ==
  /\ pc = "input" /\ inp <= Len(Listing[Current])
  /\ ~ CheckUTXO(utxos, Input)
  /\ Return("failed")
  /\ UNCHANGED <<utxos, block, txi, inp, applied, gone>>

(* Faulty variant: adds the outputs as the transaction holds them.         *)
AddBare ==
  /\ pc = "input" /\ inp > Len(Listing[Current])
  /\ utxos' = [utxos EXCEPT ![NoStamp] = @ + 1]
  /\ applied' = applied \cup {Current}
  /\ pc' = "tx" /\ txi' = txi + 1 /\ inp' = 1
  /\ UNCHANGED <<block, result, gone>>

(* GetUTXO and AddUTXO for every output. *)
AddOutputs ==
  /\ pc = "input" /\ inp > Len(Listing[Current])
  /\ utxos' = [u \in Utxo |-> utxos[u] + (IF u \in Outputs[Current] THEN 1 ELSE 0)]
  /\ applied' = applied \cup {Current}
  /\ pc' = "tx" /\ txi' = txi + 1 /\ inp' = 1
  /\ UNCHANGED <<block, result, gone>>

EndBlock ==
  /\ pc = "tx" /\ txi > Len(block)
  /\ Return("ok")
  /\ UNCHANGED <<utxos, block, txi, inp, applied, gone>>

(* RemoveBlock of the block just added looks for the outputs of its last   *)
(* transaction as the transaction holds them, and does not find the first. *)
(* What follows in its loop is never reached (ListsCreated).               *)
RemoveBlock ==
  /\ pc = "idle" /\ result = "ok"
  /\ ~ CheckUTXO(utxos, NoStamp)
  /\ Return("not removed")
  /\ UNCHANGED <<utxos, block, txi, inp, applied, gone>>

Next == \/ \E b \in Block : RefuseBlock(b) \/ BeginBlock(b)
        \/ RefuseTx \/ BeginTx \/ RemoveInput \/ MissInput \/ AddOutputs
        \/ EndBlock \/ RemoveBlock

Spec == Init /\ [][Next]_vars

-----------------------------------------------------------------------------
(***************************************************************************)
(* Properties.                                                             *)
(***************************************************************************)
TypeOK ==
  /\ utxos \in UTXOSet
  /\ block \in Block \cup {<<>>}
  /\ pc \in {"idle", "tx", "input"}
  /\ txi \in Nat \ {0} /\ inp \in Nat \ {0}
  /\ pc = "input" => txi \in DOMAIN block
  /\ result \in {"none", "refused", "failed", "ok", "not removed"}
  /\ applied \subseteq Tx
  /\ gone \subseteq Utxo

(* An output is named at two places: by one transaction or by two.         *)
Overlaps(b) ==
  \E i, j \in DOMAIN b : \E k \in DOMAIN Listing[b[i]], l \in DOMAIN Listing[b[j]] :
    /\ i # j \/ k # l
    /\ Listing[b[i]][k] = Listing[b[j]][l]

NamesTwice(t) == \E k, l \in DOMAIN Listing[t] : k # l /\ Listing[t][k] = Listing[t][l]

(* A block that passes the first check fails afterwards, with what was     *)
(* done until then left in the set (utxo.go:106-111), exactly if it names  *)
(* an output twice.                                                        *)
FailsOnOverlap ==
  /\ result = "failed" => Overlaps(block)
  /\ result = "ok" => ~ Overlaps(block)

(* Whatever fails halfway, the set lists what was created by transactions  *)
(* applied to the end and not yet taken out, each output once: no failure  *)
(* makes an output, and none comes back.                                   *)
ListsCreated ==
  \A u \in Utxo : utxos[u] = IF u \in Created(applied) \ gone THEN 1 ELSE 0

(* No two transactions applied to the end spend the same output, although  *)
(* the check of the block does not compare its transactions.               *)
SpentOnce == \A s, t \in applied : ~ Conflict(s, t)

(* An output is lost, taken out for nothing, only by a transaction that    *)
(* names an output twice: the second check keeps a transaction of which an *)
(* input is missing from taking out the others.                            *)
LostByTwice ==
  pc = "idle" =>
    \A u \in gone \ Consumed(applied) : \E t \in Tx : u \in Inputs[t] /\ NamesTwice(t)
=============================================================================
