-------------------------------- MODULE Wire --------------------------------
(***************************************************************************)
(* A transaction from the client that signs it to the last miner that      *)
(* checks it, and the blocks it travels in: what conversion to and from    *)
(* gRPC (internal/server/convert.go), hashing and signing make of it.      *)
(*                                                                         *)
(* SHA-256 and ECDSA are perfect: a hash is what was hashed, a signature   *)
(* is valid for the hash and the key it was made with and for no other.    *)
(* Every process converts alike, a call is one step, and what miners do    *)
(* with what they accept is module MinerNetwork.                           *)
(***************************************************************************)
EXTENDS Signature, Integers, SequencesExt

CONSTANTS Miner, Key,
          Address,   \* Address[key]: Key2Addr
          Funds,     \* lists of outputs a client can choose as inputs
          Amount,    \* amounts to send
          MaxInt32,  \* 2^31 - 1
          Height,    \* heights of blocks, a bound of the model
          MaxTx, MaxBlocks,  \* bounds of the model
          Nil        \* the empty string, where a hash would be

VARIABLES
  wallet,   \* the transactions clients have signed
  signed,   \* history: for which hash and key ecdsa has made which r and s
  pool,     \* pool[m]: transactions m has accepted
  blocks,   \* blocks[m]: blocks m has made or accepted
  rejected  \* history: <<block, m>> when m found block invalid

vars == <<wallet, signed, pool, blocks, rejected>>

-----------------------------------------------------------------------------
(***************************************************************************)
(* convert.go                                                              *)
(***************************************************************************)
Each(list, Convert(_)) == [i \in DOMAIN list |-> Convert(list[i])]

(* int32(x) *)
Int32(x) == ((x + MaxInt32 + 1) % (2 * (MaxInt32 + 1))) - (MaxInt32 + 1)

ConvertUTXOToGrpc(utxo) ==
  [tx_hash |-> utxo.txid, index |-> Int32(utxo.index),
   amount |-> utxo.amount, address |-> utxo.address]

(* Faulty variant: the position of an output is left out.                  *)
ConvertWithoutIndex(utxo) ==
  [txid |-> utxo.tx_hash, index |-> 0, amount |-> utxo.amount, address |-> utxo.address]

ConvertGrpcToUTXO(utxo) ==
  [txid |-> utxo.tx_hash, index |-> utxo.index, amount |-> utxo.amount, address |-> utxo.address]

ConvertTransactionToGrpc(tx) ==
  [inputs |-> Each(tx.inputs, ConvertUTXOToGrpc), outputs |-> Each(tx.outputs, ConvertUTXOToGrpc),
   timestamp |-> tx.time, signature |-> tx.signature, hash |-> tx.hash, senderpubkey |-> tx.sender]

ConvertGrpcToTransaction(tx) ==
  [inputs |-> Each(tx.inputs, ConvertGrpcToUTXO), outputs |-> Each(tx.outputs, ConvertGrpcToUTXO),
   time |-> tx.timestamp, signature |-> tx.signature, hash |-> tx.hash, sender |-> tx.senderpubkey]

ConvertBlockToGrpc(b) ==
  [header |-> [b.header EXCEPT !.height = Int32(@)],
   transactions |-> Each(b.transactions, ConvertTransactionToGrpc), hash |-> b.hash]

(* Faulty variant: a field of the header is left out.                      *)
ConvertWithoutHeight(b) ==
  [header |-> [b.header EXCEPT !.height = 0],
   transactions |-> Each(b.transactions, ConvertGrpcToTransaction), hash |-> b.hash]

ConvertGrpcToBlock(b) ==
  [header |-> b.header, transactions |-> Each(b.transactions, ConvertGrpcToTransaction), hash |-> b.hash]

-----------------------------------------------------------------------------
(***************************************************************************)
(* Transactions.                                                           *)
(***************************************************************************)
Total(list) == FoldLeft(LAMBDA sum, u : sum + u.amount, 0, list)

(* The hash of a transaction covers its content, and nothing else is set   *)
(* when it is taken.                                                       *)
NewTransaction(inputs, sender, recipient, amount, time) ==
  LET left == Total(inputs) - amount
      pay == [txid |-> Nil, index |-> 0, amount |-> amount, address |-> Address[recipient]]
      change == [txid |-> Nil, index |-> 1, amount |-> left, address |-> Address[sender]]
  IN  [inputs |-> inputs, outputs |-> IF left > 0 THEN <<pay, change>> ELSE <<pay>>,
       sender |-> sender, time |-> time]

VerifyContent(tx) ==
  /\ Len(tx.outputs) <= 2
  /\ \A u \in ToSet(tx.inputs) :
       u.amount > 0 /\ u.txid # Nil /\ u.address = Address[tx.sender]
  /\ \A i \in DOMAIN tx.outputs :
       LET u == tx.outputs[i] IN u.amount > 0 /\ u.txid = Nil /\ u.index = i - 1
  /\ Total(tx.inputs) = Total(tx.outputs)
  /\ Len(tx.outputs) > 1 => tx.outputs[2].address = Address[tx.sender]

(* Of the transaction it looks at the hash it carries only.                *)
VerifySignature(tx) ==
  \E x \in signed :
    x.hash = tx.hash /\ x.key = tx.sender /\ <<x.r, x.s>> = Decode(tx.signature)

Verify(tx) == VerifyContent(tx) /\ VerifySignature(tx)

-----------------------------------------------------------------------------
(***************************************************************************)
(* Blocks.                                                                 *)
(***************************************************************************)
(* The hashes of the transactions, joined.                                 *)
ContentHash(transactions) == [i \in DOMAIN transactions |-> transactions[i].hash]

(* With a nonce for which the hash is below the target.                    *)
NewBlock(height, transactions) ==
  LET header == [height |-> height, contentHash |-> ContentHash(transactions)]
  IN  [header |-> header, transactions |-> transactions, hash |-> header]

VerifyBlock(b) ==
  /\ \A tx \in ToSet(b.transactions) : Verify(tx)
  /\ ContentHash(b.transactions) = b.header.contentHash
  /\ b.header = b.hash

-----------------------------------------------------------------------------
(***************************************************************************)
(* What the lists hold, at home and under way.  The position of an output  *)
(* fits the field it travels in: a transaction makes at most two.          *)
(***************************************************************************)
TxID == {Nil} \cup {u.txid : u \in UNION {ToSet(list) : list \in Funds}}
Holder == {Address[key] : key \in Key}

Output == [txid : TxID, index : 0..MaxInt32, amount : Nat, address : Holder]
GrpcOutput == [tx_hash : TxID, index : 0..MaxInt32, amount : Nat, address : Holder]

Content == [inputs : Seq(Output), outputs : Seq(Output), sender : Key, time : Nat]
Transaction ==
  [inputs : Seq(Output), outputs : Seq(Output), sender : Key, time : Nat,
   signature : Seq(Byte), hash : Content]
GrpcTransaction ==
  [inputs : Seq(GrpcOutput), outputs : Seq(GrpcOutput), senderpubkey : Key, timestamp : Nat,
   signature : Seq(Byte), hash : Content]

ASSUME WireAssumption ==
  /\ \A list \in Funds : list \in Seq(Output) /\ Total(list) \in Nat
  /\ Amount \subseteq Nat
  /\ MaxInt32 \in Nat \ {0}
  /\ Height \subseteq Nat
  /\ MaxTx \in Nat

-----------------------------------------------------------------------------
Init ==
  /\ wallet = {} /\ signed = {}
  /\ pool = [m \in Miner |-> {}] /\ blocks = [m \in Miner |-> {}]
  /\ rejected = {}

(* NewTransaction checks the content itself; Sign sets signature and hash. *)
Sign(content, r, s) ==
  /\ Cardinality(wallet) < MaxTx
  /\ VerifyContent(content)
  /\ \A tx \in wallet : tx.time < content.time
  /\ wallet' = wallet \cup
       {[inputs |-> content.inputs, outputs |-> content.outputs, sender |-> content.sender,
         time |-> content.time, signature |-> Encode(r, s), hash |-> content]}
  /\ signed' = signed \cup {[hash |-> content, key |-> content.sender, r |-> r, s |-> s]}
  /\ UNCHANGED <<pool, blocks, rejected>>

(* SubmitTransaction, by a client or in the broadcast of another miner; a  *)
(* transaction that is not valid is answered with an error.                *)
SubmitTransaction(tx, m) ==
  LET received == ConvertGrpcToTransaction(ConvertTransactionToGrpc(tx)) IN
  /\ \A other \in pool[m] : other.hash # received.hash
  /\ Verify(received)
  /\ pool' = [pool EXCEPT ![m] = @ \cup {received}]
  /\ UNCHANGED <<wallet, signed, blocks, rejected>>

(* A miner asks its pool for one transaction, and waits until it gets it.  *)
CreateBlock(m, height, tx) ==
  /\ Cardinality(UNION {blocks[n] : n \in Miner}) < MaxBlocks
  /\ blocks' = [blocks EXCEPT ![m] = @ \cup {NewBlock(height, <<tx>>)}]
  /\ UNCHANGED <<wallet, signed, pool, rejected>>

(* SubmitBlock, up to the verification.                                    *)
SubmitBlock(b, m) ==
  LET received == ConvertGrpcToBlock(ConvertBlockToGrpc(b)) IN
  /\ IF VerifyBlock(received)
     THEN blocks' = [blocks EXCEPT ![m] = @ \cup {received}] /\ UNCHANGED rejected
     ELSE rejected' = rejected \cup {<<b, m>>} /\ UNCHANGED blocks
  /\ UNCHANGED <<wallet, signed, pool>>

Next ==
  \/ \E sender, recipient \in Key, inputs \in Funds, amount \in Amount, time \in 1..MaxTx :
       \E r, s \in Number :
         /\ sender # recipient /\ amount <= Total(inputs)
         /\ Sign(NewTransaction(inputs, sender, recipient, amount, time), r, s)
  \/ \E m, n \in Miner :
       \/ \E tx \in wallet \cup pool[n] : SubmitTransaction(tx, m)
       \/ \E b \in blocks[n] : SubmitBlock(b, m)
       \/ \E height \in Height, tx \in pool[m] : CreateBlock(m, height, tx)

Spec == Init /\ [][Next]_vars

-----------------------------------------------------------------------------
(***************************************************************************)
(* Properties.                                                             *)
(***************************************************************************)
HeldBy(m) == pool[m] \cup UNION {ToSet(b.transactions) : b \in blocks[m]}
Copies == UNION {HeldBy(m) : m \in Miner}

(* After any number of conversions, by transaction or inside blocks, what  *)
(* a miner has is to the last field what a client signed, although nobody  *)
(* compares the content with the hash.                                     *)
SameEverywhere == Copies \subseteq wallet

(* Whether a signature is found valid is a matter of two lengths: the      *)
(* same everywhere, and wrong whenever s is shorter than r.                *)
ValidIfBalanced ==
  \A x \in signed, tx \in wallet \cup Copies :
    tx.hash = x.hash => (VerifySignature(tx) <=> Balanced(x.r, x.s))

(* A block whose miner could make it is valid for every other miner, from  *)
(* whatever copy it is checked, if its height fits the field it travels in.*)
BlocksSurvive == \A x \in rejected : x[1].header.height > MaxInt32
=============================================================================
