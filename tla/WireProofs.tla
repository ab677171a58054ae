---------------------------- MODULE WireProofs ------------------------------
(***************************************************************************)
(* What conversion, hashing and signing preserve, for numbers of any       *)
(* length, any number of transactions, miners, blocks and conversions.     *)
(***************************************************************************)
EXTENDS Wire, FiniteSetTheorems, TLAPS

(* Dropping zeros makes no string longer, and changes none that begins     *)
(* with another digit.                                                     *)
LEMMA DropsZeros ==
  ASSUME NEW b \in Seq(Byte)
  PROVE  /\ SetBytes(b) \in Seq(Byte)
         /\ Len(SetBytes(b)) <= Len(b)
         /\ b # <<>> /\ b[1] # 0 => SetBytes(b) = b
<1> DEFINE zeros == LeadingZeros(b)
<1>1. zeros \subseteq 1..Len(b) /\ IsFiniteSet(1..Len(b)) /\ Cardinality(1..Len(b)) = Len(b)
  <2>1. Len(b) \in Nat
    OBVIOUS
  <2>2. IsFiniteSet(1..Len(b)) /\ Cardinality(1..Len(b)) = IF 1 > Len(b) THEN 0 ELSE Len(b) - 1 + 1
    BY <2>1, FS_Interval
  <2>3. zeros \subseteq 1..Len(b)
    BY DEF LeadingZeros
  <2> QED
    BY <2>1, <2>2, <2>3
<1>2. IsFiniteSet(zeros) /\ Cardinality(zeros) \in Nat /\ Cardinality(zeros) <= Len(b)
  BY <1>1, FS_Subset, FS_CardinalityType
<1>3. SetBytes(b) = SubSeq(b, Cardinality(zeros) + 1, Len(b))
  BY DEF SetBytes
<1> HIDE DEF zeros
<1>4. SetBytes(b) \in Seq(Byte) /\ Len(SetBytes(b)) <= Len(b)
  BY <1>2, <1>3
<1>5. ASSUME b # <<>>, b[1] # 0
      PROVE  SetBytes(b) = b
  <2>1. zeros = {}
    BY <1>5 DEF zeros, LeadingZeros
  <2>2. Cardinality(zeros) = 0
    BY <2>1, FS_EmptySet
  <2> QED
    BY <1>3, <2>2
<1> QED
  BY <1>4, <1>5

(* A number is a byte string that does not begin with zero.                *)
LEMMA Numbers ==
  ASSUME NEW b \in Number
  PROVE  b \in Seq(Byte) /\ Len(b) \in Nat \ {0} /\ b[1] # 0
<1>1. PICK n \in 1..MaxBytes : b \in [1..n -> Byte] /\ b[1] # 0
  BY DEF Number
<1>2. n \in Nat \ {0}
  BY <1>1, SignatureAssumption
<1> QED
  BY <1>1, <1>2

(* The cut finds the two numbers again just if s is as long as r, or one   *)
(* byte longer.  A first part that is too short has not the length of r,   *)
(* and one that is too long begins like r and is longer.                   *)
LEMMA CutInTheMiddle ==
  ASSUME NEW r \in Number, NEW s \in Number
  PROVE  Decode(Encode(r, s)) = <<r, s>> <=> Balanced(r, s)
<1> DEFINE a == Len(r)
           c == Len(s)
           e == r \o s
           h == Half(e)
           first == SubSeq(e, 1, h)
           second == SubSeq(e, h + 1, Len(e))
<1>1. r \in Seq(Byte) /\ s \in Seq(Byte) /\ a \in Nat \ {0} /\ c \in Nat \ {0} /\ r[1] # 0 /\ s[1] # 0
  BY Numbers
<1>2. e \in Seq(Byte) /\ Len(e) = a + c
  BY <1>1
<1>3. h = (a + c) \div 2 /\ h \in 1..(a + c)
  BY <1>1, <1>2 DEF Half
<1>4. first \in Seq(Byte) /\ Len(first) = h /\ first[1] = r[1]
  BY <1>1, <1>2, <1>3
<1>5. SetBytes(first) = first
  <2>1. first # <<>> /\ first[1] # 0
    BY <1>1, <1>3, <1>4
  <2> HIDE DEF first
  <2> QED
    BY <1>4, <2>1, DropsZeros
<1>6. Decode(Encode(r, s)) = <<first, SetBytes(second)>>
  BY <1>5 DEF Decode, Encode
<1>7. h = a <=> Balanced(r, s)
  BY <1>1, <1>3 DEF Balanced
<1>8. CASE h = a
  <2>1. first = r
    <3>1. Len(first) = a
      BY <1>4, <1>8
    <3>2. \A i \in 1..a : first[i] = r[i]
      BY <1>1, <1>2, <1>8
    <3> HIDE DEF first
    <3> QED
      BY <1>1, <1>4, <3>1, <3>2
  <2>2. second = s
    <3>1. second \in Seq(Byte) /\ Len(second) = c
      BY <1>1, <1>2, <1>8
    <3>2. \A i \in 1..c : second[i] = s[i]
      BY <1>1, <1>2, <1>8
    <3> HIDE DEF second
    <3> QED
      BY <1>1, <3>1, <3>2
  <2>3. SetBytes(second) = s
    <3>1. s # <<>> /\ SetBytes(s) = s
      <4>1. s # <<>>
        BY <1>1
      <4> QED
        BY <1>1, <4>1, DropsZeros
    <3> HIDE DEF second
    <3> QED
      BY <2>2, <3>1
  <2> QED
    BY <1>6, <1>7, <1>8, <2>1, <2>3
<1>9. CASE h # a
  <2>1. first # r
    BY <1>4, <1>9
  <2> HIDE DEF first, second
  <2>2. Decode(Encode(r, s)) # <<r, s>>
    BY <1>6, <2>1
  <2> QED
    BY <1>7, <1>9, <2>2
<1> QED
  BY <1>8, <1>9

-----------------------------------------------------------------------------
(* tx carries hash, key and signature of x.                                *)
Carries(tx, x) ==
  tx.hash = x.hash /\ tx.sender = x.key /\ tx.signature = Encode(x.r, x.s)

(* Every transaction there is goes back to one signing, and every signing  *)
(* has a hash of its own, because no two transactions of a wallet have the *)
(* same time.                                                              *)
IInv ==
  /\ \A x \in signed : x.r \in Number /\ x.s \in Number
  /\ \A x, y \in signed : x.hash = y.hash => x = y
  /\ \A x \in signed : \E tx \in wallet : tx.time = x.hash.time
  /\ \A tx \in wallet : tx.time \in Nat
  /\ \A tx \in wallet \cup Copies : \E x \in signed : Carries(tx, x)
  /\ DOMAIN pool = Miner /\ DOMAIN blocks = Miner

(* Where a copy is, now and after the step.                                *)
InBlocks(tx, m) == \E b \in blocks[m] : tx \in ToSet(b.transactions)

LEMMA WhereCopiesAre ==
  ASSUME NEW tx
  PROVE  tx \in Copies <=> \E m \in Miner : tx \in pool[m] \/ InBlocks(tx, m)
<1>1. tx \in Copies <=> \E m \in Miner : tx \in HeldBy(m)
  BY DEF Copies
<1>2. \A m : tx \in HeldBy(m) <=> tx \in pool[m] \/ InBlocks(tx, m)
  BY DEF HeldBy, InBlocks
<1> QED
  BY <1>1, <1>2

LEMMA WhereCopiesGo ==
  ASSUME NEW tx
  PROVE  tx \in Copies' <=> \E m \in Miner : tx \in pool'[m] \/ InBlocks(tx, m)'
<1>1. tx \in Copies' <=> \E m \in Miner : tx \in HeldBy(m)'
  BY DEF Copies
<1>2. \A m : tx \in HeldBy(m)' <=> tx \in pool'[m] \/ InBlocks(tx, m)'
  BY DEF HeldBy, InBlocks
<1> QED
  BY <1>1, <1>2

(* A conversion there and back keeps what Carries looks at.                *)
Converted(tx) == ConvertGrpcToTransaction(ConvertTransactionToGrpc(tx))

LEMMA ConvertedCarries ==
  ASSUME NEW tx, NEW x, Carries(tx, x)
  PROVE  Carries(Converted(tx), x)
BY DEF Carries, Converted, ConvertGrpcToTransaction, ConvertTransactionToGrpc

(* The transactions of a block that was converted are converted ones.      *)
LEMMA ConvertedBlock ==
  ASSUME NEW b, NEW tx \in ToSet(ConvertGrpcToBlock(ConvertBlockToGrpc(b)).transactions)
  PROVE  \E ty \in ToSet(b.transactions) : tx = Converted(ty)
<1> DEFINE list == b.transactions
           there == [i \in DOMAIN list |-> ConvertTransactionToGrpc(list[i])]
           back == [i \in DOMAIN there |-> ConvertGrpcToTransaction(there[i])]
<1>1. ConvertGrpcToBlock(ConvertBlockToGrpc(b)).transactions = back
  BY DEF ConvertGrpcToBlock, ConvertBlockToGrpc, Each
<1>2. PICK i \in DOMAIN list : tx = back[i]
  BY <1>1 DEF ToSet
<1>3. tx = Converted(list[i])
  BY <1>2 DEF Converted
<1> QED
  BY <1>2, <1>3 DEF ToSet

-----------------------------------------------------------------------------
(* The first state.                                                        *)
LEMMA InitInv == Init => IInv
BY DEF Init, IInv, Copies, HeldBy

(* Steps that sign nothing and make copies of copies only.                 *)
Copying ==
  /\ UNCHANGED <<wallet, signed>>
  /\ DOMAIN pool' = Miner /\ DOMAIN blocks' = Miner
  /\ \A tx \in Copies' : tx \in Copies \/ \E ty \in wallet \cup Copies : tx = Converted(ty)

LEMMA CopiesInv == IInv /\ Copying => IInv'
<1> SUFFICES ASSUME IInv, Copying PROVE IInv'
  OBVIOUS
<1>1. \A tx \in wallet \cup Copies' : \E x \in signed : Carries(tx, x)
  <2> SUFFICES ASSUME NEW tx \in wallet \cup Copies'
               PROVE  \E x \in signed : Carries(tx, x)
    OBVIOUS
  <2>1. CASE tx \in wallet \cup Copies
    BY <2>1 DEF IInv
  <2>2. CASE \E ty \in wallet \cup Copies : tx = Converted(ty)
    BY <2>2, ConvertedCarries DEF IInv
  <2> QED
    BY <2>1, <2>2 DEF Copying
<1> QED
  BY <1>1 DEF IInv, Carries, Copying

(* A transaction is signed, later than all others.                         *)
LEMMA SignInv ==
  ASSUME IInv, NEW content, content.time \in Nat, NEW r \in Number, NEW s \in Number,
         Sign(content, r, s)
  PROVE  IInv'
<1> DEFINE x == [hash |-> content, key |-> content.sender, r |-> r, s |-> s]
           new == [inputs |-> content.inputs, outputs |-> content.outputs, sender |-> content.sender,
                   time |-> content.time, signature |-> Encode(r, s), hash |-> content]
<1>1. wallet' = wallet \cup {new} /\ signed' = signed \cup {x} /\ UNCHANGED <<pool, blocks>>
  BY DEF Sign
<1>2. \A y \in signed : y.hash # content
  <2>1. \A tx \in wallet : tx.time < content.time /\ tx.time \in Nat
    BY DEF Sign, IInv
  <2> QED
    BY <2>1 DEF IInv
<1>3. x.hash = content /\ x.r = r /\ x.s = s /\ new.time = content.time
  OBVIOUS
<1>4. Carries(new, x)
  BY DEF Carries
<1>5. Copies' = Copies
  BY <1>1 DEF Copies, HeldBy
<1> HIDE DEF x, new
<1>6. \A y \in signed' : y.r \in Number /\ y.s \in Number
  BY <1>1, <1>3 DEF IInv
<1>7. \A y, z \in signed' : y.hash = z.hash => y = z
  BY <1>1, <1>2, <1>3 DEF IInv
<1>8. \A y \in signed' : \E tx \in wallet' : tx.time = y.hash.time
  BY <1>1, <1>3 DEF IInv
<1>9. \A tx \in wallet' : tx.time \in Nat
  BY <1>1, <1>3 DEF IInv
<1>10. \A tx \in wallet' \cup Copies' : \E y \in signed' : Carries(tx, y)
  BY <1>1, <1>4, <1>5 DEF IInv
<1>11. DOMAIN pool' = Miner /\ DOMAIN blocks' = Miner
  BY <1>1 DEF IInv
<1> QED
  BY <1>6, <1>7, <1>8, <1>9, <1>10, <1>11 DEF IInv, Carries

(* A transaction arrives at a miner.                                       *)
LEMMA SubmitTransactionCopies ==
  ASSUME IInv, NEW m \in Miner, NEW n \in Miner, NEW tx \in wallet \cup pool[n],
         SubmitTransaction(tx, m)
  PROVE  Copying
<1>1. UNCHANGED <<wallet, signed, blocks>>
  BY DEF SubmitTransaction
<1>2. tx \in wallet \cup Copies
  BY WhereCopiesAre
<1>3. /\ DOMAIN pool' = Miner
      /\ \A k \in Miner : pool'[k] \subseteq pool[k] \cup {Converted(tx)}
  BY DEF SubmitTransaction, Converted, IInv
<1>4. \A ty \in Copies' : ty \in Copies \/ ty = Converted(tx)
  BY <1>1, <1>3, WhereCopiesAre, WhereCopiesGo DEF InBlocks
<1>5. DOMAIN blocks' = Miner
  BY <1>1 DEF IInv
<1>6. \A ty \in Copies' : ty \in Copies \/ \E tz \in wallet \cup Copies : ty = Converted(tz)
  BY <1>2, <1>4
<1>7. UNCHANGED <<wallet, signed>>
  BY <1>1
<1> QED
  BY <1>3, <1>5, <1>6, <1>7 DEF Copying

(* A miner makes a block of a transaction in its pool.                     *)
LEMMA CreateBlockCopies ==
  ASSUME IInv, NEW m \in Miner, NEW height \in Height, NEW tx \in pool[m],
         CreateBlock(m, height, tx)
  PROVE  Copying
<1>1. UNCHANGED <<wallet, signed, pool>>
  BY DEF CreateBlock
<1>2. /\ DOMAIN blocks' = Miner
      /\ \A k \in Miner : blocks'[k] \subseteq blocks[k] \cup {NewBlock(height, <<tx>>)}
  BY DEF CreateBlock, IInv
<1>3. NewBlock(height, <<tx>>).transactions = <<tx>>
  BY DEF NewBlock
<1>4. ToSet(<<tx>>) \subseteq pool[m]
  BY DEF ToSet
<1>5. \A ty \in Copies' : ty \in Copies
  BY <1>1, <1>2, <1>3, <1>4, WhereCopiesAre, WhereCopiesGo DEF InBlocks
<1> QED
  BY <1>1, <1>2, <1>5 DEF IInv, Copying

(* A block arrives at a miner.                                             *)
LEMMA SubmitBlockCopies ==
  ASSUME IInv, NEW m \in Miner, NEW n \in Miner, NEW b \in blocks[n], SubmitBlock(b, m)
  PROVE  Copying
<1> DEFINE received == ConvertGrpcToBlock(ConvertBlockToGrpc(b))
<1>1. UNCHANGED <<wallet, signed, pool>>
  BY DEF SubmitBlock
<1>2. /\ DOMAIN blocks' = Miner
      /\ \A k \in Miner : blocks'[k] \subseteq blocks[k] \cup {received}
  <2>1. blocks' = [blocks EXCEPT ![m] = @ \cup {received}] \/ blocks' = blocks
    BY DEF SubmitBlock
  <2> HIDE DEF received
  <2> QED
    BY <2>1 DEF IInv
<1>3. \A ty \in ToSet(received.transactions) : \E tz \in Copies : ty = Converted(tz)
  <2>1. ToSet(b.transactions) \subseteq Copies
    BY WhereCopiesAre DEF InBlocks
  <2>2. \A ty \in ToSet(received.transactions) :
          \E tz \in ToSet(b.transactions) : ty = Converted(tz)
    BY ConvertedBlock
  <2> HIDE DEF received
  <2> QED
    BY <2>1, <2>2
<1> HIDE DEF received
<1>4. \A ty \in Copies' : ty \in Copies \/ \E tz \in Copies : ty = Converted(tz)
  BY <1>1, <1>2, <1>3, WhereCopiesAre, WhereCopiesGo DEF InBlocks
<1> QED
  BY <1>1, <1>2, <1>4 DEF IInv, Copying

(* Every step keeps the invariant.                                         *)
LEMMA NextInv == IInv /\ [Next]_vars => IInv'
<1> SUFFICES ASSUME IInv, [Next]_vars PROVE IInv'
  OBVIOUS
<1>1. CASE UNCHANGED vars
  BY <1>1 DEF vars, IInv, Copies, HeldBy, Carries
<1>2. ASSUME NEW sender \in Key, NEW recipient \in Key, NEW inputs \in Funds, NEW amount \in Amount,
             NEW time \in 1..MaxTx, NEW r \in Number, NEW s \in Number,
             Sign(NewTransaction(inputs, sender, recipient, amount, time), r, s)
      PROVE  IInv'
  <2>1. NewTransaction(inputs, sender, recipient, amount, time).time = time
    BY DEF NewTransaction
  <2>2. time \in Nat
    OBVIOUS
  <2> QED
    BY <1>2, <2>1, <2>2, SignInv
<1>3. CASE Next
  BY <1>2, <1>3, SubmitTransactionCopies, CreateBlockCopies, SubmitBlockCopies, CopiesInv DEF Next
<1> QED
  BY <1>1, <1>3

(* A signature is found valid, by whatever process and after whatever      *)
(* conversions, just if s is as long as r or one byte longer: Sign drops   *)
(* the leading zeros that would make the two equally long.                 *)
THEOREM ValidWhenBalanced == Spec => []ValidIfBalanced
<1>1. Spec => []IInv
  BY InitInv, NextInv, PTL DEF Spec
<1>2. IInv => ValidIfBalanced
  <2> SUFFICES ASSUME IInv, NEW x \in signed, NEW tx \in wallet \cup Copies, tx.hash = x.hash
               PROVE  VerifySignature(tx) <=> Balanced(x.r, x.s)
    BY DEF ValidIfBalanced
  <2>1. Carries(tx, x)
    BY DEF IInv, Carries
  <2>2. VerifySignature(tx) <=> <<x.r, x.s>> = Decode(tx.signature)
    BY <2>1 DEF VerifySignature, IInv, Carries
  <2>3. x.r \in Number /\ x.s \in Number
    BY DEF IInv
  <2> QED
    BY <2>1, <2>2, <2>3, CutInTheMiddle DEF Carries
<1> QED
  BY <1>1, <1>2, PTL

-----------------------------------------------------------------------------
(***************************************************************************)
(* Conversion there and back.                                              *)
(***************************************************************************)
LEMMA SmallRemainder ==
  ASSUME NEW k \in Nat \ {0}, NEW a \in 0..(k - 1)
  PROVE  a % k = a
OBVIOUS

(* The position of an output, and a height that fits, stay as they are.    *)
LEMMA Int32Fits ==
  ASSUME NEW x \in 0..MaxInt32
  PROVE  Int32(x) = x
<1>1. MaxInt32 \in Nat \ {0}
  BY WireAssumption
<1> DEFINE k == 2 * (MaxInt32 + 1)
           a == x + MaxInt32 + 1
<1>2. k \in Nat \ {0} /\ a \in 0..(k - 1)
  BY <1>1
<1>3. a % k = a
  <2> HIDE DEF a, k
  <2> QED
    BY <1>2, SmallRemainder
<1> QED
  BY <1>1, <1>3 DEF Int32

LEMMA ConvertedOutput ==
  ASSUME NEW u \in Output
  PROVE  /\ ConvertUTXOToGrpc(u) \in GrpcOutput
         /\ ConvertGrpcToUTXO(ConvertUTXOToGrpc(u)) = u
<1>1. Int32(u.index) = u.index
  BY Int32Fits DEF Output
<1> QED
  BY <1>1 DEF Output, GrpcOutput, ConvertUTXOToGrpc, ConvertGrpcToUTXO

(* Lists of outputs.                                                       *)
LEMMA ConvertedList ==
  ASSUME NEW list \in Seq(Output)
  PROVE  LET there == Each(list, ConvertUTXOToGrpc)
         IN  /\ there \in Seq(GrpcOutput)
             /\ Each(there, ConvertGrpcToUTXO) = list
<1> DEFINE there == [i \in DOMAIN list |-> ConvertUTXOToGrpc(list[i])]
<1>2. Each(list, ConvertUTXOToGrpc) = there
  BY DEF Each
<1>3. \A i \in 1..Len(list) : list[i] \in Output
  OBVIOUS
<1>4. DOMAIN list = 1..Len(list) /\ Len(list) \in Nat
  OBVIOUS
<1>5. there \in [1..Len(list) -> GrpcOutput]
  BY <1>3, <1>4, ConvertedOutput
<1>6. there \in Seq(GrpcOutput) /\ DOMAIN there = DOMAIN list
  <2> HIDE DEF there
  <2> QED
    BY <1>4, <1>5
<1> DEFINE back == [i \in DOMAIN list |-> ConvertGrpcToUTXO(there[i])]
<1>8. Each(there, ConvertGrpcToUTXO) = back
  <2> HIDE DEF there
  <2> QED
    BY <1>6 DEF Each
<1>9. back = list
  <2>1. \A i \in DOMAIN list : back[i] = list[i]
    BY <1>3, <1>4, ConvertedOutput
  <2>2. DOMAIN back = DOMAIN list
    OBVIOUS
  <2>3. back = [i \in DOMAIN list |-> list[i]]
    BY <2>1
  <2> QED
    BY <2>3
<1> QED
  BY <1>2, <1>6, <1>8, <1>9

(* What a client signs comes out of a conversion there and back as it was. *)
LEMMA ConvertedSame ==
  ASSUME NEW tx \in Transaction
  PROVE  /\ ConvertTransactionToGrpc(tx) \in GrpcTransaction
         /\ Converted(tx) = tx
<1> DEFINE g == ConvertTransactionToGrpc(tx)
<1>1. /\ tx.inputs \in Seq(Output) /\ tx.outputs \in Seq(Output)
      /\ tx.sender \in Key /\ tx.time \in Nat
      /\ tx.signature \in Seq(Byte) /\ tx.hash \in Content
  BY DEF Transaction
<1>2. /\ Each(tx.inputs, ConvertUTXOToGrpc) \in Seq(GrpcOutput)
      /\ Each(Each(tx.inputs, ConvertUTXOToGrpc), ConvertGrpcToUTXO) = tx.inputs
  BY <1>1, ConvertedList
<1>3. /\ Each(tx.outputs, ConvertUTXOToGrpc) \in Seq(GrpcOutput)
      /\ Each(Each(tx.outputs, ConvertUTXOToGrpc), ConvertGrpcToUTXO) = tx.outputs
  BY <1>1, ConvertedList
<1>4. g \in GrpcTransaction
  BY <1>1, <1>2, <1>3 DEF ConvertTransactionToGrpc, GrpcTransaction
<1>5. /\ g.inputs = Each(tx.inputs, ConvertUTXOToGrpc)
      /\ g.outputs = Each(tx.outputs, ConvertUTXOToGrpc)
      /\ g.timestamp = tx.time /\ g.signature = tx.signature
      /\ g.hash = tx.hash /\ g.senderpubkey = tx.sender
  BY DEF ConvertTransactionToGrpc
<1> HIDE DEF g
<1>6. ConvertGrpcToTransaction(g) =
        [inputs |-> tx.inputs, outputs |-> tx.outputs, time |-> tx.time,
         signature |-> tx.signature, hash |-> tx.hash, sender |-> tx.sender]
  BY <1>2, <1>3, <1>5 DEF ConvertGrpcToTransaction
<1>7. tx = [inputs |-> tx.inputs, outputs |-> tx.outputs, time |-> tx.time,
            signature |-> tx.signature, hash |-> tx.hash, sender |-> tx.sender]
  BY DEF Transaction
<1> QED
  BY <1>4, <1>6, <1>7 DEF Converted, g

-----------------------------------------------------------------------------
(***************************************************************************)
(* What miners have is what clients signed.                                *)
(***************************************************************************)
SameInv == wallet \subseteq Transaction /\ SameEverywhere

LEMMA SignSame ==
  ASSUME SameInv, NEW sender \in Key, NEW recipient \in Key, NEW inputs \in Funds,
         NEW amount \in Amount, NEW time \in 1..MaxTx, NEW r \in Number, NEW s \in Number,
         Sign(NewTransaction(inputs, sender, recipient, amount, time), r, s)
  PROVE  SameInv'
<1> DEFINE left == Total(inputs) - amount
           pay == [txid |-> Nil, index |-> 0, amount |-> amount, address |-> Address[recipient]]
           change == [txid |-> Nil, index |-> 1, amount |-> left, address |-> Address[sender]]
           outputs == IF left > 0 THEN <<pay, change>> ELSE <<pay>>
           content == NewTransaction(inputs, sender, recipient, amount, time)
           new == [inputs |-> content.inputs, outputs |-> content.outputs,
                   sender |-> content.sender, time |-> content.time,
                   signature |-> Encode(r, s), hash |-> content]
<1>1. inputs \in Seq(Output) /\ Total(inputs) \in Nat /\ amount \in Nat
  BY WireAssumption
<1>2. 0 \in 0..MaxInt32 /\ 1 \in 0..MaxInt32
  BY WireAssumption
<1>3. pay \in Output
  BY <1>1, <1>2 DEF Output, TxID, Holder
<1>4. left > 0 => change \in Output
  BY <1>1, <1>2 DEF Output, TxID, Holder
<1>5. outputs \in Seq(Output)
  <2> HIDE DEF pay, change, left
  <2> QED
    BY <1>3, <1>4
<1>6. content = [inputs |-> inputs, outputs |-> outputs, sender |-> sender, time |-> time]
  BY DEF NewTransaction
<1>7. time \in Nat
  OBVIOUS
<1> HIDE DEF outputs
<1>8. /\ content \in Content /\ content.inputs = inputs /\ content.outputs = outputs
      /\ content.sender = sender /\ content.time = time
  BY <1>1, <1>5, <1>6, <1>7 DEF Content
<1>9. Encode(r, s) \in Seq(Byte)
  BY Numbers DEF Encode
<1> HIDE DEF content
<1>10. new \in Transaction
  BY <1>1, <1>5, <1>7, <1>8, <1>9 DEF Transaction
<1>11. wallet' = wallet \cup {new} /\ UNCHANGED <<pool, blocks>>
  BY DEF Sign, content
<1>12. Copies' = Copies
  BY <1>11 DEF Copies, HeldBy
<1> QED
  BY <1>10, <1>11, <1>12 DEF SameInv, SameEverywhere

LEMMA CopyingSame ==
  ASSUME SameInv, Copying
  PROVE  SameInv'
<1>1. ASSUME NEW tx \in Copies' PROVE tx \in wallet
  <2>1. CASE tx \in Copies
    BY <2>1 DEF SameInv, SameEverywhere
  <2>2. CASE \E ty \in wallet \cup Copies : tx = Converted(ty)
    BY <2>2, ConvertedSame DEF SameInv, SameEverywhere
  <2> QED
    BY <2>1, <2>2 DEF Copying
<1> QED
  BY <1>1 DEF SameInv, SameEverywhere, Copying

(* A step signs a transaction or copies.                                   *)
LEMMA SignsOrCopies ==
  ASSUME IInv, Next
  PROVE  \/ Copying
         \/ \E sender, recipient \in Key, inputs \in Funds, amount \in Amount, time \in 1..MaxTx :
              \E r, s \in Number :
                Sign(NewTransaction(inputs, sender, recipient, amount, time), r, s)
<1>1. CASE \E m, n \in Miner :
             \/ \E tx \in wallet \cup pool[n] : SubmitTransaction(tx, m)
             \/ \E b \in blocks[n] : SubmitBlock(b, m)
             \/ \E height \in Height, ty \in pool[m] : CreateBlock(m, height, ty)
  BY <1>1, SubmitTransactionCopies, CreateBlockCopies, SubmitBlockCopies
<1> QED
  BY <1>1 DEF Next

LEMMA NextSame == IInv /\ SameInv /\ [Next]_vars => SameInv'
<1> SUFFICES ASSUME IInv, SameInv, [Next]_vars PROVE SameInv'
  OBVIOUS
<1>1. CASE UNCHANGED vars
  BY <1>1 DEF vars, SameInv, SameEverywhere, Copies, HeldBy
<1>2. CASE Next
  BY <1>2, SignsOrCopies, SignSame, CopyingSame
<1> QED
  BY <1>1, <1>2

LEMMA SameSafe == Spec => [](IInv /\ SameInv)
<1>1. Init => SameInv
  BY DEF Init, SameInv, SameEverywhere, Copies, HeldBy
<1> QED
  BY <1>1, InitInv, NextInv, NextSame, PTL DEF Spec

(* Whatever way a transaction takes, alone or in blocks, with however many *)
(* conversions: what a miner has is to the last field what a client        *)
(* signed.                                                                 *)
THEOREM SignedIsHeld == Spec => []SameEverywhere
<1>1. SameInv => SameEverywhere
  BY DEF SameInv
<1> QED
  BY <1>1, SameSafe, PTL

-----------------------------------------------------------------------------
(***************************************************************************)
(* Blocks.                                                                 *)
(***************************************************************************)
Made(b) ==
  /\ \E height \in Height :
       b.header = [height |-> height, contentHash |-> ContentHash(b.transactions)]
  /\ b.hash = b.header
  /\ b.transactions \in Seq(Transaction)
  /\ \A tx \in ToSet(b.transactions) : Verify(tx)

BlockInv ==
  /\ \A m \in Miner : \A tx \in pool[m] : Verify(tx)
  /\ \A m \in Miner : \A b \in blocks[m] : Made(b)
  /\ BlocksSurvive

Received(b) == ConvertGrpcToBlock(ConvertBlockToGrpc(b))

LEMMA ConvertedTransactions ==
  ASSUME NEW list \in Seq(Transaction)
  PROVE  LET there == Each(list, ConvertTransactionToGrpc)
         IN  Each(there, ConvertGrpcToTransaction) = list
<1> DEFINE there == [i \in DOMAIN list |-> ConvertTransactionToGrpc(list[i])]
<1>2. Each(list, ConvertTransactionToGrpc) = there
  BY DEF Each
<1>3. \A i \in 1..Len(list) : list[i] \in Transaction
  OBVIOUS
<1>4. DOMAIN list = 1..Len(list) /\ Len(list) \in Nat
  OBVIOUS
<1>5. there \in [1..Len(list) -> GrpcTransaction]
  BY <1>3, <1>4, ConvertedSame
<1>6. there \in Seq(GrpcTransaction) /\ DOMAIN there = DOMAIN list
  <2> HIDE DEF there
  <2> QED
    BY <1>4, <1>5
<1> DEFINE back == [i \in DOMAIN list |-> ConvertGrpcToTransaction(there[i])]
<1>8. Each(there, ConvertGrpcToTransaction) = back
  <2> HIDE DEF there
  <2> QED
    BY <1>6 DEF Each
<1>9. back = list
  <2>1. \A i \in DOMAIN list : back[i] = list[i]
    BY <1>3, <1>4, ConvertedSame DEF Converted
  <2>2. back = [i \in DOMAIN list |-> list[i]]
    BY <2>1
  <2> QED
    BY <2>2
<1> QED
  BY <1>2, <1>8, <1>9

LEMMA ReceivedBlock ==
  ASSUME NEW b, Made(b)
  PROVE  /\ Received(b).transactions = b.transactions
         /\ Received(b).hash = b.hash
         /\ Received(b).header = [b.header EXCEPT !.height = Int32(@)]
<1> DEFINE list == b.transactions
           there == Each(list, ConvertTransactionToGrpc)
           back == Each(there, ConvertGrpcToTransaction)
<1>1. /\ Received(b).transactions = back /\ Received(b).hash = b.hash
      /\ Received(b).header = [b.header EXCEPT !.height = Int32(@)]
  BY DEF Received, ConvertGrpcToBlock, ConvertBlockToGrpc
<1>2. back = list
  BY ConvertedTransactions DEF Made
<1> HIDE DEF back
<1> QED
  BY <1>1, <1>2

(* So a block is found valid just if its height fits, and then it is the   *)
(* block it was.                                                           *)
LEMMA ReceivedValid ==
  ASSUME NEW b, Made(b)
  PROVE  /\ b.header.height <= MaxInt32 => VerifyBlock(Received(b))
         /\ VerifyBlock(Received(b)) => Made(Received(b))
<1>1. PICK height \in Height :
        b.header = [height |-> height, contentHash |-> ContentHash(b.transactions)]
  BY DEF Made
<1>2. Received(b).header = [height |-> Int32(height), contentHash |-> ContentHash(b.transactions)]
  BY <1>1, ReceivedBlock
<1>3. \A tx \in ToSet(Received(b).transactions) : Verify(tx)
  BY ReceivedBlock DEF Made
<1>4. Received(b).hash = b.header
  BY ReceivedBlock DEF Made
<1>5. ASSUME b.header.height <= MaxInt32 PROVE VerifyBlock(Received(b))
  <2>1. Int32(height) = height
    <3>1. height \in 0..MaxInt32
      BY <1>1, <1>5, WireAssumption
    <3> QED
      BY <3>1, Int32Fits
  <2> QED
    BY <1>1, <1>2, <1>3, <1>4, <2>1, ReceivedBlock DEF VerifyBlock
<1>6. ASSUME VerifyBlock(Received(b)) PROVE Made(Received(b))
  <2>1. Received(b).header = b.header
    BY <1>4, <1>6 DEF VerifyBlock
  <2> QED
    BY <1>1, <1>3, <1>4, <2>1, ReceivedBlock DEF Made
<1> QED
  BY <1>5, <1>6

(* What was valid stays valid: signatures are only added.                  *)
LEMMA StaysMade ==
  ASSUME signed \subseteq signed'
  PROVE  /\ \A tx : Verify(tx) => Verify(tx)'
         /\ \A b : Made(b) => Made(b)'
<1>1. \A tx : Verify(tx) => Verify(tx)'
  BY DEF Verify, VerifySignature
<1> QED
  BY <1>1 DEF Made

LEMMA NextBlocks == IInv /\ SameInv /\ BlockInv /\ [Next]_vars => BlockInv'
<1> SUFFICES ASSUME IInv, SameInv, BlockInv, [Next]_vars PROVE BlockInv'
  OBVIOUS
<1>0. ASSUME signed \subseteq signed', DOMAIN pool' = Miner, DOMAIN blocks' = Miner,
             \A m \in Miner : \A tx \in pool'[m] : tx \in pool[m] \/ Verify(tx),
             \A m \in Miner : \A b \in blocks'[m] : b \in blocks[m] \/ Made(b),
             BlocksSurvive'
      PROVE  BlockInv'
  BY <1>0, StaysMade DEF BlockInv
<1>1. CASE UNCHANGED vars
  BY <1>0, <1>1 DEF vars, BlockInv, BlocksSurvive, IInv
<1>2. ASSUME NEW content, NEW r, NEW s, Sign(content, r, s) PROVE BlockInv'
  BY <1>0, <1>2 DEF Sign, BlockInv, BlocksSurvive, IInv
<1>3. ASSUME NEW m \in Miner, NEW tx, SubmitTransaction(tx, m) PROVE BlockInv'
  <2> DEFINE received == ConvertGrpcToTransaction(ConvertTransactionToGrpc(tx))
  <2>1. /\ Verify(received) /\ pool' = [pool EXCEPT ![m] = @ \cup {received}]
        /\ UNCHANGED <<signed, blocks, rejected>>
    BY <1>3 DEF SubmitTransaction
  <2> HIDE DEF received
  <2>2. /\ DOMAIN pool' = Miner
        /\ \A n \in Miner : \A ty \in pool'[n] : ty \in pool[n] \/ Verify(ty)
    BY <2>1 DEF IInv
  <2> QED
    BY <1>0, <2>1, <2>2 DEF BlockInv, BlocksSurvive, IInv
<1>4. ASSUME NEW m \in Miner, NEW height \in Height, NEW tx \in pool[m],
             CreateBlock(m, height, tx)
      PROVE  BlockInv'
  <2> DEFINE new == NewBlock(height, <<tx>>)
  <2>1. tx \in Transaction /\ Verify(tx)
    BY WhereCopiesAre DEF SameInv, SameEverywhere, BlockInv
  <2>2. Made(new)
    <3>1. /\ new.header = [height |-> height, contentHash |-> ContentHash(<<tx>>)]
          /\ new.hash = new.header /\ new.transactions = <<tx>>
      BY DEF NewBlock
    <3>2. <<tx>> \in Seq(Transaction) /\ \A ty \in ToSet(<<tx>>) : ty = tx
      BY <2>1 DEF ToSet
    <3> HIDE DEF new
    <3> QED
      BY <2>1, <3>1, <3>2 DEF Made
  <2>3. /\ blocks' = [blocks EXCEPT ![m] = @ \cup {new}]
        /\ UNCHANGED <<signed, pool, rejected>>
    BY <1>4 DEF CreateBlock
  <2> HIDE DEF new
  <2>4. /\ DOMAIN blocks' = Miner
        /\ \A n \in Miner : \A b \in blocks'[n] : b \in blocks[n] \/ Made(b)
    BY <2>2, <2>3 DEF IInv
  <2> QED
    BY <1>0, <2>3, <2>4 DEF BlockInv, BlocksSurvive, IInv
<1>5. ASSUME NEW m \in Miner, NEW n \in Miner, NEW b \in blocks[n], SubmitBlock(b, m)
      PROVE  BlockInv'
  <2>1. Made(b)
    BY DEF BlockInv
  <2>2. UNCHANGED <<signed, pool>>
    BY <1>5 DEF SubmitBlock
  <2>3. CASE VerifyBlock(Received(b))
    <3>1. blocks' = [blocks EXCEPT ![m] = @ \cup {Received(b)}] /\ UNCHANGED rejected
      BY <1>5, <2>3 DEF SubmitBlock, Received
    <3>2. /\ DOMAIN blocks' = Miner
          /\ \A k \in Miner : \A c \in blocks'[k] : c \in blocks[k] \/ Made(c)
      BY <2>1, <2>3, <3>1, ReceivedValid DEF IInv
    <3> QED
      BY <1>0, <2>2, <3>1, <3>2 DEF BlockInv, BlocksSurvive, IInv
  <2>4. CASE ~ VerifyBlock(Received(b))
    <3>1. rejected' = rejected \cup {<<b, m>>} /\ UNCHANGED blocks
      BY <1>5, <2>4 DEF SubmitBlock, Received
    <3>2. b.header.height > MaxInt32
      <4>1. b.header.height \in Nat /\ MaxInt32 \in Nat
        BY <2>1, WireAssumption DEF Made
      <4>2. ~ b.header.height <= MaxInt32
        BY <2>1, <2>4, ReceivedValid
      <4> QED
        BY <4>1, <4>2
    <3>3. BlocksSurvive'
      BY <3>1, <3>2 DEF BlockInv, BlocksSurvive
    <3> QED
      BY <1>0, <2>2, <3>1, <3>3 DEF BlockInv, IInv
  <2> QED
    BY <2>3, <2>4
<1>6. CASE Next
  BY <1>2, <1>3, <1>4, <1>5, <1>6 DEF Next
<1> QED
  BY <1>1, <1>6

(* A block is rejected only when its height does not fit the field it      *)
(* travels in: no copy and no second conversion makes it invalid.          *)
THEOREM BlocksArriveValid == Spec => []BlocksSurvive
<1>1. Init => BlockInv
  BY DEF Init, BlockInv, BlocksSurvive
<1>2. BlockInv => BlocksSurvive
  BY DEF BlockInv
<1> QED
  BY <1>1, <1>2, NextBlocks, SameSafe, PTL DEF Spec
=============================================================================
