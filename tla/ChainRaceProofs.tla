--------------------------- MODULE ChainRaceProofs --------------------------
(***************************************************************************)
(* Proofs about the list that goroutines share without a lock, for any     *)
(* number of them, any blocks, forks and interleaving of memory accesses.  *)
(*                                                                         *)
(* Two invariants.  Once holds as long as one call at a time asks the UTXO *)
(* set, however the rest of the calls overlaps: the set applies a block    *)
(* once, so one process stores it, at one position, and a move to a larger *)
(* array keeps positions.  Alone holds as long as calls that write do not  *)
(* overlap: there is then a settled length up to which each block is on    *)
(* the one before it, that every writer works from.                        *)
(***************************************************************************)
EXTENDS ChainRace, SequenceTheorems, TLAPS

-----------------------------------------------------------------------------
(***************************************************************************)
(* The UTXO set.                                                           *)
(***************************************************************************)
(* The set replays the history when it lists what the history leaves.      *)
Replays(set, past) ==
  \A u \in Utxo : set[u] = IF u \in Unspent(past) THEN 1 ELSE 0

(* Every transaction of the history spends outputs the history created.    *)
Grounded(past) == \A t \in past : Inputs[t] \subseteq Created(past)

LEMMA InitialReplay == Replays(NewUTXOSet, {}) /\ Grounded({})
BY LedgerAssumption
   DEF Replays, Grounded, Unspent, Created, Consumed, NewUTXOSet

(* A transaction whose inputs are in a set that replays the history is new *)
(* and conflicts with none of it.                                          *)
LEMMA CheckedIsNew ==
  ASSUME NEW set, NEW past \in SUBSET Tx, NEW tx \in Tx,
         Replays(set, past), CheckTransaction(set, tx)
  PROVE  /\ Inputs[tx] \subseteq Unspent(past)
         /\ tx \notin past
         /\ \A t \in past : Inputs[t] \cap Inputs[tx] = {}
         /\ Outputs[tx] \cap Created(past) = {}
<1>1. Inputs[tx] \subseteq Unspent(past)
  BY LedgerAssumption DEF Replays, CheckTransaction, CheckUTXO
<1>2. tx \notin past
  BY <1>1, LedgerAssumption DEF Unspent, Consumed
<1>3. \A t \in past : Inputs[t] \cap Inputs[tx] = {}
  BY <1>1 DEF Unspent, Consumed
<1>4. Outputs[tx] \cap Created(past) = {}
  BY <1>2, LedgerAssumption DEF Created
<1> QED BY <1>1, <1>2, <1>3, <1>4

LEMMA AddedReplays ==
  ASSUME NEW set \in UTXOSet, NEW past \in SUBSET Tx, NEW tx \in Tx,
         Replays(set, past), CheckTransaction(set, tx),
         Outputs[tx] \cap Consumed(past) = {}
  PROVE  Replays(AddTransaction(set, tx), past \cup {tx})
<1> DEFINE longer == past \cup {tx}
<1>1. /\ Inputs[tx] \subseteq Unspent(past)
      /\ Outputs[tx] \cap Created(past) = {}
  BY CheckedIsNew
<1>2. /\ Created(longer) = Created(past) \cup Outputs[tx]
      /\ Consumed(longer) = Consumed(past) \cup Inputs[tx]
  BY DEF Created, Consumed
<1>3. ASSUME NEW u \in Utxo
      PROVE  AddTransaction(set, tx)[u] = IF u \in Unspent(longer) THEN 1 ELSE 0
  <2>1. set[u] = IF u \in Unspent(past) THEN 1 ELSE 0
    BY DEF Replays
  <2>2. CASE u \in Inputs[tx]
    <3>1. u \in Unspent(past) /\ u \notin Outputs[tx] /\ u \notin Unspent(longer)
      BY <1>1, <1>2, <2>2 DEF Unspent
    <3> QED BY <2>1, <2>2, <3>1 DEF AddTransaction
  <2>3. CASE u \notin Inputs[tx] /\ u \in Outputs[tx]
    <3>1. u \notin Unspent(past) /\ u \in Unspent(longer)
      BY <1>1, <1>2, <2>3 DEF Unspent
    <3> QED BY <2>1, <2>3, <3>1 DEF AddTransaction
  <2>4. CASE u \notin Inputs[tx] /\ u \notin Outputs[tx]
    <3>1. u \in Unspent(past) <=> u \in Unspent(longer)
      BY <1>2, <2>4 DEF Unspent
    <3> QED BY <2>1, <2>4, <3>1 DEF AddTransaction
  <2> QED BY <2>2, <2>3, <2>4
<1> QED BY <1>3 DEF Replays

LEMMA AddTransactionReplays ==
  ASSUME NEW set \in UTXOSet, NEW past \in SUBSET Tx, NEW tx \in Tx,
         Replays(set, past), Grounded(past), CheckTransaction(set, tx)
  PROVE  /\ Replays(AddTransaction(set, tx), past \cup {tx})
         /\ Grounded(past \cup {tx})
<1>1. /\ Inputs[tx] \subseteq Unspent(past)
      /\ Outputs[tx] \cap Created(past) = {}
  BY CheckedIsNew
<1>2. Consumed(past) \subseteq Created(past)
  BY DEF Grounded, Consumed
<1>3. Replays(AddTransaction(set, tx), past \cup {tx})
  BY <1>1, <1>2, AddedReplays
<1>4. Created(past \cup {tx}) = Created(past) \cup Outputs[tx]
  BY DEF Created
<1>5. Grounded(past \cup {tx})
  BY <1>1, <1>4 DEF Grounded, Unspent
<1> QED BY <1>3, <1>5

LEMMA AppendFacts ==
  ASSUME NEW S, NEW s \in Seq(S), NEW f \in S
  PROVE  /\ Append(s, f) \in Seq(S)
         /\ Append(s, f) # <<>>
         /\ Len(Append(s, f)) = Len(s) + 1
         /\ \A i \in 1..Len(s) : Append(s, f)[i] = s[i]
         /\ Append(s, f)[Len(s) + 1] = f
         /\ Last(Append(s, f)) = f
<1>1. Append(s, f) \in Seq(S) /\ Len(Append(s, f)) = Len(s) + 1
  OBVIOUS
<1>2. Append(s, f) # <<>>
  <2>1. Len(Append(s, f)) # 0
    BY <1>1
  <2>2. Len(<<>>) = 0
    OBVIOUS
  <2> QED BY ONLY <2>1, <2>2, Zenon
<1>3. \A i \in 1..Len(s) : Append(s, f)[i] = s[i]
  OBVIOUS
<1>4. Append(s, f)[Len(s) + 1] = f
  OBVIOUS
<1>5. Last(Append(s, f)) = f
  BY <1>1, <1>4 DEF Last
<1> QED BY <1>1, <1>2, <1>3, <1>4, <1>5

-----------------------------------------------------------------------------

Points == {"idle", "look", "passed", "check", "utxo", "spend", "append", "store",
           "fetch", "pop", "confirm", "range"}

(* In a caller of AddBlock, before the append, with the one block it has.  *)
Adding == {"look", "passed", "check", "utxo", "spend"}

Busy(p) == at[p] \notin {"idle", "range"}

Register == [ptr : Nat, len : Nat, left : SUBSET (Stores \cup Loads)]

WorkOK ==
  \A p \in Process :
    /\ Busy(p) => work[p] # <<>>
    /\ at[p] \in Adding => Len(work[p]) = 1 /\ work[p][1] # Genesis
    /\ at[p] = "fetch" => work[p] \in Branch

TypeOK ==
  /\ heap \in Seq(Seq(Block \cup {Nil}))
  /\ ptr \in 1..Len(heap)
  /\ len \in Nat
  /\ utxos \in UTXOSet
  /\ at \in [Process -> Points]
  /\ reg \in [Process -> Register]
  /\ \A p \in Process : reg[p].ptr \in 1..Len(heap)
  /\ work \in [Process -> Seq(Block)]
  /\ WorkOK
  /\ seen \in [Process -> Seq(Block)]
  /\ applied \subseteq Block \ {Genesis}
  /\ overlap \in BOOLEAN /\ clash \in BOOLEAN
  /\ switched \in BOOLEAN /\ emptied \in BOOLEAN

LEMMA TypeFacts ==
  ASSUME TypeOK, NEW p \in Process
  PROVE  /\ Len(heap) \in Nat \ {0}
         /\ reg[p] \in Register /\ reg[p].ptr \in 1..Len(heap) /\ reg[p].len \in Nat
         /\ \A T : reg[p].left \ T \in SUBSET (Stores \cup Loads)
         /\ \A a \in 1..Len(heap) : heap[a] \in Seq(Block \cup {Nil}) /\ Len(heap[a]) \in Nat
         /\ Busy(p) => work[p] \in Seq(Block) /\ Len(work[p]) \in Nat \ {0} /\ work[p][1] \in Block
<1>1. heap \in Seq(Seq(Block \cup {Nil})) /\ ptr \in 1..Len(heap)
  BY DEF TypeOK
<1>2. reg[p] \in Register /\ reg[p].ptr \in 1..Len(heap)
  BY DEF TypeOK
<1>3. ASSUME Busy(p)
      PROVE  work[p] \in Seq(Block) /\ Len(work[p]) \in Nat \ {0} /\ work[p][1] \in Block
  <2>1. work[p] \in Seq(Block) /\ work[p] # <<>>
    BY <1>3 DEF TypeOK, WorkOK
  <2> QED
    BY <2>1
<1> QED
  BY <1>1, <1>2, <1>3 DEF Register

(* An append that moves: the arrays there were stay as they are.           *)
LEMMA GrowHeap ==
  ASSUME TypeOK, NEW p \in Process, Grow(p)
  PROVE  /\ heap' \in Seq(Seq(Block \cup {Nil}))
         /\ Len(heap') = Len(heap) + 1
         /\ \A a \in 1..Len(heap) : heap'[a] = heap[a]
         /\ ptr' = Len(heap) + 1
         /\ Len(heap'[ptr']) = 2 * Len(heap[reg[p].ptr])
         /\ reg[p].len = Len(heap[reg[p].ptr])
         /\ \A k \in 1..Len(heap'[ptr']) :
              heap'[ptr'][k] = IF k <= reg[p].len THEN heap[reg[p].ptr][k] ELSE Nil
<1> DEFINE old == heap[reg[p].ptr]
           size == Len(old)
<1>1. old \in Seq(Block \cup {Nil}) /\ size \in Nat /\ reg[p].len \in Nat
  BY TypeFacts
<1>2. reg[p].len = size
  BY <1>1 DEF Grow, Beyond, Room
<1>3. \A k \in 1..2 * size : Grown(p)[k] = IF k <= reg[p].len THEN old[k] ELSE Nil
  BY DEF Grown, Element
<1>4. Grown(p) \in Seq(Block \cup {Nil}) /\ Len(Grown(p)) = 2 * size
  <2>1. \A k \in 1..2 * size : Grown(p)[k] \in Block \cup {Nil}
    BY <1>1, <1>2, <1>3
  <2>2. Grown(p) = [k \in 1..2 * size |-> Grown(p)[k]]
    BY DEF Grown
  <2>3. 2 * size \in Nat
    BY <1>1
  <2> HIDE DEF size
  <2> QED
    BY <2>1, <2>2, <2>3
<1>5. heap' = Append(heap, Grown(p)) /\ ptr' = Len(heap')
  BY DEF Grow
<1>6. heap \in Seq(Seq(Block \cup {Nil}))
  BY DEF TypeOK
<1>7. /\ heap' \in Seq(Seq(Block \cup {Nil})) /\ Len(heap') = Len(heap) + 1
      /\ \A a \in 1..Len(heap) : heap'[a] = heap[a]
      /\ heap'[Len(heap) + 1] = Grown(p)
  BY <1>4, <1>5, <1>6, AppendFacts
<1>8. heap'[ptr'] = Grown(p)
  BY <1>5, <1>7
<1> HIDE DEF old, size
<1> QED
  BY <1>2, <1>3, <1>4, <1>5, <1>7, <1>8 DEF old, size

(* A store of an element changes one place at most.                        *)
LEMMA StoreHeap ==
  ASSUME TypeOK, NEW p \in Process, StoreElement(p)
  PROVE  /\ heap' \in Seq(Seq(Block \cup {Nil}))
         /\ Len(heap') = Len(heap)
         /\ \A a \in 1..Len(heap) :
              /\ Len(heap'[a]) = Len(heap[a])
              /\ \A k \in 1..Len(heap[a]) :
                   heap'[a][k] = IF a = reg[p].ptr /\ k = reg[p].len + 1
                                 THEN work[p][1] ELSE heap[a][k]
<1> DEFINE i == reg[p].ptr
           j == reg[p].len + 1
           b == work[p][1]
           new == [heap[i] EXCEPT ![j] = b]
<1>1. /\ heap \in Seq(Seq(Block \cup {Nil})) /\ i \in 1..Len(heap) /\ j \in Nat
      /\ heap[i] \in Seq(Block \cup {Nil}) /\ b \in Block
  <2>1. Busy(p)
    BY DEF StoreElement, Busy
  <2> QED
    BY <2>1, TypeFacts DEF TypeOK
<1>2. /\ new \in Seq(Block \cup {Nil}) /\ Len(new) = Len(heap[i])
      /\ \A k \in 1..Len(heap[i]) : new[k] = IF k = j THEN b ELSE heap[i][k]
  <2> HIDE DEF i, b, j
  <2>1. CASE j \in 1..Len(heap[i])
    BY <1>1, <2>1, ExceptSeq
  <2>2. CASE j \notin 1..Len(heap[i])
    <3>1. new = heap[i]
      BY <1>1, <2>2
    <3> QED
      BY <1>1, <2>2, <3>1
  <2> QED
    BY <2>1, <2>2
<1>3. heap' = [heap EXCEPT ![i] = new]
  BY DEF StoreElement
<1> HIDE DEF i, j, b, new
<1>4. /\ heap' \in Seq(Seq(Block \cup {Nil})) /\ Len(heap') = Len(heap)
      /\ \A a \in 1..Len(heap) : heap'[a] = IF a = i THEN new ELSE heap[a]
  BY <1>1, <1>2, <1>3, ExceptSeq
<1> QED
  BY <1>1, <1>2, <1>4 DEF i, j, b

-----------------------------------------------------------------------------
(***************************************************************************)
(* Types.                                                                  *)
(***************************************************************************)
LEMMA TypeInit == Init => TypeOK
<1> SUFFICES ASSUME Init PROVE TypeOK
  OBVIOUS
<1>1. heap = <<<<Genesis>>>> /\ Genesis \in Block
  BY ChainAssumption DEF Init
<1>2. NewUTXOSet \in UTXOSet
  BY DEF NewUTXOSet, UTXOSet
<1>3. reg \in [Process -> Register]
  BY DEF Init, Unloaded, Register
<1>4. heap \in Seq(Seq(Block \cup {Nil})) /\ Len(heap) = 1
  BY <1>1
<1>5. \A p \in Process : reg[p].ptr = 1
  BY DEF Init, Unloaded
<1>6. /\ work \in [Process -> Seq(Block)] /\ seen \in [Process -> Seq(Block)]
      /\ at \in [Process -> Points] /\ \A p \in Process : at[p] = "idle"
  BY DEF Init, Points
<1>7. /\ \A p \in Process : at[p] = "idle"
      /\ ptr = 1 /\ len = 1 /\ applied = {} /\ overlap = FALSE /\ clash = FALSE
      /\ switched = FALSE /\ emptied = FALSE /\ utxos = NewUTXOSet
  BY <1>6 DEF Init
<1>8. len \in Nat /\ ptr \in 1..Len(heap) /\ (\A p \in Process : reg[p].ptr \in 1..Len(heap))
  BY <1>4, <1>5, <1>7
<1>9. /\ applied \subseteq Block \ {Genesis} /\ overlap \in BOOLEAN /\ clash \in BOOLEAN
      /\ switched \in BOOLEAN /\ emptied \in BOOLEAN
  BY <1>7
<1>10. \A p \in Process : ~ Busy(p) /\ at[p] \notin Adding /\ at[p] # "fetch"
  BY <1>6 DEF Busy, Adding
<1> HIDE DEF Init
<1> QED
  BY <1>2, <1>3, <1>4, <1>6, <1>7, <1>8, <1>9, <1>10 DEF TypeOK, WorkOK

(* The ways a register changes.                                            *)
LEMMA SetLeft ==
  ASSUME TypeOK, NEW p \in Process, NEW y \in SUBSET (Stores \cup Loads),
         reg' = [reg EXCEPT ![p].left = y]
  PROVE  /\ reg' \in [Process -> Register]
         /\ \A q \in Process \ {p} : reg'[q] = reg[q]
         /\ reg'[p].ptr = reg[p].ptr /\ reg'[p].len = reg[p].len /\ reg'[p].left = y
<1> DEFINE new == [reg[p] EXCEPT !.left = y]
<1>1. reg \in [Process -> Register] /\ reg[p] \in Register
  BY DEF TypeOK
<1>2. new \in Register /\ new.ptr = reg[p].ptr /\ new.len = reg[p].len /\ new.left = y
  BY <1>1 DEF Register
<1>3. reg' = [reg EXCEPT ![p] = new]
  BY <1>1
<1> HIDE DEF new
<1> QED
  BY <1>1, <1>2, <1>3

LEMMA LoadReg ==
  ASSUME TypeOK, NEW p \in Process, Load(p)
  PROVE  /\ reg' \in [Process -> Register]
         /\ \A q \in Process : reg'[q].ptr \in 1..Len(heap)
         /\ \A q \in Process \ {p} : reg'[q] = reg[q]
         /\ \/ /\ "ptr" \in reg[p].left
               /\ reg'[p].ptr = ptr /\ reg'[p].len = reg[p].len
               /\ reg'[p].left = reg[p].left \ {"ptr"}
            \/ /\ "len" \in reg[p].left
               /\ reg'[p].ptr = reg[p].ptr /\ reg'[p].len = len
               /\ reg'[p].left = reg[p].left \ {"len"}
<1>1. /\ reg[p].left \ {"ptr"} \in SUBSET (Stores \cup Loads)
      /\ reg[p].left \ {"len"} \in SUBSET (Stores \cup Loads)
      /\ ptr \in Nat /\ len \in Nat
      /\ ptr \in 1..Len(heap) /\ \A q \in Process : reg[q].ptr \in 1..Len(heap)
  BY TypeFacts DEF TypeOK
<1>2. reg \in [Process -> Register] /\ reg[p] \in Register
  BY DEF TypeOK
<1>3. CASE /\ "ptr" \in reg[p].left
           /\ reg' = [reg EXCEPT ![p].ptr = ptr, ![p].left = @ \ {"ptr"}]
  <2> DEFINE mid == [reg[p] EXCEPT !.ptr = ptr]
             new == [mid EXCEPT !.left = reg[p].left \ {"ptr"}]
  <2>1. mid \in Register /\ mid.ptr = ptr /\ mid.len = reg[p].len
    BY <1>1, <1>2 DEF Register
  <2>2. reg' = [reg EXCEPT ![p] = new]
    BY <1>2, <1>3
  <2> HIDE DEF mid
  <2>3. /\ new \in Register /\ new.ptr = ptr /\ new.len = reg[p].len
        /\ new.left = reg[p].left \ {"ptr"}
    BY <1>1, <2>1 DEF Register
  <2> HIDE DEF new
  <2> QED
    BY <1>1, <1>2, <1>3, <2>2, <2>3
<1>4. CASE /\ "len" \in reg[p].left
           /\ reg' = [reg EXCEPT ![p].len = len, ![p].left = @ \ {"len"}]
  <2> DEFINE mid == [reg[p] EXCEPT !.len = len]
             new == [mid EXCEPT !.left = reg[p].left \ {"len"}]
  <2>1. mid \in Register /\ mid.ptr = reg[p].ptr /\ mid.len = len
    BY <1>1, <1>2 DEF Register
  <2>2. reg' = [reg EXCEPT ![p] = new]
    BY <1>2, <1>4
  <2> HIDE DEF mid
  <2>3. /\ new \in Register /\ new.ptr = reg[p].ptr /\ new.len = len
        /\ new.left = reg[p].left \ {"len"}
    BY <1>1, <2>1 DEF Register
  <2> HIDE DEF new
  <2> QED
    BY <1>1, <1>2, <1>4, <2>2, <2>3
<1> QED
  BY <1>3, <1>4 DEF Load

LEMMA GrowReg ==
  ASSUME TypeOK, NEW p \in Process, Grow(p)
  PROVE  /\ reg' \in [Process -> Register]
         /\ \A q \in Process : reg'[q].ptr \in 1..Len(heap')
         /\ \A q \in Process \ {p} : reg'[q] = reg[q]
         /\ reg'[p].ptr = ptr' /\ reg'[p].len = reg[p].len /\ reg'[p].left = Stores
<1>1. /\ reg' = [reg EXCEPT ![p].ptr = ptr', ![p].left = Stores]
      /\ Stores \in SUBSET (Stores \cup Loads)
  BY DEF Grow
<1>2. ptr' = Len(heap) + 1 /\ Len(heap') = Len(heap) + 1 /\ Len(heap) \in Nat
  BY GrowHeap, TypeFacts
<1>3. /\ reg' \in [Process -> Register]
      /\ \A q \in Process \ {p} : reg'[q] = reg[q]
      /\ reg'[p].ptr = ptr' /\ reg'[p].len = reg[p].len /\ reg'[p].left = Stores
  <2> DEFINE mid == [reg[p] EXCEPT !.ptr = ptr']
             new == [mid EXCEPT !.left = Stores]
  <2>1. reg \in [Process -> Register] /\ reg[p] \in Register
    BY DEF TypeOK
  <2>2. mid \in Register /\ mid.ptr = ptr' /\ mid.len = reg[p].len
    BY <1>2, <2>1 DEF Register
  <2>3. reg' = [reg EXCEPT ![p] = new]
    BY <1>1, <2>1
  <2> HIDE DEF mid
  <2>4. new \in Register /\ new.ptr = ptr' /\ new.len = reg[p].len /\ new.left = Stores
    BY <1>1, <2>2 DEF Register
  <2> HIDE DEF new
  <2> QED
    BY <2>1, <2>3, <2>4
<1>4. \A q \in Process : reg[q].ptr \in 1..Len(heap)
  BY DEF TypeOK
<1> QED
  BY <1>2, <1>3, <1>4

LEMMA FillReg ==
  ASSUME TypeOK, NEW p \in Process, Fill(p)
  PROVE  /\ reg' \in [Process -> Register]
         /\ \A q \in Process : reg'[q].ptr \in 1..Len(heap)
         /\ \A q \in Process \ {p} : reg'[q] = reg[q]
         /\ reg'[p].ptr = reg[p].ptr /\ reg'[p].len = reg[p].len /\ reg'[p].left = Stores
<1>1. reg' = [reg EXCEPT ![p].left = Stores] /\ Stores \in SUBSET (Stores \cup Loads)
  BY DEF Fill
<1> QED
  BY <1>1, SetLeft, TypeFacts DEF TypeOK

(* What Goes and Returns leave of the types.                               *)
LEMMA GoesType ==
  ASSUME TypeOK, NEW p \in Process,
         \/ \E point \in Points : Goes(p, point)
         \/ Returns(p)
  PROVE  /\ at' \in [Process -> Points]
         /\ reg' \in [Process -> Register]
         /\ \A q \in Process : reg'[q].ptr \in 1..Len(heap)
         /\ \A q \in Process \ {p} : at'[q] = at[q] /\ reg'[q] = reg[q]
<1>1. PICK new \in Register : new.ptr = 1 /\ reg' = [reg EXCEPT ![p] = new]
  BY DEF Goes, Returns, Unloaded, Register
<1>2. PICK point \in Points : at' = [at EXCEPT ![p] = point]
  BY DEF Goes, Returns, Points
<1>3. 1 \in 1..Len(heap)
  BY DEF TypeOK
<1> QED
  BY <1>1, <1>2, <1>3 DEF TypeOK

LEMMA StoredType ==
  ASSUME TypeOK, NEW p \in Process, at[p] = "store", NEW s \in Stores, Stored(p, s)
  PROVE  /\ at' \in [Process -> Points]
         /\ reg' \in [Process -> Register]
         /\ \A q \in Process : reg'[q].ptr \in 1..Len(heap)
         /\ work' \in [Process -> Seq(Block)]
         /\ WorkOK'
<1>1. work[p] \in Seq(Block) /\ work[p] # <<>>
  BY DEF TypeOK, WorkOK, Busy
<1>2. CASE reg[p].left # {s}
  <2>1. reg' = [reg EXCEPT ![p].left = @ \ {s}] /\ at' = at /\ work' = work
    BY <1>2 DEF Stored
  <2>2. reg[p].left \ {s} \in SUBSET (Stores \cup Loads)
    BY TypeFacts
  <2>3. /\ reg' \in [Process -> Register]
        /\ \A q \in Process : reg'[q].ptr = reg[q].ptr
    BY <2>1, <2>2, SetLeft
  <2> QED
    BY <2>1, <2>3 DEF TypeOK, WorkOK, Busy
<1>3. CASE reg[p].left = {s}
  <2>1. work' = [work EXCEPT ![p] = Tail(work[p])]
    BY <1>3 DEF Stored
  <2>2. Tail(work[p]) \in Seq(Block)
    BY <1>1
  <2>3. work' \in [Process -> Seq(Block)]
    BY <2>1, <2>2 DEF TypeOK
  <2>4. CASE Len(work[p]) = 1
    <3>1. Returns(p)
      BY <1>3, <2>4 DEF Stored
    <3>2. at'[p] = "idle"
      BY <3>1 DEF Returns, TypeOK
    <3> QED
      BY <2>1, <2>3, <3>1, <3>2, GoesType DEF TypeOK, WorkOK, Busy, Adding
  <2>5. CASE Len(work[p]) # 1
    <3>1. Goes(p, "append") /\ "append" \in Points
      BY <1>3, <2>5 DEF Stored, Points
    <3>2. Tail(work[p]) # <<>>
      <4>1. Len(work[p]) \in Nat \ {0} /\ Len(Tail(work[p])) = Len(work[p]) - 1
        BY <1>1
      <4>2. Len(Tail(work[p])) # 0
        BY <2>5, <4>1
      <4> QED
        BY <4>2, <2>2, EmptySeq
    <3>3. work'[p] # <<>> /\ at'[p] = "append"
      BY <2>1, <3>1, <3>2 DEF TypeOK, Goes
    <3> QED
      BY <2>1, <2>3, <3>1, <3>3, GoesType DEF TypeOK, WorkOK, Busy, Adding
  <2> QED
    BY <2>4, <2>5
<1> QED
  BY <1>2, <1>3

(* What a call of the UTXO set takes out was in it.                        *)
LEMMA SetType ==
  ASSUME TypeOK, NEW p \in Process, Spend(p) \/ Notice(p)
  PROVE  utxos' \in UTXOSet
<1>1. \A u \in Utxo : utxos[u] \in Nat /\ (u \in Left(p) => utxos[u] > 0)
  BY DEF TypeOK, UTXOSet, Left, CheckUTXO
<1>2. CASE Spend(p)
  BY <1>1, <1>2 DEF Spend, UTXOSet
<1>3. CASE Notice(p)
  <2>1. PICK gone \in SUBSET Left(p) :
          utxos' = [u \in Utxo |-> utxos[u] - (IF u \in gone THEN 1 ELSE 0)]
    BY <1>3 DEF Notice
  <2> QED
    BY <1>1, <2>1 DEF UTXOSet
<1> QED
  BY <1>2, <1>3

(* The steps from one point to another.                                    *)
Moves(p) ==
  \/ Look(p) \/ AddBlock(p) \/ Check(p) \/ CheckInputs(p)
  \/ StartSwitch(p) \/ Pop(p) \/ EndPops(p) \/ Confirm(p) \/ StartRange(p) \/ EndRange(p)
  \/ \E b \in Block : StartAdd(p, b)
  \/ \E fork \in Branch : HandleFork(p, fork)

LEMMA MovesType ==
  ASSUME TypeOK, NEW p \in Process, Moves(p)
  PROVE  TypeOK'
<1> USE DEF list, history
<1>1. (\E point \in Points : Goes(p, point)) \/ Returns(p)
  BY DEF Moves, Look, AddBlock, Check, CheckInputs, Pop, EndPops, Confirm, StartRange, EndRange,
         StartAdd, HandleFork, StartSwitch, Starts, Calls, Abandons, Points
<1>2. /\ at' \in [Process -> Points]
      /\ reg' \in [Process -> Register]
      /\ \A q \in Process : reg'[q].ptr \in 1..Len(heap)
      /\ \A q \in Process \ {p} : at'[q] = at[q] /\ reg'[q] = reg[q]
  BY <1>1, GoesType
<1>3. UNCHANGED <<ptr, heap, utxos, applied>>
  BY Zenon DEF Moves, Look, AddBlock, Check, CheckInputs, Pop, EndPops, Confirm, StartRange, EndRange,
         StartAdd, HandleFork, StartSwitch
<1>4. len' \in Nat
  <2>1. CASE Pop(p)
    BY <2>1, TypeFacts DEF Pop, NotFound
  <2>2. CASE ~ Pop(p)
    <3>1. len' = len
      BY <2>2, Zenon DEF Moves, Look, AddBlock, Check, CheckInputs, EndPops, Confirm, StartRange,
             EndRange, StartAdd, HandleFork, StartSwitch
    <3> QED
      BY <3>1 DEF TypeOK
  <2> QED
    BY <2>1, <2>2
<1>5. overlap' \in BOOLEAN
  <2>1. overlap' = overlap \/ \E b \in BOOLEAN : overlap' = b
    BY Zenon DEF Moves, Look, AddBlock, Check, CheckInputs, Pop, EndPops, Confirm, StartRange, EndRange,
           StartAdd, HandleFork, StartSwitch, Calls
  <2> QED
    BY <2>1, Zenon DEF TypeOK
<1>6. clash' \in BOOLEAN
  <2>1. clash' = clash \/ \E b \in BOOLEAN : clash' = b
    BY Zenon DEF Moves, Look, AddBlock, Check, CheckInputs, Pop, EndPops, Confirm, StartRange, EndRange,
           StartAdd, HandleFork, StartSwitch
  <2> QED
    BY <2>1, Zenon DEF TypeOK
<1>7. switched' \in BOOLEAN
  <2>1. switched' = switched \/ switched' = TRUE
    BY Zenon DEF Moves, Look, AddBlock, Check, CheckInputs, Pop, EndPops, Confirm, StartRange, EndRange,
           StartAdd, HandleFork, StartSwitch
  <2> QED
    BY <2>1, Zenon DEF TypeOK
<1>8. emptied' \in BOOLEAN
  <2>1. emptied' = emptied \/ \E b \in BOOLEAN : emptied' = b
    BY Zenon DEF Moves, Look, AddBlock, Check, CheckInputs, Pop, EndPops, Confirm, StartRange, EndRange,
           StartAdd, HandleFork, StartSwitch
  <2> QED
    BY <2>1, Zenon DEF TypeOK
<1>9. seen' \in [Process -> Seq(Block)]
  <2>1. seen' = seen \/ seen' = [seen EXCEPT ![p] = <<>>]
    BY Zenon DEF Moves, Look, AddBlock, Check, CheckInputs, Pop, EndPops, Confirm, StartRange, EndRange,
           StartAdd, HandleFork, StartSwitch
  <2>2. <<>> \in Seq(Block)
    OBVIOUS
  <2> QED
    BY <2>1, <2>2 DEF TypeOK
<1>10. work' \in [Process -> Seq(Block)] /\ WorkOK'
  <2>1. CASE \E b \in Block : StartAdd(p, b)
    <3>1. PICK b \in Block : b # Genesis /\ work' = [work EXCEPT ![p] = <<b>>] /\ Goes(p, "look")
      BY <2>1 DEF StartAdd, Starts, Verify
    <3>2. <<b>> \in Seq(Block) /\ <<b>> # <<>> /\ Len(<<b>>) = 1 /\ <<b>>[1] = b /\ at'[p] = "look"
      BY <3>1 DEF Goes, TypeOK
    <3> QED
      BY <1>2, <3>1, <3>2 DEF TypeOK, WorkOK, Busy
  <2>2. CASE \E fork \in Branch : HandleFork(p, fork)
    <3>1. PICK fork \in Branch : work' = [work EXCEPT ![p] = fork] /\ Goes(p, "fetch")
      BY <2>2 DEF HandleFork, Starts
    <3>2. fork \in Seq(Block) /\ fork # <<>> /\ at'[p] = "fetch" /\ "fetch" \notin Adding
      BY <3>1, RaceAssumption DEF Goes, TypeOK, Adding
    <3> QED
      BY <1>2, <3>1, <3>2 DEF TypeOK, WorkOK, Busy
  <2>3. CASE Abandons(p)
    <3>1. /\ at'[p] = "idle" /\ "idle" \notin Adding
          /\ work' = [work EXCEPT ![p] = <<>>] /\ <<>> \in Seq(Block)
      BY <2>3 DEF Abandons, Returns, TypeOK, Adding
    <3> QED
      BY <1>2, <3>1 DEF TypeOK, WorkOK, Busy
  <2>4. CASE /\ work' = work /\ (Busy(p)' => Busy(p)) /\ at'[p] # "fetch"
             /\ at'[p] \in Adding => at[p] \in Adding
    BY <1>2, <2>4 DEF TypeOK, WorkOK, Busy
  <2>5. CASE /\ work' = work /\ Busy(p)
             /\ at[p] \in Adding \/ at[p] \in {"fetch", "pop", "confirm"}
             /\ \E point \in (IF at[p] \in Adding THEN Points \ {"fetch"} ELSE {"pop", "confirm", "append"}) :
                  Goes(p, point)
    <3>1. at'[p] # "fetch" /\ (at'[p] \in Adding => at[p] \in Adding)
      BY <2>5 DEF Goes, TypeOK, Adding
    <3> QED
      BY <2>4, <2>5, <3>1
  <2>6. CASE StartRange(p) \/ EndRange(p)
    <3>1. work' = work /\ at'[p] \in {"idle", "range"}
      BY <2>6 DEF StartRange, EndRange, Starts, Goes, Returns, TypeOK
    <3> QED
      BY <2>4, <3>1 DEF Busy, Adding
  <2>7. CASE Look(p) \/ AddBlock(p) \/ Check(p) \/ CheckInputs(p)
    <3>1. at[p] \in Adding /\ Busy(p)
      BY <2>7 DEF Look, AddBlock, Check, CheckInputs, Loaded, Adding, Busy
    <3>2. \/ Abandons(p)
          \/ work' = work /\ \E point \in Points \ {"fetch"} : Goes(p, point)
      BY <2>7 DEF Look, AddBlock, Calls, Check, CheckInputs, Points
    <3> QED
      BY <2>3, <2>5, <3>1, <3>2
  <2>8. CASE StartSwitch(p) \/ Pop(p) \/ EndPops(p) \/ Confirm(p)
    <3>1. at[p] \in {"fetch", "pop", "confirm"} /\ at[p] \notin Adding /\ Busy(p)
      BY <2>8 DEF StartSwitch, Pop, EndPops, Confirm, Loaded, Adding, Busy
    <3>2. \/ Abandons(p)
          \/ work' = work /\ \E point \in {"pop", "confirm", "append"} : Goes(p, point)
      BY <2>8 DEF StartSwitch, Calls, Pop, EndPops, Confirm
    <3> QED
      BY <2>3, <2>5, <3>1, <3>2
  <2> QED
    BY <2>1, <2>2, <2>6, <2>7, <2>8 DEF Moves
<1> QED
  BY <1>2, <1>3, <1>4, <1>5, <1>6, <1>7, <1>8, <1>9, <1>10 DEF TypeOK

LEMMA TypeNext == TypeOK /\ [Next]_vars => TypeOK'
<1> SUFFICES ASSUME TypeOK, [Next]_vars PROVE TypeOK'
  OBVIOUS
<1> USE DEF list, history
<1>1. CASE UNCHANGED vars
  BY <1>1 DEF vars, TypeOK, WorkOK, Busy
<1>2. ASSUME NEW p \in Process, Load(p)
      PROVE  TypeOK'
  <2>1. UNCHANGED <<list, utxos, at, work, seen, ended, history>> /\ Len(heap) \in Nat
    BY <1>2 DEF Load, TypeOK
  <2> QED
    BY <1>2, <2>1, LoadReg DEF TypeOK, WorkOK, Busy
<1>3. ASSUME NEW p \in Process, ReadPanics(p) \/ EmptyPanics(p)
      PROVE  TypeOK'
  BY <1>3 DEF ReadPanics, EmptyPanics, Panic, TypeOK, WorkOK, Busy
<1>4. ASSUME NEW p \in Process, Grow(p)
      PROVE  TypeOK'
  <2>1. /\ heap' \in Seq(Seq(Block \cup {Nil})) /\ Len(heap') = Len(heap) + 1
        /\ ptr' = Len(heap) + 1 /\ Len(heap) \in Nat
    BY <1>4, GrowHeap, TypeFacts
  <2>2. /\ at' = [at EXCEPT ![p] = "store"]
        /\ UNCHANGED <<len, utxos, work, seen, ended, history>>
        /\ Busy(p)
    BY <1>4 DEF Grow, Loaded, Busy
  <2>3. /\ reg' \in [Process -> Register]
        /\ \A q \in Process : reg'[q].ptr \in 1..Len(heap')
    BY <1>4, GrowReg
  <2>4. at' \in [Process -> Points] /\ ptr' \in 1..Len(heap')
    BY <2>1, <2>2 DEF TypeOK, Points
  <2>5. WorkOK'
    BY <2>2 DEF TypeOK, WorkOK, Busy, Adding
  <2> QED
    BY <2>1, <2>2, <2>3, <2>4, <2>5 DEF TypeOK
<1>5. ASSUME NEW p \in Process, Fill(p)
      PROVE  TypeOK'
  <2>1. /\ at' = [at EXCEPT ![p] = "store"]
        /\ UNCHANGED <<list, utxos, work, seen, ended, history>>
        /\ Len(heap) \in Nat /\ Busy(p)
    BY <1>5 DEF Fill, Loaded, Busy, TypeOK
  <2> QED
    BY <1>5, <2>1, FillReg DEF TypeOK, WorkOK, Busy, Adding, Points
<1>6. ASSUME NEW p \in Process, StoreLen(p)
      PROVE  TypeOK'
  <2>1. at[p] = "store" /\ "len" \in Stores /\ Stored(p, "len")
    BY <1>6 DEF StoreLen, Stores
  <2>2. len' \in Nat /\ UNCHANGED <<ptr, heap, utxos, seen, ended, history>>
    BY <1>6, TypeFacts DEF StoreLen
  <2> QED
    BY <2>1, <2>2, StoredType DEF TypeOK
<1>7. ASSUME NEW p \in Process, StoreElement(p)
      PROVE  TypeOK'
  <2>1. at[p] = "store" /\ "element" \in Stores /\ Stored(p, "element")
    BY <1>7 DEF StoreElement, Stores
  <2>2. heap' \in Seq(Seq(Block \cup {Nil})) /\ Len(heap') = Len(heap)
    BY <1>7, StoreHeap
  <2>3. UNCHANGED <<ptr, len, utxos, seen, ended, history>>
    BY <1>7 DEF StoreElement
  <2> QED
    BY <2>1, <2>2, <2>3, StoredType DEF TypeOK
<1>8. ASSUME NEW p \in Process, Spend(p) \/ Notice(p)
      PROVE  TypeOK'
  <2>1. /\ at[p] = "spend" /\ Busy(p)
        /\ UNCHANGED <<list, seen, ended, overlap, clash, switched, emptied>>
    BY <1>8 DEF Spend, Notice, Busy
  <2>2. work[p] \in Seq(Block) /\ work[p] # <<>> /\ work[p][1] \in Block \ {Genesis}
    BY <2>1, TypeFacts DEF TypeOK, WorkOK, Adding
  <2>3. \/ Goes(p, "append") /\ work' = work /\ applied' = applied \cup {work[p][1]}
        \/ Abandons(p) /\ applied' = applied
    BY <1>8 DEF Spend, Notice
  <2>4. /\ at' \in [Process -> Points]
        /\ reg' \in [Process -> Register]
        /\ \A q \in Process : reg'[q].ptr \in 1..Len(heap)
        /\ \A q \in Process \ {p} : at'[q] = at[q] /\ reg'[q] = reg[q]
    BY <2>3, GoesType DEF Points, Abandons
  <2>5. work' \in [Process -> Seq(Block)] /\ WorkOK'
    <3>1. CASE Goes(p, "append") /\ work' = work
      <4>1. at'[p] = "append"
        BY <3>1 DEF Goes, TypeOK
      <4> QED
        BY <2>2, <2>4, <3>1, <4>1 DEF TypeOK, WorkOK, Busy, Adding
    <3>2. CASE Abandons(p)
      <4>1. at'[p] = "idle" /\ work' = [work EXCEPT ![p] = <<>>] /\ <<>> \in Seq(Block)
        BY <3>2 DEF Abandons, Returns, TypeOK
      <4> QED
        BY <2>4, <4>1 DEF TypeOK, WorkOK, Busy, Adding
    <3> QED
      BY <2>3, <3>1, <3>2
  <2>6. applied' \subseteq Block \ {Genesis}
    BY <2>2, <2>3 DEF TypeOK
  <2> QED
    BY <1>8, <2>1, <2>4, <2>5, <2>6, SetType DEF TypeOK
<1>9. ASSUME NEW p \in Process, ReadNext(p)
      PROVE  TypeOK'
  <2> DEFINE k == Len(seen[p]) + 1
             a == heap[reg[p].ptr]
  <2>1. seen[p] \in Seq(Block) /\ a \in Seq(Block \cup {Nil})
    BY DEF TypeOK
  <2>2. k \in 1..Len(a) /\ a[k] # Nil
    BY <1>9, <2>1 DEF ReadNext, Missing, Beyond, Element
  <2>3. Append(seen[p], a[k]) \in Seq(Block)
    BY <2>1, <2>2
  <2>4. seen' = [seen EXCEPT ![p] = Append(seen[p], a[k])]
    BY <1>9 DEF ReadNext, Element
  <2> HIDE DEF k, a
  <2>5. seen' \in [Process -> Seq(Block)]
    BY <2>3, <2>4 DEF TypeOK
  <2> QED
    BY <1>9, <2>5 DEF ReadNext, TypeOK, WorkOK, Busy
<1>10. Adder \subseteq Process /\ Switcher \subseteq Process /\ Reader \subseteq Process
  BY DEF Process
<1> QED
  BY <1>1, <1>2, <1>3, <1>4, <1>5, <1>6, <1>7, <1>8, <1>9, <1>10, MovesType DEF Next, Moves

LEMMA Types == Spec => []TypeOK
BY TypeInit, TypeNext, PTL DEF Spec

-----------------------------------------------------------------------------
(***************************************************************************)
(* Where a process is after a step.                                        *)
(***************************************************************************)
Others(p) == \A q \in Process \ {p} : at'[q] = at[q] /\ reg'[q] = reg[q] /\ work'[q] = work[q]

LEMMA GoesThere ==
  ASSUME TypeOK, NEW p \in Process, NEW point, Goes(p, point)
  PROVE  /\ at'[p] = point
         /\ reg'[p].left = IF point \in Loading THEN Loads ELSE {}
         /\ \A q \in Process \ {p} : at'[q] = at[q] /\ reg'[q] = reg[q]
<1>1. at \in [Process -> Points] /\ reg \in [Process -> Register]
  BY DEF TypeOK
<1>2. /\ at' = [at EXCEPT ![p] = point]
      /\ reg' = [reg EXCEPT ![p] = Unloaded(IF point \in Loading THEN Loads ELSE {})]
  BY DEF Goes
<1>3. reg'[p] = Unloaded(IF point \in Loading THEN Loads ELSE {})
  BY <1>1, <1>2
<1> QED
  BY <1>1, <1>2, <1>3 DEF Unloaded

LEMMA ReturnsThere ==
  ASSUME TypeOK, NEW p \in Process, Returns(p)
  PROVE  /\ at'[p] = "idle"
         /\ \A q \in Process \ {p} : at'[q] = at[q] /\ reg'[q] = reg[q]
BY DEF TypeOK, Returns

LEMMA StoredThere ==
  ASSUME TypeOK, NEW p \in Process, at[p] = "store", NEW s \in Stores, Stored(p, s)
  PROVE  /\ Others(p)
         /\ \/ /\ reg[p].left # {s} /\ at'[p] = "store" /\ work'[p] = work[p]
               /\ reg'[p].ptr = reg[p].ptr /\ reg'[p].len = reg[p].len
               /\ reg'[p].left = reg[p].left \ {s}
            \/ reg[p].left = {s} /\ Len(work[p]) = 1 /\ at'[p] = "idle"
            \/ /\ reg[p].left = {s} /\ Len(work[p]) # 1 /\ at'[p] = "append"
               /\ work'[p] = Tail(work[p]) /\ reg'[p].left = Loads
<1>1. CASE reg[p].left # {s}
  <2>1. reg' = [reg EXCEPT ![p].left = @ \ {s}] /\ at' = at /\ work' = work
    BY <1>1 DEF Stored
  <2>2. reg[p].left \ {s} \in SUBSET (Stores \cup Loads)
    BY TypeFacts
  <2> QED
    BY <1>1, <2>1, <2>2, SetLeft DEF Others
<1>2. CASE reg[p].left = {s} /\ Len(work[p]) = 1
  <2>1. work' = [work EXCEPT ![p] = Tail(@)] /\ Returns(p)
    BY <1>2 DEF Stored
  <2> QED
    BY <1>2, <2>1, ReturnsThere DEF Others, TypeOK
<1>3. CASE reg[p].left = {s} /\ Len(work[p]) # 1
  <2>1. work' = [work EXCEPT ![p] = Tail(@)] /\ Goes(p, "append")
    BY <1>3 DEF Stored
  <2>2. /\ at'[p] = "append" /\ reg'[p].left = Loads
        /\ \A q \in Process \ {p} : at'[q] = at[q] /\ reg'[q] = reg[q]
    BY <2>1, GoesThere DEF Loading
  <2> QED
    BY <1>3, <2>1, <2>2 DEF Others, TypeOK
<1> QED
  BY <1>1, <1>2, <1>3

-----------------------------------------------------------------------------
(***************************************************************************)
(* However calls overlap, but for those of the UTXO set.                   *)
(***************************************************************************)
Applied == {TxOf[b] : b \in applied}

(* The UTXO set took each block once, and no two that conflict.            *)
Accepted ==
  /\ Replays(utxos, Applied) /\ Grounded(Applied)
  /\ \A b, c \in applied : b # c => ~ Conflict(TxOf[b], TxOf[c])

(* What a call has checked is so until it spends.                          *)
InTurn ==
  /\ \A p, q \in Process : InSet(p) /\ InSet(q) => p = q
  /\ \A p \in Process : at[p] = "spend" => CheckTransaction(utxos, Tx1(p))

Appending(p) == at[p] \in {"append", "store"}
Unstored(p) == at[p] = "append" \/ (at[p] = "store" /\ "element" \in reg[p].left)

(* Each block is one process's to store, and at one position in whatever   *)
(* arrays it is.                                                           *)
OnePlace ==
  /\ \A a, c \in 1..Len(heap) : \A j \in 1..Len(heap[a]), k \in 1..Len(heap[c]) :
       heap[a][j] = heap[c][k] /\ heap[a][j] # Nil => j = k
  /\ \A a \in 1..Len(heap) : \A j \in 1..Len(heap[a]) :
       heap[a][j] \in applied \cup {Genesis, Nil}
  /\ \A p \in Process : Appending(p) => Len(work[p]) = 1 /\ work[p][1] \in applied
  /\ \A p \in Process : at[p] \notin {"pop", "confirm"}
  /\ \A p \in Process : Unstored(p) =>
       \A a \in 1..Len(heap) : \A j \in 1..Len(heap[a]) : heap[a][j] # work[p][1]
  /\ \A p, q \in Process : Unstored(p) /\ Unstored(q) /\ p # q => work[p][1] # work[q][1]

Once == ~ clash => Accepted /\ InTurn /\ (~ switched => OnePlace)

LEMMA OnceInit == Init => Once
<1> SUFFICES ASSUME Init PROVE Once
  OBVIOUS
<1>1. heap = <<<<Genesis>>>> /\ applied = {} /\ utxos = NewUTXOSet
  BY DEF Init
<1>2. Applied = {}
  BY <1>1 DEF Applied
<1>3. Accepted
  BY <1>1, <1>2, InitialReplay DEF Accepted
<1>4. /\ Len(heap) = 1 /\ Len(heap[1]) = 1 /\ heap[1][1] = Genesis
      /\ \A p \in Process : at[p] = "idle"
  BY <1>1 DEF Init
<1>5. \A a \in 1..Len(heap) : a = 1
  BY <1>4
<1>6. \A a \in 1..Len(heap) : \A j \in 1..Len(heap[a]) : a = 1 /\ j = 1
  <2>1. \A j \in 1..Len(heap[1]) : j = 1
    BY <1>4
  <2> QED
    BY <1>5, <2>1
<1> HIDE DEF Init
<1>7. OnePlace
  BY <1>4, <1>6 DEF OnePlace, Appending, Unstored
<1>8. InTurn
  BY <1>4 DEF InTurn, InSet
<1> QED
  BY <1>3, <1>7, <1>8 DEF Once

(* Outside the UTXO set: nobody enters it, and it stays as it is.          *)
LEMMA TurnKept ==
  ASSUME NEW p \in Process, Others(p), utxos' = utxos, InTurn,
         ~ InSet(p)' \/ (at'[p] = at[p] /\ work'[p] = work[p])
  PROVE  InTurn'
<1>1. \A q \in Process : InSet(q)' => InSet(q) /\ at'[q] = at[q] /\ work'[q] = work[q]
  BY DEF Others, InSet
<1>2. \A q \in Process : at'[q] = "spend" => InSet(q)'
  BY DEF InSet
<1> QED
  BY <1>1, <1>2 DEF InTurn, Tx1, CheckTransaction, CheckUTXO

LEMMA OneStep ==
  ASSUME TypeOK, OnePlace, NEW p \in Process, Others(p), heap' = heap, applied' = applied,
         \/ at'[p] \in {"idle", "range", "fetch"} \cup Adding
         \/ /\ Appending(p)' /\ Appending(p) /\ work'[p] = work[p]
            /\ Unstored(p)' => Unstored(p)
  PROVE  OnePlace'
<1>1. \A q \in Process :
        \/ at'[q] \in {"idle", "range", "fetch"} \cup Adding
        \/ /\ Appending(q)' /\ Appending(q) /\ work'[q] = work[q]
           /\ Unstored(q)' => Unstored(q)
  <2>1. ASSUME NEW q \in Process \ {p}
        PROVE  /\ at[q] \in Points /\ at[q] \notin {"pop", "confirm"}
               /\ at'[q] = at[q] /\ reg'[q] = reg[q] /\ work'[q] = work[q]
    BY DEF Others, OnePlace, TypeOK
  <2>2. ASSUME NEW q \in Process \ {p}
        PROVE  \/ at'[q] \in {"idle", "range", "fetch"} \cup Adding
               \/ /\ Appending(q)' /\ Appending(q) /\ work'[q] = work[q]
                  /\ Unstored(q)' => Unstored(q)
    BY <2>1 DEF Points, Adding, Appending, Unstored
  <2> QED
    BY <2>2
<1>2. \A q \in Process : /\ at'[q] \notin {"pop", "confirm"}
                         /\ Appending(q)' => Appending(q) /\ work'[q] = work[q]
                         /\ Unstored(q)' => Appending(q)' /\ Unstored(q)
  BY <1>1 DEF Appending, Unstored, Adding
<1>3. \A q \in Process : Appending(q)' => Len(work'[q]) = 1 /\ work'[q][1] \in applied'
  BY <1>2 DEF OnePlace
<1>4. /\ \A q \in Process : Unstored(q)' =>
           \A a \in 1..Len(heap') : \A j \in 1..Len(heap'[a]) : heap'[a][j] # work'[q][1]
      /\ \A q, r \in Process : Unstored(q)' /\ Unstored(r)' /\ q # r => work'[q][1] # work'[r][1]
  BY <1>2 DEF OnePlace
<1>5. /\ \A a, c \in 1..Len(heap') : \A j \in 1..Len(heap'[a]), k \in 1..Len(heap'[c]) :
           heap'[a][j] = heap'[c][k] /\ heap'[a][j] # Nil => j = k
      /\ \A a \in 1..Len(heap') : \A j \in 1..Len(heap'[a]) :
           heap'[a][j] \in applied' \cup {Genesis, Nil}
  BY DEF OnePlace
<1> QED
  BY <1>2, <1>3, <1>4, <1>5 DEF OnePlace

LEMMA OneGrow ==
  ASSUME TypeOK, OnePlace, NEW p \in Process, Grow(p)
  PROVE  OnePlace'
<1> DEFINE old == heap[reg[p].ptr]
<1>1. /\ Len(heap) \in Nat /\ reg[p].ptr \in 1..Len(heap) /\ Len(old) \in Nat
      /\ \A a \in 1..Len(heap) : Len(heap[a]) \in Nat
  BY TypeFacts
<1>2. /\ Len(heap') = Len(heap) + 1 /\ ptr' = Len(heap) + 1
      /\ \A a \in 1..Len(heap) : heap'[a] = heap[a]
      /\ Len(heap'[ptr']) = 2 * Len(old) /\ reg[p].len = Len(old)
      /\ \A k \in 1..Len(heap'[ptr']) : heap'[ptr'][k] = IF k <= Len(old) THEN old[k] ELSE Nil
  BY GrowHeap
<1> HIDE DEF old
<1>3. ASSUME NEW a \in 1..Len(heap'), NEW j \in 1..Len(heap'[a]), heap'[a][j] # Nil
      PROVE  \E c \in 1..Len(heap) : j \in 1..Len(heap[c]) /\ heap[c][j] = heap'[a][j]
  <2>1. CASE a \in 1..Len(heap)
    BY <1>2, <2>1
  <2>2. CASE a = ptr'
    <3>1. j <= Len(old) /\ heap'[a][j] = old[j] /\ j \in 1..Len(old)
      BY <1>1, <1>2, <1>3, <2>2
    <3> QED
      BY <1>1, <3>1 DEF old
  <2> QED
    BY <1>1, <1>2, <2>1, <2>2
<1>4. /\ at[p] = "append" /\ at' = [at EXCEPT ![p] = "store"]
      /\ UNCHANGED <<work, applied>>
  BY DEF Grow, Loaded, history
<1>5. \A q \in Process \ {p} : reg'[q] = reg[q]
  BY GrowReg
<1>6. \A q \in Process : /\ at'[q] \notin {"pop", "confirm"}
                         /\ Appending(q)' => Appending(q) /\ work'[q] = work[q]
                         /\ Unstored(q)' => Appending(q)' /\ Unstored(q)
  BY <1>4, <1>5 DEF OnePlace, TypeOK, Appending, Unstored
<1>7. \A a \in 1..Len(heap') : \A j \in 1..Len(heap'[a]) : heap'[a][j] \in applied \cup {Genesis, Nil}
  <2> SUFFICES ASSUME NEW a \in 1..Len(heap'), NEW j \in 1..Len(heap'[a]), heap'[a][j] # Nil
               PROVE  heap'[a][j] \in applied \cup {Genesis, Nil}
    OBVIOUS
  <2> QED
    BY <1>3 DEF OnePlace
<1>8. \A a, c \in 1..Len(heap') : \A j \in 1..Len(heap'[a]), k \in 1..Len(heap'[c]) :
       heap'[a][j] = heap'[c][k] /\ heap'[a][j] # Nil => j = k
  <2>1. \A a, c \in 1..Len(heap) : \A j \in 1..Len(heap[a]), k \in 1..Len(heap[c]) :
          heap[a][j] = heap[c][k] /\ heap[a][j] # Nil => j = k
    BY DEF OnePlace
  <2> SUFFICES ASSUME NEW a \in 1..Len(heap'), NEW c \in 1..Len(heap'),
                      NEW j \in 1..Len(heap'[a]), NEW k \in 1..Len(heap'[c]),
                      heap'[a][j] = heap'[c][k], heap'[a][j] # Nil
               PROVE  j = k
    OBVIOUS
  <2>2. PICK e \in 1..Len(heap) : j \in 1..Len(heap[e]) /\ heap[e][j] = heap'[a][j]
    BY <1>3
  <2>3. PICK f \in 1..Len(heap) : k \in 1..Len(heap[f]) /\ heap[f][k] = heap'[c][k]
    BY <1>3
  <2> QED
    BY <2>1, <2>2, <2>3
<1>9. \A q \in Process : Unstored(q)' =>
        \A a \in 1..Len(heap') : \A j \in 1..Len(heap'[a]) : heap'[a][j] # work'[q][1]
  <2> SUFFICES ASSUME NEW q \in Process, Unstored(q)',
                      NEW a \in 1..Len(heap'), NEW j \in 1..Len(heap'[a]),
                      heap'[a][j] = work'[q][1]
               PROVE  FALSE
    OBVIOUS
  <2>1. Unstored(q) /\ Appending(q) /\ work'[q] = work[q]
    BY <1>6
  <2>2. work[q][1] \in applied
    BY <2>1 DEF OnePlace
  <2>3. work[q][1] # Nil
    BY <2>2, ChainAssumption DEF TypeOK
  <2> QED
    BY <1>3, <2>1, <2>3 DEF OnePlace
<1>10. /\ \A q \in Process : Appending(q)' => Len(work'[q]) = 1 /\ work'[q][1] \in applied'
       /\ \A q, r \in Process : Unstored(q)' /\ Unstored(r)' /\ q # r => work'[q][1] # work'[r][1]
  BY <1>4, <1>6 DEF OnePlace
<1> QED
  BY <1>4, <1>6, <1>7, <1>8, <1>9, <1>10 DEF OnePlace

LEMMA OneStore ==
  ASSUME TypeOK, OnePlace, NEW p \in Process, StoreElement(p)
  PROVE  OnePlace'
<1> DEFINE b == work[p][1]
<1>1. /\ at[p] = "store" /\ "element" \in reg[p].left /\ Stored(p, "element")
      /\ "element" \in Stores /\ applied' = applied
  BY DEF StoreElement, Stores, history
<1>2. Unstored(p) /\ Appending(p) /\ b \in applied /\ Len(work[p]) = 1
  BY <1>1 DEF Unstored, Appending, OnePlace
<1>3. b \in Block \ {Genesis, Nil}
  BY <1>2, ChainAssumption DEF TypeOK
<1>4. /\ Len(heap') = Len(heap)
      /\ \A a \in 1..Len(heap) :
           /\ Len(heap'[a]) = Len(heap[a])
           /\ \A k \in 1..Len(heap[a]) :
                heap'[a][k] = IF a = reg[p].ptr /\ k = reg[p].len + 1 THEN b ELSE heap[a][k]
  BY StoreHeap
<1>5. /\ Others(p)
      /\ \/ at'[p] = "store" /\ work'[p] = work[p] /\ "element" \notin reg'[p].left
         \/ at'[p] = "idle"
  BY <1>1, <1>2, StoredThere
<1> HIDE DEF b
<1>6. \A q \in Process : /\ at'[q] \notin {"pop", "confirm"}
                         /\ Appending(q)' => Appending(q) /\ work'[q] = work[q]
                         /\ Unstored(q)' => Appending(q)' /\ Unstored(q) /\ q # p
  BY <1>1, <1>5 DEF OnePlace, TypeOK, Others, Appending, Unstored
<1>7. \A a \in 1..Len(heap') : \A j \in 1..Len(heap'[a]) :
        /\ heap'[a][j] # b => heap'[a][j] = heap[a][j]
        /\ heap'[a][j] = b => j = reg[p].len + 1
        /\ heap[a][j] # b
  <2>1. \A a \in 1..Len(heap) : \A j \in 1..Len(heap[a]) : heap[a][j] # b
    BY <1>2 DEF OnePlace, b
  <2> QED
    BY <1>4, <2>1
<1>8. \A a \in 1..Len(heap') : \A j \in 1..Len(heap'[a]) : heap'[a][j] \in applied \cup {Genesis, Nil}
  <2>1. \A a \in 1..Len(heap) : \A j \in 1..Len(heap[a]) : heap[a][j] \in applied \cup {Genesis, Nil}
    BY DEF OnePlace
  <2> QED
    BY <1>2, <1>4, <1>7, <2>1
<1>9. \A a, c \in 1..Len(heap') : \A j \in 1..Len(heap'[a]), k \in 1..Len(heap'[c]) :
       heap'[a][j] = heap'[c][k] /\ heap'[a][j] # Nil => j = k
  <2> SUFFICES ASSUME NEW a \in 1..Len(heap'), NEW c \in 1..Len(heap'),
                      NEW j \in 1..Len(heap'[a]), NEW k \in 1..Len(heap'[c]),
                      heap'[a][j] = heap'[c][k], heap'[a][j] # Nil
               PROVE  j = k
    OBVIOUS
  <2>1. CASE heap'[a][j] = b
    BY <1>7, <2>1
  <2>2. CASE heap'[a][j] # b
    <3>1. heap[a][j] = heap'[a][j] /\ heap[c][k] = heap'[c][k]
      BY <1>7, <2>2
    <3>2. a \in 1..Len(heap) /\ c \in 1..Len(heap) /\ j \in 1..Len(heap[a]) /\ k \in 1..Len(heap[c])
      BY <1>4
    <3>3. \A e, f \in 1..Len(heap) : \A x \in 1..Len(heap[e]), y \in 1..Len(heap[f]) :
            heap[e][x] = heap[f][y] /\ heap[e][x] # Nil => x = y
      BY DEF OnePlace
    <3> QED
      BY <3>1, <3>2, <3>3
  <2> QED
    BY <2>1, <2>2
<1>10. \A q \in Process : Unstored(q)' =>
        \A a \in 1..Len(heap') : \A j \in 1..Len(heap'[a]) : heap'[a][j] # work'[q][1]
  <2>1. ASSUME NEW q \in Process, Unstored(q)'
        PROVE  /\ work'[q] = work[q] /\ work[q][1] # b
               /\ \A a \in 1..Len(heap) : \A j \in 1..Len(heap[a]) : heap[a][j] # work[q][1]
    BY <1>2, <1>6, <2>1 DEF OnePlace, b
  <2> QED
    BY <1>4, <2>1
<1>11. /\ \A q \in Process : Appending(q)' => Len(work'[q]) = 1 /\ work'[q][1] \in applied'
       /\ \A q, r \in Process : Unstored(q)' /\ Unstored(r)' /\ q # r => work'[q][1] # work'[r][1]
  BY <1>1, <1>6 DEF OnePlace
<1> QED
  BY <1>1, <1>6, <1>8, <1>9, <1>10, <1>11 DEF OnePlace

(* UTXOSet.AddBlock lets a block through that it has not let through yet.  *)
LEMMA SpendNew ==
  ASSUME TypeOK, Accepted, NEW p \in Process, Spend(p), CheckTransaction(utxos, Tx1(p))
  PROVE  /\ Accepted'
         /\ work[p][1] \in Block \ {Genesis, Nil} /\ work[p][1] \notin applied
         /\ applied' = applied \cup {work[p][1]}
<1> DEFINE b == work[p][1]
           t == TxOf[b]
<1>1. b \in Block \ {Genesis, Nil}
  <2>1. Busy(p) /\ at[p] \in Adding
    BY DEF Spend, Busy, Adding
  <2> QED
    BY <2>1, TypeFacts, ChainAssumption DEF TypeOK, WorkOK
<1>2. utxos' = AddTransaction(utxos, t) /\ applied' = applied \cup {b}
  <2>1. Left(p) = Inputs[t] /\ Tx1(p) = t
    BY DEF Left, Tx1, CheckTransaction
  <2> HIDE DEF b, t
  <2> QED
    BY <2>1 DEF Spend, AddTransaction, b
<1>3. t \in Tx /\ Applied \in SUBSET Tx /\ \A c \in applied : TxOf[c] \in Applied
  BY <1>1, ChainAssumption DEF TypeOK, Applied
<1>4. /\ t \notin Applied
      /\ \A s \in Applied : Inputs[s] \cap Inputs[t] = {}
  BY <1>3, CheckedIsNew DEF Accepted, Tx1
<1>5. Applied' = Applied \cup {t}
  BY <1>2 DEF Applied
<1>6. Replays(utxos', Applied') /\ Grounded(Applied')
  BY <1>2, <1>3, <1>5, AddTransactionReplays DEF Accepted, TypeOK, Tx1
<1> HIDE DEF b, t
<1>7. \A c \in applied : ~ Conflict(TxOf[c], t) /\ ~ Conflict(t, TxOf[c]) /\ c # b
  BY <1>3, <1>4 DEF Conflict, t
<1>8. Accepted'
  BY <1>2, <1>6, <1>7 DEF Accepted, t
<1> QED
  BY <1>1, <1>2, <1>7, <1>8 DEF b

LEMMA OneSpend ==
  ASSUME TypeOK, Accepted, OnePlace, NEW p \in Process, Spend(p), CheckTransaction(utxos, Tx1(p))
  PROVE  OnePlace'
<1> DEFINE b == work[p][1]
<1>1. b \in Block \ {Genesis, Nil} /\ b \notin applied /\ applied' = applied \cup {b}
  BY SpendNew
<1>2. heap' = heap /\ work' = work /\ Goes(p, "append") /\ at[p] = "spend"
  BY DEF Spend, list
<1>3. /\ at'[p] = "append"
      /\ \A q \in Process \ {p} : at'[q] = at[q] /\ reg'[q] = reg[q]
  BY <1>2, GoesThere
<1>4. Len(work[p]) = 1
  BY <1>2 DEF TypeOK, WorkOK, Adding
<1>5. \A a \in 1..Len(heap) : \A j \in 1..Len(heap[a]) : heap[a][j] # b
  BY <1>1 DEF OnePlace
<1> HIDE DEF b
<1>6. /\ \A q \in Process : Appending(q)' => Len(work'[q]) = 1 /\ work'[q][1] \in applied'
      /\ \A q \in Process : at'[q] \notin {"pop", "confirm"}
  BY <1>1, <1>2, <1>3, <1>4 DEF OnePlace, Appending, b
<1>7. \A q \in Process : Unstored(q)' => q = p \/ (Unstored(q) /\ Appending(q))
  BY <1>3 DEF Unstored, Appending
<1>8. \A q \in Process : Unstored(q) => work[q][1] # b
  BY <1>1 DEF OnePlace, Unstored, Appending
<1>9. \A q \in Process : Unstored(q)' =>
        \A a \in 1..Len(heap') : \A j \in 1..Len(heap'[a]) : heap'[a][j] # work'[q][1]
  BY <1>2, <1>5, <1>7 DEF OnePlace, b
<1>10. \A q, r \in Process : Unstored(q)' /\ Unstored(r)' /\ q # r => work'[q][1] # work'[r][1]
  BY <1>2, <1>7, <1>8 DEF OnePlace, b
<1> QED
  BY <1>1, <1>2, <1>6, <1>9, <1>10 DEF OnePlace

(* A step that leaves the UTXO set alone, and does not enter it.           *)
LEMMA OnceKept ==
  ASSUME Once, NEW p \in Process, Others(p), UNCHANGED <<utxos, applied, clash>>,
         ~ InSet(p)' \/ (at'[p] = at[p] /\ work'[p] = work[p]),
         ~ switched' => ~ switched /\ (OnePlace => OnePlace')
  PROVE  Once'
<1> SUFFICES ASSUME ~ clash' PROVE Accepted' /\ InTurn' /\ (~ switched' => OnePlace')
  BY DEF Once
<1>1. Accepted /\ InTurn /\ (~ switched => OnePlace)
  BY DEF Once
<1>2. Accepted'
  BY <1>1 DEF Accepted, Applied
<1> QED
  BY <1>1, <1>2, TurnKept

LEMMA OnceSet ==
  ASSUME TypeOK, Once, NEW p \in Process, Check(p) \/ CheckInputs(p) \/ Spend(p) \/ Notice(p)
  PROVE  Once'
<1> SUFFICES ASSUME ~ clash' PROVE Accepted' /\ InTurn' /\ (~ switched' => OnePlace')
  BY DEF Once
<1>1. ~ clash /\ switched' = switched /\ heap' = heap
  <2>1. switched' = switched /\ heap' = heap
    BY DEF Check, CheckInputs, Spend, Notice, history, list
  <2>2. clash => clash'
    BY Zenon DEF Check, CheckInputs, Spend, Notice, history
  <2> QED
    BY <2>1, <2>2
<1>2. Accepted /\ InTurn /\ (~ switched => OnePlace)
  BY <1>1 DEF Once
<1>3. CASE Abandons(p) /\ UNCHANGED <<utxos, applied>>
  <2>1. Others(p) /\ at'[p] = "idle"
    BY <1>3, ReturnsThere DEF Abandons, Others, TypeOK
  <2>2. ~ InSet(p)' /\ (OnePlace => OnePlace')
    BY <1>1, <1>3, <2>1, OneStep DEF InSet
  <2>3. Accepted'
    BY <1>2, <1>3 DEF Accepted, Applied
  <2> QED
    BY <1>1, <1>2, <1>3, <2>1, <2>2, <2>3, TurnKept
<1>4. CASE Check(p) /\ ~ Abandons(p)
  <2>1. /\ Goes(p, "utxo") /\ UNCHANGED <<utxos, applied, work>>
        /\ \A q \in Process \ {p} : ~ InSet(q)
    BY <1>4 DEF Check
  <2>2. Others(p) /\ at'[p] = "utxo"
    BY <2>1, GoesThere DEF Others
  <2>3. \A q \in Process : InSet(q)' => q = p
    BY <2>1, <2>2 DEF InSet, Others
  <2>4. \A q \in Process : at'[q] # "spend"
    BY <2>2, <2>3 DEF InSet
  <2>5. InTurn'
    BY <2>3, <2>4 DEF InTurn
  <2>6. OnePlace => OnePlace'
    BY <1>1, <2>1, <2>2, OneStep DEF Adding
  <2>7. Accepted'
    BY <1>2, <2>1 DEF Accepted, Applied
  <2> QED
    BY <1>1, <1>2, <2>5, <2>6, <2>7
<1>5. CASE CheckInputs(p) /\ ~ Abandons(p)
  <2>1. /\ Goes(p, "spend") /\ UNCHANGED <<utxos, applied, work>> /\ at[p] = "utxo"
        /\ CheckTransaction(utxos, Tx1(p))
    BY <1>5 DEF CheckInputs, history
  <2>2. Others(p) /\ at'[p] = "spend"
    BY <2>1, GoesThere DEF Others
  <2>3. \A q \in Process : InSet(q)' <=> InSet(q)
    BY <2>1, <2>2 DEF InSet, Others
  <2>4. \A q \in Process : at'[q] = "spend" => at[q] = "spend" \/ q = p
    BY <2>2 DEF Others
  <2>5. \A q \in Process : CheckTransaction(utxos, Tx1(q))' <=> CheckTransaction(utxos, Tx1(q))
    BY <2>1 DEF CheckTransaction, CheckUTXO, Tx1
  <2>6. InTurn'
    BY <1>2, <2>1, <2>3, <2>4, <2>5 DEF InTurn
  <2>7. OnePlace => OnePlace'
    BY <1>1, <2>1, <2>2, OneStep DEF Adding
  <2>8. Accepted'
    BY <1>2, <2>1 DEF Accepted, Applied
  <2> QED
    BY <1>1, <1>2, <2>6, <2>7, <2>8
<1>6. CASE Spend(p)
  <2>1. CheckTransaction(utxos, Tx1(p)) /\ InSet(p)
    BY <1>2, <1>6 DEF Spend, InTurn, InSet
  <2>2. Goes(p, "append")
    BY <1>6 DEF Spend
  <2>3. \A q \in Process : ~ InSet(q)' /\ at'[q] # "spend"
    BY <1>2, <2>1, <2>2, GoesThere DEF InTurn, InSet
  <2>4. InTurn'
    BY <2>3 DEF InTurn
  <2>5. Accepted'
    BY <1>2, <1>6, <2>1, SpendNew
  <2>6. OnePlace => OnePlace'
    BY <1>2, <1>6, <2>1, OneSpend
  <2> QED
    BY <1>1, <1>2, <2>4, <2>5, <2>6
<1>7. CASE Notice(p)
  BY <1>2, <1>7 DEF Notice, InTurn
<1>8. Check(p) \/ CheckInputs(p) => UNCHANGED <<utxos, applied>>
  BY DEF Check, CheckInputs, history
<1> QED
  BY <1>3, <1>4, <1>5, <1>6, <1>7, <1>8

(* The steps of AddBlock's and ReplaceWithFork's callers, and of readers.  *)
LEMMA OnceMoves ==
  ASSUME TypeOK, Once, NEW p \in Process, Moves(p), ~ Check(p), ~ CheckInputs(p)
  PROVE  Once'
<1>1. UNCHANGED <<heap, utxos, applied, clash>>
  BY Zenon DEF Moves, Look, AddBlock, Pop, EndPops, Confirm, StartRange, EndRange,
         StartAdd, HandleFork, StartSwitch, Calls, list, history
<1>2. Others(p)
  <2>1. CASE \E point \in Points : Goes(p, point)
    <3>1. \A q \in Process \ {p} : at'[q] = at[q] /\ reg'[q] = reg[q]
      BY <2>1, GoesThere
    <3>2. \A q \in Process \ {p} : work'[q] = work[q]
      <4>1. work' = work \/ \E w : work' = [work EXCEPT ![p] = w]
        BY Zenon DEF Moves, Look, AddBlock, Pop, EndPops, Confirm, StartRange, EndRange,
               StartAdd, HandleFork, StartSwitch, Calls, Abandons
      <4> QED
        BY <4>1 DEF TypeOK
    <3> QED
      BY <3>1, <3>2 DEF Others
  <2>2. CASE Returns(p)
    <3>1. \A q \in Process \ {p} : at'[q] = at[q] /\ reg'[q] = reg[q]
      BY <2>2, ReturnsThere
    <3>2. \A q \in Process \ {p} : work'[q] = work[q]
      <4>1. work' = work \/ \E w : work' = [work EXCEPT ![p] = w]
        BY Zenon DEF Moves, Look, AddBlock, Pop, EndPops, Confirm, StartRange, EndRange,
               StartAdd, HandleFork, StartSwitch, Calls, Abandons
      <4> QED
        BY <4>1 DEF TypeOK
    <3> QED
      BY <3>1, <3>2 DEF Others
  <2>3. (\E point \in Points : Goes(p, point)) \/ Returns(p)
    BY DEF Moves, Look, AddBlock, Pop, EndPops, Confirm, StartRange, EndRange,
           StartAdd, HandleFork, StartSwitch, Starts, Calls, Abandons, Points
  <2> QED
    BY <2>1, <2>2, <2>3
<1>3. CASE Look(p) \/ AddBlock(p) \/ StartRange(p) \/ EndRange(p)
           \/ (\E b \in Block : StartAdd(p, b)) \/ \E fork \in Branch : HandleFork(p, fork)
  <2>1. switched' = switched
    BY <1>3, Zenon DEF Look, AddBlock, StartRange, EndRange, StartAdd, HandleFork, history
  <2>2. \/ \E point \in {"look", "passed", "check", "range", "fetch"} : Goes(p, point)
        \/ Returns(p)
    BY <1>3 DEF Look, AddBlock, StartRange, EndRange, StartAdd, HandleFork, Starts, Calls, Abandons
  <2>3. at'[p] \in {"look", "passed", "check", "range", "fetch", "idle"}
    BY <2>2, GoesThere, ReturnsThere
  <2>4. ~ InSet(p)' /\ at'[p] \in {"idle", "range", "fetch"} \cup Adding
    BY <2>3 DEF InSet, Adding
  <2>5. OnePlace => OnePlace'
    BY <1>1, <1>2, <2>4, OneStep
  <2> QED
    BY <1>1, <1>2, <2>1, <2>4, <2>5, OnceKept
<1>4. CASE StartSwitch(p) \/ Pop(p) \/ EndPops(p) \/ Confirm(p)
  <2>1. \/ \E point \in {"pop", "confirm", "append"} : Goes(p, point)
        \/ Returns(p)
    BY <1>4 DEF StartSwitch, Pop, EndPops, Confirm, Calls, Abandons
  <2>2. at'[p] \in {"pop", "confirm", "append", "idle"}
    BY <2>1, GoesThere, ReturnsThere
  <2>3. ~ InSet(p)'
    BY <2>2 DEF InSet
  <2>4. ~ switched' => ~ switched /\ ~ OnePlace
    BY <1>4 DEF StartSwitch, Pop, EndPops, Confirm, Loaded, history, OnePlace
  <2> QED
    BY <1>1, <1>2, <2>3, <2>4, OnceKept
<1> QED
  BY <1>3, <1>4 DEF Moves

LEMMA OnceNext == TypeOK /\ Once /\ [Next]_vars => Once'
<1> SUFFICES ASSUME TypeOK, Once, [Next]_vars PROVE Once'
  OBVIOUS
<1>1. ASSUME UNCHANGED <<heap, utxos, at, reg, work, applied, clash, switched>>
      PROVE  Once'
  <2>1. OnePlace => OnePlace'
    BY <1>1 DEF OnePlace, Appending, Unstored
  <2>2. Accepted' <=> Accepted
    BY <1>1 DEF Accepted, Applied
  <2>3. InTurn' <=> InTurn
    BY <1>1 DEF InTurn, InSet, Tx1, CheckTransaction, CheckUTXO
  <2> QED
    BY <1>1, <2>1, <2>2, <2>3 DEF Once
<1>2. CASE UNCHANGED vars
  BY <1>1, <1>2 DEF vars, list, history
<1>3. ASSUME NEW p \in Process, ReadPanics(p) \/ EmptyPanics(p) \/ ReadNext(p)
      PROVE  Once'
  BY <1>1, <1>3 DEF ReadPanics, EmptyPanics, Panic, ReadNext, list, history
<1>4. ASSUME NEW p \in Process, Load(p)
      PROVE  Once'
  <2>1. UNCHANGED <<heap, utxos, at, work, applied, clash, switched>> /\ at[p] \in Loading
    BY <1>4 DEF Load, list, history
  <2>2. Others(p) /\ (Appending(p)' => Appending(p)) /\ (Unstored(p)' => Unstored(p))
    BY <1>4, <2>1, LoadReg DEF Others, Appending, Unstored, Loading
  <2>3. OnePlace => \/ at'[p] \in {"idle", "range", "fetch"} \cup Adding
                    \/ Appending(p)'
    BY <2>1 DEF OnePlace, Loading, Adding, Appending
  <2>4. OnePlace => OnePlace'
    BY <2>1, <2>2, <2>3, OneStep
  <2> QED
    BY <2>1, <2>2, <2>4, OnceKept
<1>5. ASSUME NEW p \in Process, Grow(p)
      PROVE  Once'
  <2>1. UNCHANGED <<utxos, work, applied, clash, switched>> /\ at' = [at EXCEPT ![p] = "store"]
    BY <1>5 DEF Grow, history
  <2>2. Others(p) /\ ~ InSet(p)'
    BY <1>5, <2>1, GrowReg DEF Others, InSet, TypeOK
  <2> QED
    BY <1>5, <2>1, <2>2, OneGrow, OnceKept
<1>6. ASSUME NEW p \in Process, Fill(p)
      PROVE  Once'
  <2>1. /\ UNCHANGED <<heap, utxos, work, applied, clash, switched>>
        /\ at[p] = "append" /\ at' = [at EXCEPT ![p] = "store"]
    BY <1>6 DEF Fill, Loaded, list, history
  <2>2. /\ Others(p) /\ Appending(p)' /\ Appending(p) /\ Unstored(p) /\ work'[p] = work[p]
        /\ ~ InSet(p)'
    BY <1>6, <2>1, FillReg DEF Others, Appending, Unstored, InSet, TypeOK
  <2>3. OnePlace => OnePlace'
    BY <2>1, <2>2, OneStep
  <2> QED
    BY <2>1, <2>2, <2>3, OnceKept
<1>7. ASSUME NEW p \in Process, StoreLen(p)
      PROVE  Once'
  <2>1. /\ UNCHANGED <<heap, utxos, applied, clash, switched>>
        /\ at[p] = "store" /\ "len" \in Stores /\ Stored(p, "len")
    BY <1>7 DEF StoreLen, Stores, history
  <2>2. Others(p) /\ ~ InSet(p)'
    BY <2>1, StoredThere DEF InSet
  <2>3. ASSUME OnePlace
        PROVE  OnePlace'
    <3>1. Len(work[p]) = 1 /\ Appending(p)
      BY <2>1, <2>3 DEF OnePlace, Appending
    <3>2. \/ /\ at'[p] = "store" /\ work'[p] = work[p]
             /\ reg'[p].left = reg[p].left \ {"len"}
          \/ at'[p] = "idle"
      BY <2>1, <3>1, StoredThere
    <3>3. CASE at'[p] = "idle"
      BY <2>1, <2>2, <2>3, <3>3, OneStep
    <3>4. CASE /\ at'[p] = "store" /\ work'[p] = work[p]
               /\ reg'[p].left = reg[p].left \ {"len"}
      <4>1. Appending(p)' /\ (Unstored(p)' => Unstored(p))
        BY <2>1, <3>4 DEF Appending, Unstored
      <4> QED
        BY <2>1, <2>2, <2>3, <3>1, <3>4, <4>1, OneStep
    <3> QED
      BY <3>2, <3>3, <3>4
  <2> QED
    BY <2>1, <2>2, <2>3, OnceKept
<1>8. ASSUME NEW p \in Process, StoreElement(p)
      PROVE  Once'
  <2>1. /\ UNCHANGED <<utxos, applied, clash, switched>>
        /\ at[p] = "store" /\ "element" \in Stores /\ Stored(p, "element")
    BY <1>8 DEF StoreElement, Stores, history
  <2>2. Others(p) /\ ~ InSet(p)'
    BY <2>1, StoredThere DEF InSet
  <2> QED
    BY <1>8, <2>1, <2>2, OneStore, OnceKept
<1>9. Adder \subseteq Process /\ Switcher \subseteq Process /\ Reader \subseteq Process
  BY DEF Process
<1> QED
  BY <1>2, <1>3, <1>4, <1>5, <1>6, <1>7, <1>8, <1>9, OnceSet, OnceMoves DEF Next, Moves

LEMMA OnceHolds == Spec => [](TypeOK /\ Once)
<1>1. Init => TypeOK /\ Once
  BY TypeInit, OnceInit
<1>2. TypeOK /\ Once /\ [Next]_vars => TypeOK' /\ Once'
  BY TypeNext, OnceNext
<1> QED
  BY <1>1, <1>2, PTL DEF Spec

(* Without a fork switch the list holds no block twice and no two blocks   *)
(* that spend the same output, however many calls of AddBlock overlap and  *)
(* whatever the order of their loads and stores, until two calls are in    *)
(* the check and the changes of the UTXO set at once (AddBlock).           *)
THEOREM SpentOnce == Spec => []SpentOnceOnList
<1>1. TypeOK /\ Once => SpentOnceOnList
  <2> SUFFICES ASSUME TypeOK, Once, ~ switched, ~ clash,
                      NEW j \in DOMAIN List, NEW k \in DOMAIN List,
                      j # k, List[j] # Nil, List[k] # Nil
               PROVE  /\ List[j] # List[k]
                      /\ List[j] # Genesis /\ List[k] # Genesis =>
                           ~ Conflict(TxOf[List[j]], TxOf[List[k]])
    BY DEF SpentOnceOnList
  <2>1. /\ ptr \in 1..Len(heap) /\ len \in Nat
        /\ heap[ptr] \in Seq(Block \cup {Nil}) /\ Len(heap[ptr]) \in Nat
    BY DEF TypeOK
  <2>2. \A i \in 1..len : List[i] = IF i <= Len(heap[ptr]) THEN heap[ptr][i] ELSE Nil
    BY DEF List
  <2>3. j \in 1..len /\ k \in 1..len
    BY DEF List
  <2>4. /\ j \in 1..Len(heap[ptr]) /\ k \in 1..Len(heap[ptr])
        /\ List[j] = heap[ptr][j] /\ List[k] = heap[ptr][k]
    BY <2>1, <2>2, <2>3
  <2> HIDE DEF List
  <2>5. List[j] # List[k]
    BY <2>1, <2>4 DEF Once, OnePlace
  <2>6. List[j] \in applied \cup {Genesis, Nil} /\ List[k] \in applied \cup {Genesis, Nil}
    BY <2>1, <2>4 DEF Once, OnePlace
  <2> QED
    BY <2>5, <2>6 DEF Once, Accepted
<1> QED
  BY <1>1, OnceHolds, PTL

-----------------------------------------------------------------------------
(***************************************************************************)
(* As long as calls that write do not overlap.                             *)
(***************************************************************************)
Array == heap[ptr]

(* The first m elements of the current array are on one another, and begin *)
(* with genesis unless the list was emptied.                               *)
Chained(m) ==
  /\ m \in 0..Len(Array) /\ Len(Array) > 0
  /\ ~ emptied => m > 0 /\ Array[1] = Genesis
  /\ \A k \in 1..m : Array[k] # Nil
  /\ \A k \in 2..m : Array[k] # Genesis /\ PrevHash[Array[k]] = Array[k-1]

AtHeight ==
  /\ \A a \in 1..Len(heap) : \A k \in 1..Len(heap[a]) :
       heap[a][k] # Nil => Height[heap[a][k]] = k - 1
  /\ \A p \in Process : \A k \in 1..Len(seen[p]) : Height[seen[p][k]] = k - 1

(* Blocks that can follow one another on a list.                           *)
Sound(blocks) ==
  \A i \in 1..Len(blocks) : /\ blocks[i] # Genesis
                            /\ i > 1 => PrevHash[blocks[i]] = blocks[i-1]

(* What has been loaded is still so.                                       *)
Fresh(p, m) ==
  /\ "ptr" \notin reg[p].left => reg[p].ptr = ptr
  /\ "len" \notin reg[p].left => reg[p].len = m

(* A block that is one higher than the one before it.                      *)
OneUp(b) == b \notin {Nil, Genesis} => Height[b] = Height[PrevHash[b]] + 1

(* A writer where the list is settled up to m.                             *)
Onward(p, m) ==
  /\ Sound(work[p])
  /\ ~ emptied /\ at[p] # "check" => \A i \in 1..Len(work[p]) : OneUp(work[p][i])
  /\ at[p] \in {"check", "append", "pop", "confirm"} => Fresh(p, m)
  /\ at[p] \in {"utxo", "spend", "append", "store"} /\ m > 0 => PrevHash[work[p][1]] = Array[m]
  /\ at[p] = "store" =>
       /\ reg[p].ptr = ptr /\ reg[p].len = m /\ m < Len(Array)
       /\ reg[p].left \subseteq Stores
       /\ len = IF "len" \in reg[p].left THEN m ELSE m + 1
       /\ "element" \notin reg[p].left => Array[m+1] = work[p][1]

(* The length is stored and the element is not, or the other way round.    *)
Pending(k) ==
  \E q \in Process : at[q] = "store" /\ reg[q].left = {"element"} /\ k = reg[q].len + 1
Filled(k) ==
  \E q \in Process : at[q] = "store" /\ "element" \notin reg[q].left /\ k = reg[q].len + 1

(* Up to k a loop over the current array meets no gap but the pending one. *)
Covered(k) ==
  /\ k <= Len(Array)
  /\ \A i \in 1..k : Array[i] # Nil \/ Pending(i)

(* Has loaded a length, and no turn to write.                              *)
Looking(p) == at[p] \in {"range", "look"} /\ "len" \notin reg[p].left

Listed(m) == {Array[k] : k \in 1..m}

(* Without a fork switch nothing that was stored is ever replaced.         *)
Unswitched(m) ==
  /\ ~ emptied
  /\ \A p \in Process : at[p] \notin {"pop", "confirm"}
  /\ \A p \in Process : Appending(p) => Len(work[p]) = 1
  /\ \A p \in Process : Appending(p) => applied \cup {Genesis} = Listed(m) \cup {work[p][1]}
  /\ (\A p \in Process : ~ Appending(p)) => applied \cup {Genesis} = Listed(m)
  /\ \A k \in 1..Len(Array) : k > m /\ ~ Filled(k) => Array[k] = Nil
  /\ \A a \in 1..Len(heap) : \A k \in 1..Len(heap[a]) :
       heap[a][k] # Nil => k \in 1..Len(Array) /\ Array[k] = heap[a][k]
  /\ \A p \in Process : \A k \in 1..Len(seen[p]) :
       k \in 1..Len(Array) /\ Array[k] = seen[p][k]

Settled(m) ==
  /\ \A p, q \in Process : Writing(p) /\ Writing(q) => p = q
  /\ Chained(m) /\ (~ emptied => AtHeight)
  /\ ~ Storing => len = m
  /\ \A p \in Process : Writing(p) => Onward(p, m)
  /\ Covered(len)
  /\ \A p \in Process : Looking(p) => Covered(reg[p].len)
  /\ ~ switched => Unswitched(m)

Alone == ~ overlap => \E m \in Nat : Settled(m)

LEMMA HeightThere ==
  ASSUME AtHeight, NEW a \in 1..Len(heap), NEW k \in 1..Len(heap[a]), heap[a][k] # Nil
  PROVE  Height[heap[a][k]] = k - 1
BY DEF AtHeight

LEMMA AloneInit == Init => Alone
<1> SUFFICES ASSUME Init PROVE Settled(1)
  BY DEF Alone
<1>1. /\ heap = <<<<Genesis>>>> /\ ptr = 1 /\ len = 1 /\ applied = {} /\ emptied = FALSE
      /\ \A p \in Process : at[p] = "idle" /\ seen[p] = <<>>
  BY DEF Init
<1>2. Array = <<Genesis>> /\ Len(heap) = 1
  BY <1>1 DEF Array
<1>3. Len(Array) = 1 /\ Array[1] = Genesis /\ heap[1] = Array
  BY <1>1, <1>2 DEF Array
<1>4. \A p \in Process : Len(seen[p]) = 0
  BY <1>1
<1> HIDE DEF Init
<1>5. Genesis # Nil /\ Height[Genesis] = 0
  BY ChainAssumption
<1>6. Chained(1)
  BY <1>3, <1>5 DEF Chained
<1>7. AtHeight
  <2>1. \A a \in 1..Len(heap) : a = 1
    BY <1>2
  <2>2. \A k \in 1..Len(Array) : k = 1
    BY <1>3
  <2> QED
    BY <1>3, <1>4, <1>5, <2>1, <2>2 DEF AtHeight
<1>8. \A p \in Process : ~ Writing(p) /\ ~ Appending(p)
  BY <1>1 DEF Writing, Appending
<1>9. Listed(1) = {Genesis}
  <2>1. 1..1 = {1}
    OBVIOUS
  <2> QED
    BY <1>3, <2>1 DEF Listed
<1>10. Unswitched(1)
  <2>1. \A a \in 1..Len(heap) : a = 1
    BY <1>2
  <2>2. \A k \in 1..Len(Array) : k = 1
    BY <1>3
  <2> QED
    BY <1>1, <1>3, <1>4, <1>8, <1>9, <2>1, <2>2 DEF Unswitched
<1>11. Covered(len)
  BY <1>1, <1>3, <1>5 DEF Covered
<1> QED
  BY <1>1, <1>6, <1>7, <1>8, <1>10, <1>11 DEF Settled, Looking

(* A step that leaves the list alone.                                      *)
LEMMA QuietStep ==
  ASSUME TypeOK, NEW m \in Nat, Settled(m), NEW p \in Process, Others(p),
         heap' = heap, ptr' = ptr, len' = len,
         Writing(p)' => \A q \in Process \ {p} : ~ Writing(q),
         Writing(p)' => Onward(p, m)',
         at[p] # "store", at'[p] = "store" => reg'[p].left = Stores,
         Looking(p)' => Covered(reg'[p].len), emptied' = emptied,
         \A q \in Process : seen'[q] = seen[q] \/ Len(seen'[q]) = 0,
         ~ switched' =>
           /\ ~ switched /\ at'[p] \notin {"pop", "confirm"}
           /\ Appending(p)' => Len(work'[p]) = 1
           /\ \/ /\ applied' = applied /\ (Appending(p)' <=> Appending(p))
                 /\ Appending(p) => work'[p] = work[p]
              \/ /\ Appending(p)' /\ \A q \in Process \ {p} : ~ Writing(q)
                 /\ applied' \cup {Genesis} = Listed(m) \cup {work'[p][1]}
  PROVE  Settled(m)'
<1>1. Array' = Array
  BY DEF Array
<1>2. \A q \in Process \ {p} : at'[q] = at[q] /\ reg'[q] = reg[q] /\ work'[q] = work[q]
  BY DEF Others
<1>3. \A k : (Pending(k)' <=> Pending(k)) /\ (Filled(k)' <=> Filled(k))
  BY <1>2 DEF Pending, Filled, Stores
<1>4. Chained(m)' /\ Chained(m)
  BY <1>1 DEF Settled, Chained
<1>5. ~ emptied' => AtHeight'
  <2> SUFFICES ASSUME ~ emptied' PROVE AtHeight'
    OBVIOUS
  <2>1. \A q \in Process : \A k \in 1..Len(seen'[q]) : seen'[q] = seen[q]
    OBVIOUS
  <2>2. AtHeight
    BY DEF Settled
  <2>3. \A q \in Process : \A k \in 1..Len(seen'[q]) : Height[seen'[q][k]] = k - 1
    BY <2>1, <2>2 DEF AtHeight
  <2> QED
    BY <2>2, <2>3 DEF AtHeight
<1>6. \A q, r \in Process : Writing(q)' /\ Writing(r)' => q = r
  BY <1>2 DEF Settled, Writing
<1>7. ~ Storing' => len' = m
  BY <1>2 DEF Settled, Storing
<1>8. \A q \in Process : Writing(q)' => Onward(q, m)'
  <2>1. ASSUME NEW q \in Process \ {p}, Writing(q)'
        PROVE  Onward(q, m)'
    <3>1. Writing(q) /\ Onward(q, m)
      BY <1>2, <2>1 DEF Settled, Writing
    <3> QED
      BY <1>1, <1>2, <3>1 DEF Onward, Fresh
  <2> QED
    BY <2>1
<1>9. Covered(len)'
  BY <1>1, <1>3 DEF Settled, Covered
<1>10. \A q \in Process : Looking(q)' => Covered(reg[q].len)'
  <2>1. ASSUME NEW q \in Process, Looking(q)'
        PROVE  Covered(reg'[q].len)
    <3>1. q # p => Looking(q) /\ reg'[q] = reg[q]
      BY <1>2, <2>1 DEF Looking
    <3> QED
      BY <2>1, <3>1 DEF Settled
  <2> QED
    BY <1>1, <1>3, <2>1 DEF Covered
<1>11. ASSUME ~ switched'
       PROVE  Unswitched(m)'
  <2>1. Listed(m)' = Listed(m) /\ Unswitched(m)
    BY <1>1, <1>11 DEF Listed, Settled
  <2>2. /\ \A q \in Process : Appending(q)' => Len(work'[q]) = 1
        /\ \A q \in Process : at'[q] \notin {"pop", "confirm"}
        /\ ~ emptied'
    BY <1>2, <1>11, <2>1 DEF Unswitched, Appending
  <2>3. /\ \A k \in 1..Len(Array) : k > m /\ ~ Filled(k)' => Array[k] = Nil
        /\ \A a \in 1..Len(heap) : \A k \in 1..Len(heap[a]) :
             heap[a][k] # Nil => k \in 1..Len(Array) /\ Array[k] = heap[a][k]
    BY <1>3, <2>1 DEF Unswitched
  <2>4. \A q \in Process : \A k \in 1..Len(seen'[q]) :
          k \in 1..Len(Array) /\ Array[k] = seen'[q][k]
    <3>1. \A q \in Process : \A k \in 1..Len(seen'[q]) : seen'[q] = seen[q]
      OBVIOUS
    <3> QED
      BY <2>1, <3>1 DEF Unswitched
  <2>5. /\ \A q \in Process : Appending(q)' => applied' \cup {Genesis} = Listed(m) \cup {work'[q][1]}
        /\ (\A q \in Process : ~ Appending(q)') => applied' \cup {Genesis} = Listed(m)
    <3>1. CASE /\ applied' = applied /\ (Appending(p)' <=> Appending(p))
               /\ Appending(p) => work'[p] = work[p]
      <4>1. \A q \in Process : /\ Appending(q)' <=> Appending(q)
                               /\ Appending(q) => work'[q] = work[q]
        BY <1>2, <3>1 DEF Appending
      <4> QED
        BY <2>1, <3>1, <4>1 DEF Unswitched
    <3>2. CASE /\ Appending(p)' /\ \A q \in Process \ {p} : ~ Writing(q)
               /\ applied' \cup {Genesis} = Listed(m) \cup {work'[p][1]}
      <4>1. \A q \in Process : Appending(q)' => q = p
        BY <1>2, <3>2 DEF Appending, Writing
      <4> QED
        BY <3>2, <4>1
    <3> QED
      BY <1>11, <3>1, <3>2
  <2> QED
    BY <1>1, <2>1, <2>2, <2>3, <2>4, <2>5 DEF Unswitched
<1> QED
  BY <1>4, <1>5, <1>6, <1>7, <1>8, <1>9, <1>10, <1>11 DEF Settled

(* What is known of a process in the middle of an append.                  *)
LEMMA StoreFacts ==
  ASSUME TypeOK, NEW m \in Nat, Settled(m), NEW p \in Process, at[p] = "store"
  PROVE  /\ \A q \in Process \ {p} : ~ Writing(q) /\ ~ Appending(q) /\ at[q] # "store"
         /\ Onward(p, m) /\ Chained(m) /\ Appending(p) /\ Writing(p)
         /\ reg[p].ptr = ptr /\ reg[p].len = m /\ m < Len(Array)
         /\ Len(Array) \in Nat /\ ptr \in 1..Len(heap)
         /\ work[p] \in Seq(Block) /\ work[p][1] \in Block \ {Genesis, Nil}
         /\ Len(work[p]) \in Nat \ {0}
         /\ m > 0 => PrevHash[work[p][1]] = Array[m]
         /\ ~ emptied => m > 0 /\ Height[work[p][1]] = m
         /\ \A k : Filled(k) <=> "element" \notin reg[p].left /\ k = m + 1
         /\ \A k : Pending(k) <=> reg[p].left = {"element"} /\ k = m + 1
<1>1. Writing(p) /\ Appending(p) /\ Onward(p, m) /\ Chained(m)
  BY DEF Writing, Appending, Settled
<1>2. \A q \in Process \ {p} : ~ Writing(q) /\ ~ Appending(q) /\ at[q] # "store"
  BY <1>1 DEF Writing, Appending, Settled
<1>3. /\ reg[p].ptr = ptr /\ reg[p].len = m /\ m < Len(Array)
      /\ m > 0 => PrevHash[work[p][1]] = Array[m]
      /\ ~ emptied => m \in 1..Len(Array)
  BY <1>1 DEF Onward, Chained
<1>4. /\ Len(Array) \in Nat /\ Array \in Seq(Block \cup {Nil}) /\ ptr \in 1..Len(heap)
      /\ work[p] \in Seq(Block) /\ work[p][1] \in Block /\ Len(work[p]) \in Nat \ {0}
  BY <1>1, TypeFacts DEF Array, Busy, Writing, TypeOK
<1>5. work[p][1] \in Block \ {Genesis, Nil} /\ (~ emptied => OneUp(work[p][1]))
  BY <1>1, <1>4, ChainAssumption DEF Onward, Sound
<1>6. ~ emptied => m > 0 /\ Height[work[p][1]] = m
  <2> SUFFICES ASSUME ~ emptied PROVE m > 0 /\ Height[work[p][1]] = m
    OBVIOUS
  <2>1. Height[work[p][1]] = Height[Array[m]] + 1
    BY <1>3, <1>5 DEF OneUp
  <2>2. Array[m] # Nil /\ Height[Array[m]] = m - 1
    BY <1>1, <1>3, <1>4 DEF Settled, AtHeight, Chained, Array
  <2> QED
    BY <1>3, <1>4, <2>1, <2>2
<1>7. /\ \A k : Filled(k) <=> "element" \notin reg[p].left /\ k = m + 1
      /\ \A k : Pending(k) <=> reg[p].left = {"element"} /\ k = m + 1
  BY <1>2, <1>3 DEF Filled, Pending
<1> QED
  BY <1>1, <1>2, <1>3, <1>4, <1>5, <1>6, <1>7

(* The first of the two stores of an append.                               *)
LEMMA FirstStore ==
  ASSUME TypeOK, NEW m \in Nat, Settled(m), NEW p \in Process, at[p] = "store",
         NEW s \in Stores, reg[p].left = Stores, Stored(p, s),
         Len(heap') = Len(heap), ptr' = ptr,
         \A a \in 1..Len(heap) :
           /\ Len(heap'[a]) = Len(heap[a])
           /\ \A k \in 1..Len(heap[a]) :
                heap'[a][k] = IF s = "element" /\ a = ptr /\ k = m + 1
                              THEN work[p][1] ELSE heap[a][k],
         len' = IF s = "len" THEN m + 1 ELSE len,
         seen' = seen, applied' = applied, switched' = switched, emptied' = emptied
  PROVE  Settled(m)'
<1> DEFINE b == work[p][1]
<1>0. Stores # {"element"} /\ Stores # {s} /\ "element" \in Stores
  <2>1. "element" \in Stores /\ "len" \in Stores /\ "len" # "element"
    BY DEF Stores
  <2> QED
    BY <2>1
<1>1. /\ \A q \in Process \ {p} : ~ Writing(q) /\ ~ Appending(q) /\ at[q] # "store"
      /\ Onward(p, m) /\ Chained(m) /\ Appending(p) /\ Writing(p)
      /\ reg[p].ptr = ptr /\ reg[p].len = m /\ m < Len(Array)
      /\ Len(Array) \in Nat /\ ptr \in 1..Len(heap)
      /\ b \in Block \ {Genesis, Nil} /\ (m > 0 => PrevHash[b] = Array[m])
      /\ ~ emptied => m > 0 /\ Height[b] = m
      /\ \A k : ~ Filled(k) /\ ~ Pending(k)
  BY <1>0, StoreFacts
<1>2. /\ Others(p) /\ at'[p] = "store" /\ work'[p] = work[p]
      /\ reg'[p].ptr = ptr /\ reg'[p].len = m /\ reg'[p].left = Stores \ {s}
  BY <1>0, <1>1, StoredThere
<1>3. /\ Len(Array') = Len(Array)
      /\ \A k \in 1..Len(Array) : Array'[k] = IF s = "element" /\ k = m + 1 THEN b ELSE Array[k]
  BY <1>1 DEF Array
<1>4. \A q \in Process \ {p} : at'[q] = at[q] /\ reg'[q] = reg[q] /\ ~ Writing(q)'
                               /\ ~ Appending(q)' /\ at'[q] # "store"
  BY <1>1, <1>2 DEF Others, Writing, Appending
<1>5. /\ \A k : Filled(k)' <=> s = "element" /\ k = m + 1
      /\ \A k : Pending(k)' <=> s = "len" /\ k = m + 1
  BY <1>2, <1>4 DEF Filled, Pending, Stores
<1>6. len = m
  BY <1>1 DEF Onward, Stores
<1> HIDE DEF b
<1>7. \A k \in 1..m : k \in 1..Len(Array) /\ Array'[k] = Array[k]
  BY <1>1, <1>3
<1>8. Chained(m)'
  <2>1. \A k \in 2..m : k \in 1..m /\ k - 1 \in 1..m
    BY <1>1
  <2> QED
    BY <1>1, <1>3, <1>7, <2>1 DEF Chained
<1>9. ~ emptied' => AtHeight'
  <2> SUFFICES ASSUME ~ emptied' PROVE AtHeight'
    OBVIOUS
  <2>1. AtHeight
    BY DEF Settled
  <2>2. ASSUME NEW a \in 1..Len(heap'), NEW k \in 1..Len(heap'[a]), heap'[a][k] # Nil
        PROVE  Height[heap'[a][k]] = k - 1
    <3>1. CASE s = "element" /\ a = ptr /\ k = m + 1
      BY <1>1, <3>1 DEF b
    <3>2. CASE ~ (s = "element" /\ a = ptr /\ k = m + 1)
      BY <2>1, <2>2, <3>2, HeightThere
    <3> QED
      BY <3>1, <3>2
  <2> QED
    BY <2>1, <2>2 DEF AtHeight
<1>10. Onward(p, m)'
  <2>1. Sound(work'[p]) /\ (~ emptied' => \A i \in 1..Len(work'[p]) : OneUp(work'[p][i]))
    BY <1>1, <1>2 DEF Onward
  <2>2. m > 0 => PrevHash[work'[p][1]] = Array'[m]
    BY <1>1, <1>2, <1>7 DEF b
  <2>3. len' = IF "len" \in reg'[p].left THEN m ELSE m + 1
    BY <1>2, <1>6 DEF Stores
  <2>4. "element" \notin reg'[p].left => Array'[m+1] = work'[p][1]
    BY <1>1, <1>2, <1>3 DEF Stores, b
  <2> QED
    BY <1>1, <1>2, <1>3, <2>1, <2>2, <2>3, <2>4 DEF Onward, Stores
<1>11. ASSUME NEW k \in Nat, Covered(k)
       PROVE  k <= Len(Array') /\ \A i \in 1..k : Array'[i] # Nil
  <2>1. k <= Len(Array) /\ \A i \in 1..k : Array[i] # Nil
    BY <1>1, <1>11 DEF Covered
  <2>2. \A i \in 1..k : i \in 1..Len(Array)
    BY <1>1, <2>1
  <2>3. b # Nil
    BY <1>1
  <2> QED
    BY <1>3, <2>1, <2>2, <2>3
<1>12. Covered(len)'
  <2>1. \A i \in 1..m : Array'[i] # Nil
    BY <1>1, <1>7 DEF Chained
  <2> QED
    BY <1>1, <1>3, <1>5, <1>6, <2>1 DEF Covered, Stores
<1>13. ASSUME NEW q \in Process, Looking(q)'
       PROVE  Covered(reg[q].len)'
  <2>1. reg'[q] = reg[q] /\ Covered(reg[q].len) /\ reg[q].len \in Nat
    <3>1. at'[p] \notin {"range", "look"} /\ q # p
      BY <1>2, <1>13 DEF Looking
    <3> QED
      BY <1>4, <1>13, <3>1, TypeFacts DEF Settled, Looking
  <2> QED
    BY <1>11, <2>1 DEF Covered
<1>14. ASSUME ~ switched'
       PROVE  Unswitched(m)'
  <2>1. Unswitched(m)
    BY <1>14 DEF Settled
  <2>2. Listed(m)' = Listed(m)
    BY <1>7 DEF Listed
  <2>3. /\ \A q \in Process : at'[q] = at[q] /\ (Appending(q)' <=> q = p)
        /\ \A q \in Process : work'[q] = work[q]
    BY <1>1, <1>2, <1>4 DEF Others, Appending
  <2>4. /\ ~ emptied'
        /\ \A q \in Process : Appending(q)' => Len(work'[q]) = 1
        /\ \A q \in Process : at'[q] \notin {"pop", "confirm"}
        /\ \A q \in Process : Appending(q)' => applied' \cup {Genesis} = Listed(m)' \cup {work'[q][1]}
        /\ (\A q \in Process : ~ Appending(q)') => applied' \cup {Genesis} = Listed(m)'
    <3>1. /\ ~ emptied
          /\ \A q \in Process : Appending(q) => Len(work[q]) = 1
          /\ \A q \in Process : at[q] \notin {"pop", "confirm"}
          /\ applied \cup {Genesis} = Listed(m) \cup {work[p][1]}
      BY <1>1, <2>1 DEF Unswitched
    <3>2. ~ emptied' /\ Len(work[p]) = 1
      BY <1>1, <3>1
    <3> QED
      BY <2>2, <2>3, <3>1, <3>2
  <2>5. \A k \in 1..Len(Array) : k > m => Array[k] = Nil
    BY <1>1, <2>1 DEF Unswitched
  <2>6. \A k \in 1..Len(Array') : k > m /\ ~ Filled(k)' => Array'[k] = Nil
    BY <1>3, <1>5, <2>5
  <2>7. \A k \in 1..Len(Array) : Array[k] # Nil => Array'[k] = Array[k]
    BY <1>1, <1>3, <2>5
  <2>8. ASSUME NEW a \in 1..Len(heap'), NEW k \in 1..Len(heap'[a]), heap'[a][k] # Nil
        PROVE  k \in 1..Len(Array') /\ Array'[k] = heap'[a][k]
    <3>1. CASE a = ptr
      BY <3>1 DEF Array
    <3>2. CASE a # ptr
      BY <1>3, <2>1, <2>7, <2>8, <3>2 DEF Unswitched
    <3> QED
      BY <3>1, <3>2
  <2>9. \A q \in Process : \A k \in 1..Len(seen'[q]) :
          k \in 1..Len(Array') /\ Array'[k] = seen'[q][k]
    <3> SUFFICES ASSUME NEW q \in Process, NEW k \in 1..Len(seen[q])
                 PROVE  k \in 1..Len(Array) /\ Array'[k] = seen[q][k]
      BY <1>3
    <3>1. seen[q] \in Seq(Block) /\ seen[q][k] # Nil
      BY ChainAssumption DEF TypeOK
    <3> QED
      BY <2>1, <2>7, <3>1 DEF Unswitched
  <2> QED
    BY <2>4, <2>6, <2>8, <2>9 DEF Unswitched
<1>15. /\ \A q, r \in Process : Writing(q)' /\ Writing(r)' => q = r
       /\ Storing' /\ \A q \in Process : Writing(q)' => q = p
  BY <1>2, <1>4 DEF Storing
<1> QED
  BY <1>8, <1>9, <1>10, <1>12, <1>13, <1>14, <1>15 DEF Settled

(* The second store of an append, after which the next may begin.          *)
LEMMA SecondStore ==
  ASSUME TypeOK, NEW m \in Nat, Settled(m), NEW p \in Process, at[p] = "store",
         NEW s \in Stores, reg[p].left = {s}, Stored(p, s),
         Len(heap') = Len(heap), ptr' = ptr,
         \A a \in 1..Len(heap) :
           /\ Len(heap'[a]) = Len(heap[a])
           /\ \A k \in 1..Len(heap[a]) :
                heap'[a][k] = IF a = ptr /\ k = m + 1 THEN work[p][1] ELSE heap[a][k],
         len' = m + 1,
         seen' = seen, applied' = applied, switched' = switched, emptied' = emptied
  PROVE  Settled(m + 1)'
<1> DEFINE b == work[p][1]
<1>1. /\ \A q \in Process \ {p} : ~ Writing(q) /\ ~ Appending(q) /\ at[q] # "store"
      /\ Onward(p, m) /\ Chained(m) /\ Appending(p) /\ Writing(p)
      /\ reg[p].ptr = ptr /\ reg[p].len = m /\ m < Len(Array)
      /\ Len(Array) \in Nat /\ ptr \in 1..Len(heap)
      /\ work[p] \in Seq(Block) /\ Len(work[p]) \in Nat \ {0}
      /\ b \in Block \ {Genesis, Nil} /\ (m > 0 => PrevHash[b] = Array[m])
      /\ ~ emptied => m > 0 /\ Height[b] = m
      /\ \A k : Filled(k) => k = m + 1
      /\ \A k : Pending(k) => k = m + 1
  BY StoreFacts
<1>2. /\ Others(p)
      /\ \/ Len(work[p]) = 1 /\ at'[p] = "idle"
         \/ /\ Len(work[p]) # 1 /\ at'[p] = "append"
            /\ work'[p] = Tail(work[p]) /\ reg'[p].left = Loads
  BY <1>1, StoredThere
<1>3. /\ Len(Array') = Len(Array)
      /\ \A k \in 1..Len(Array) : Array'[k] = IF k = m + 1 THEN b ELSE Array[k]
  BY <1>1 DEF Array
<1>4. \A q \in Process \ {p} : at'[q] = at[q] /\ reg'[q] = reg[q] /\ ~ Writing(q)'
                               /\ ~ Appending(q)' /\ at'[q] # "store"
  BY <1>1, <1>2 DEF Others, Writing, Appending
<1>5. \A k : ~ Filled(k)' /\ ~ Pending(k)'
  BY <1>2, <1>4 DEF Filled, Pending
<1> HIDE DEF b
<1>6. m + 1 \in 1..Len(Array) /\ Array'[m + 1] = b
  BY <1>1, <1>3
<1>7. \A k \in 1..m : k \in 1..Len(Array) /\ Array'[k] = Array[k]
  BY <1>1, <1>3
<1>8. Chained(m + 1)'
  <2>1. (~ emptied' => Array'[1] = Genesis) /\ \A k \in 1..m : Array'[k] # Nil
    <3>1. /\ ~ emptied => 1 \in 1..m /\ Array[1] = Genesis
          /\ \A k \in 1..m : Array[k] # Nil
      BY <1>1 DEF Chained
    <3>2. \A k \in 1..m : Array'[k] = Array[k]
      BY <1>7
    <3> QED
      BY <3>1, <3>2, Zenon
  <2>2. \A k \in 2..m : Array'[k] # Genesis /\ PrevHash[Array'[k]] = Array'[k-1]
    <3>1. \A k \in 2..m : k \in 1..m /\ k - 1 \in 1..m
      BY <1>1
    <3> QED
      BY <1>1, <1>7, <3>1 DEF Chained
  <2>3. /\ Array'[m + 1] # Nil /\ Array'[m + 1] # Genesis
        /\ m > 0 => PrevHash[Array'[m + 1]] = Array'[m]
    BY <1>1, <1>6, <1>7
  <2>4. \A k \in 1..m + 1 : k \in 1..m \/ k = m + 1
    BY <1>1
  <2>5. \A k \in 2..m + 1 : k \in 2..m \/ (k = m + 1 /\ k - 1 = m /\ m > 0)
    BY <1>1
  <2>6. m + 1 \in 1..Len(Array') /\ Len(Array') > 0 /\ m + 1 > 0
    BY <1>3, <1>6
  <2> QED
    BY <2>1, <2>2, <2>3, <2>4, <2>5, <2>6 DEF Chained
<1>9. ~ emptied' => AtHeight'
  <2> SUFFICES ASSUME ~ emptied' PROVE AtHeight'
    OBVIOUS
  <2>1. AtHeight
    BY DEF Settled
  <2>2. ASSUME NEW a \in 1..Len(heap'), NEW k \in 1..Len(heap'[a]), heap'[a][k] # Nil
        PROVE  Height[heap'[a][k]] = k - 1
    <3>1. CASE a = ptr /\ k = m + 1
      BY <1>1, <3>1 DEF b
    <3>2. CASE ~ (a = ptr /\ k = m + 1)
      <4>1. a \in 1..Len(heap) /\ k \in 1..Len(heap[a]) /\ heap'[a][k] = heap[a][k]
        BY <3>2
      <4>2. Height[heap[a][k]] = k - 1
        BY <2>1, <2>2, <4>1, HeightThere
      <4> QED
        BY <4>1, <4>2
    <3> QED
      BY <3>1, <3>2
  <2> QED
    BY <2>1, <2>2 DEF AtHeight
<1>10. Writing(p)' => Onward(p, m + 1)'
  <2> SUFFICES ASSUME Writing(p)'
               PROVE  Onward(p, m + 1)'
    OBVIOUS
  <2> DEFINE w == work[p]
             u == work'[p]
  <2>1. at'[p] = "append" /\ u = Tail(w) /\ reg'[p].left = Loads /\ Len(w) # 1
    BY <1>2 DEF Writing
  <2>2. w \in Seq(Block) /\ Len(w) \in Nat \ {0, 1}
    BY <1>1, <2>1
  <2>3. Len(u) = Len(w) - 1 /\ \A i \in 1..Len(u) : u[i] = w[i + 1] /\ i + 1 \in 1..Len(w)
    BY <2>1, <2>2
  <2>4. Sound(w) /\ (~ emptied => \A i \in 1..Len(w) : OneUp(w[i]))
    BY <1>1 DEF Onward, Appending
  <2> HIDE DEF w, u
  <2>5. \A i \in 1..Len(u) : (~ emptied => OneUp(u[i])) /\ u[i] # Genesis
    <3>1. \A i \in 1..Len(w) : (~ emptied => OneUp(w[i])) /\ w[i] # Genesis
      BY <2>4 DEF Sound
    <3> QED
      BY <2>3, <3>1
  <2>6. ASSUME NEW i \in 1..Len(u), i > 1
        PROVE  PrevHash[u[i]] = u[i-1]
    <3>1. i - 1 \in 1..Len(u) /\ i + 1 \in 1..Len(w) /\ i + 1 > 1 /\ (i + 1) - 1 = i
      BY <2>2, <2>3, <2>6
    <3>2. u[i-1] = w[i] /\ u[i] = w[i + 1]
      BY <2>3, <3>1
    <3> QED
      BY <2>4, <3>1, <3>2 DEF Sound
  <2>7. PrevHash[u[1]] = w[1]
    <3>1. 1 \in 1..Len(u) /\ 2 \in 1..Len(w) /\ u[1] = w[2]
      BY <2>2, <2>3
    <3>2. PrevHash[w[2]] = w[2 - 1]
      BY <2>4, <3>1 DEF Sound
    <3> QED
      BY <3>1, <3>2
  <2>8. PrevHash[u[1]] = Array'[m + 1]
    BY <1>6, <2>7 DEF b, w
  <2>9. Sound(u)
    BY <2>5, <2>6 DEF Sound
  <2> QED
    BY <2>1, <2>5, <2>8, <2>9 DEF Onward, Fresh, Loads, u
<1>11. \A i \in 1..m + 1 : i \in 1..Len(Array') /\ Array'[i] # Nil
  BY <1>8 DEF Chained
<1>12. Covered(len)'
  BY <1>1, <1>3, <1>6, <1>11 DEF Covered
<1>13. ASSUME NEW q \in Process, Looking(q)'
       PROVE  Covered(reg[q].len)'
  <2>1. q # p
    BY <1>2, <1>13 DEF Looking
  <2>2. reg'[q] = reg[q] /\ Covered(reg[q].len) /\ reg[q].len \in Nat
    BY <1>4, <1>13, <2>1, TypeFacts DEF Settled, Looking
  <2>3. reg[q].len <= Len(Array) /\ \A i \in 1..reg[q].len : Array[i] # Nil \/ i = m + 1
    BY <1>1, <2>2 DEF Covered
  <2>4. \A i \in 1..reg[q].len : i \in 1..Len(Array)
    BY <1>1, <2>2, <2>3
  <2>5. b # Nil
    BY <1>1
  <2>6. \A i \in 1..reg[q].len : Array'[i] # Nil
    BY <1>3, <2>3, <2>4, <2>5
  <2> QED
    BY <1>3, <2>2, <2>3, <2>6 DEF Covered
<1>14. ASSUME ~ switched'
       PROVE  Unswitched(m + 1)'
  <2>1. Unswitched(m)
    BY <1>14 DEF Settled
  <2>2. at'[p] = "idle"
    BY <1>1, <1>2, <2>1 DEF Unswitched, Appending
  <2>3. Listed(m + 1)' = Listed(m) \cup {b}
    <3>1. Listed(m + 1)' = {Array'[k] : k \in 1..m + 1}
      BY DEF Listed
    <3>2. 1..m + 1 = (1..m) \cup {m + 1}
      BY <1>1
    <3>3. \A x : x \in {Array'[k] : k \in 1..m + 1} <=>
                 x \in {Array'[k] : k \in 1..m} \cup {Array'[m + 1]}
      BY <3>2
    <3>4. {Array'[k] : k \in 1..m} = Listed(m)
      BY <1>7 DEF Listed
    <3> QED
      BY <1>6, <3>1, <3>3, <3>4
  <2>4. ~ emptied'
    BY <2>1 DEF Unswitched
  <2>5. \A q \in Process : at'[q] \notin {"pop", "confirm"} /\ ~ Appending(q)'
    BY <1>4, <2>1, <2>2 DEF Unswitched, Appending
  <2>6. applied' \cup {Genesis} = Listed(m + 1)'
    BY <1>1, <2>1, <2>3 DEF Unswitched, b
  <2>7. \A k \in 1..Len(Array) : k > m /\ k # m + 1 => Array[k] = Nil
    BY <1>1, <2>1 DEF Unswitched
  <2>8. \A k \in 1..Len(Array') : k > m + 1 => Array'[k] = Nil
    BY <1>1, <1>3, <2>7
  <2>9. \A k \in 1..Len(Array) : Array[k] # Nil => Array'[k] = Array[k]
    <3>1. Array[m + 1] \in {Nil, b}
      <4>1. CASE s = "element"
        <5>1. ~ Filled(m + 1)
          BY <4>1, StoreFacts
        <5>2. m + 1 > m /\ m + 1 \in 1..Len(Array)
          BY <1>1, <1>3, <1>6
        <5> QED
          BY <2>1, <5>1, <5>2 DEF Unswitched
      <4>2. CASE s = "len"
        BY <1>1, <4>2 DEF Onward, b
      <4> QED
        BY <4>1, <4>2 DEF Stores
    <3> QED
      BY <1>3, <3>1
  <2>10. ASSUME NEW a \in 1..Len(heap'), NEW k \in 1..Len(heap'[a]), heap'[a][k] # Nil
         PROVE  k \in 1..Len(Array') /\ Array'[k] = heap'[a][k]
    <3>1. CASE a = ptr
      BY <3>1 DEF Array
    <3>2. CASE a # ptr
      BY <1>3, <2>1, <2>9, <2>10, <3>2 DEF Unswitched
    <3> QED
      BY <3>1, <3>2
  <2>11. \A q \in Process : \A k \in 1..Len(seen'[q]) :
           k \in 1..Len(Array') /\ Array'[k] = seen'[q][k]
    <3> SUFFICES ASSUME NEW q \in Process, NEW k \in 1..Len(seen[q])
                 PROVE  k \in 1..Len(Array) /\ Array'[k] = seen[q][k]
      BY <1>3
    <3>1. seen[q] \in Seq(Block) /\ seen[q][k] # Nil
      BY ChainAssumption DEF TypeOK
    <3> QED
      BY <2>1, <2>9, <3>1 DEF Unswitched
  <2> QED
    BY <2>4, <2>5, <2>6, <2>8, <2>10, <2>11 DEF Unswitched
<1>15. /\ \A q, r \in Process : Writing(q)' /\ Writing(r)' => q = r
       /\ ~ Storing' /\ \A q \in Process : Writing(q)' => q = p
  BY <1>2, <1>4 DEF Storing
<1> QED
  BY <1>8, <1>9, <1>10, <1>12, <1>13, <1>14, <1>15 DEF Settled

(* The move to a larger array.                                             *)
LEMMA GrowStep ==
  ASSUME TypeOK, NEW m \in Nat, Settled(m), NEW p \in Process, Grow(p)
  PROVE  Settled(m)'
<1>1. /\ at[p] = "append" /\ reg[p].left = {} /\ at' = [at EXCEPT ![p] = "store"]
      /\ UNCHANGED <<len, work, seen, applied, switched, emptied>>
  BY DEF Grow, Loaded, history
<1>2. Writing(p) /\ Onward(p, m) /\ Chained(m) /\ Appending(p)
  BY <1>1 DEF Writing, Settled, Appending
<1>3. /\ \A q \in Process \ {p} : at'[q] = at[q] /\ ~ Writing(q) /\ ~ Writing(q)'
                                  /\ ~ Appending(q) /\ ~ Appending(q)' /\ at[q] # "store"
      /\ at'[p] = "store" /\ Appending(p)'
  BY <1>1, <1>2 DEF Settled, TypeOK, Writing, Appending
<1>4. /\ reg[p].ptr = ptr /\ reg[p].len = m /\ ~ Storing /\ len = m
  BY <1>1, <1>2, <1>3 DEF Onward, Fresh, Settled, Storing
<1>5. /\ Len(heap) \in Nat /\ ptr \in 1..Len(heap) /\ Len(Array) \in Nat \ {0} /\ m \in 0..Len(Array)
  BY <1>2, TypeFacts DEF Array, Chained, TypeOK
<1>6. /\ Len(heap') = Len(heap) + 1 /\ ptr' = Len(heap) + 1
      /\ \A a \in 1..Len(heap) : heap'[a] = heap[a]
      /\ Len(Array') = 2 * Len(Array) /\ m = Len(Array)
      /\ \A k \in 1..Len(Array') : Array'[k] = IF k <= m THEN Array[k] ELSE Nil
  BY <1>4, GrowHeap DEF Array
<1>7. /\ \A q \in Process \ {p} : reg'[q] = reg[q]
      /\ reg'[p].ptr = ptr' /\ reg'[p].len = m /\ reg'[p].left = Stores
  BY <1>4, GrowReg
<1>8. \A k : ~ Filled(k)' /\ ~ Pending(k)' /\ ~ Filled(k) /\ ~ Pending(k)
  <2>1. "len" \in Stores /\ "element" \in Stores /\ Stores # {"element"}
    BY DEF Stores
  <2> QED
    BY <1>1, <1>3, <1>7, <2>1 DEF Filled, Pending
<1>9. /\ \A k \in 1..m : k \in 1..Len(Array) /\ k \in 1..Len(Array') /\ Array'[k] = Array[k]
      /\ m < Len(Array')
  BY <1>5, <1>6
<1>10. Chained(m)'
  <2>1. \A k \in 2..m : k \in 1..m /\ k - 1 \in 1..m
    BY <1>5
  <2>2. m \in 0..Len(Array') /\ Len(Array') > 0 /\ (m > 0 => 1 \in 1..m)
    BY <1>5, <1>6, <1>9
  <2> QED
    BY <1>1, <1>2, <1>9, <2>1, <2>2 DEF Chained
<1>11. ~ emptied' => AtHeight'
  <2> SUFFICES ASSUME ~ emptied' PROVE AtHeight'
    OBVIOUS
  <2>1. AtHeight
    BY <1>1 DEF Settled
  <2>2. ASSUME NEW a \in 1..Len(heap'), NEW k \in 1..Len(heap'[a]), heap'[a][k] # Nil
        PROVE  Height[heap'[a][k]] = k - 1
    <3>1. CASE a \in 1..Len(heap)
      <4>1. heap'[a] = heap[a]
        BY <1>6, <3>1
      <4> QED
        BY <2>1, <2>2, <3>1, <4>1 DEF AtHeight
    <3>2. CASE a = ptr'
      <4>1. heap'[a][k] = Array'[k] /\ k \in 1..Len(Array')
        BY <3>2 DEF Array
      <4>2. k <= m /\ Array'[k] = Array[k]
        BY <1>6, <2>2, <4>1
      <4> QED
        <5>1. heap[ptr][k] = heap'[a][k] /\ k \in 1..Len(heap[ptr])
          BY <1>5, <1>6, <4>1, <4>2 DEF Array
        <5>2. Height[heap[ptr][k]] = k - 1
          BY <1>5, <2>1, <2>2, <5>1, HeightThere
        <5> QED
          BY <5>1, <5>2
    <3>3. a \in 1..Len(heap) \/ a = ptr'
      <4>1. /\ Len(heap') = Len(heap) + 1 /\ ptr' = Len(heap) + 1
            /\ Len(heap) \in Nat /\ a \in 1..Len(heap')
        BY <1>5, <1>6
      <4> QED
        BY ONLY <4>1
    <3> QED
      BY <3>1, <3>2, <3>3
  <2> QED
    BY <1>1, <2>1, <2>2 DEF AtHeight
<1>12. Onward(p, m)'
  <2>1. /\ Sound(work'[p]) /\ (~ emptied' => \A i \in 1..Len(work'[p]) : OneUp(work'[p][i]))
        /\ m > 0 => PrevHash[work'[p][1]] = Array'[m]
    BY <1>1, <1>2, <1>5, <1>9 DEF Onward
  <2>2. len' = m /\ "len" \in Stores /\ "element" \in Stores
    BY <1>1, <1>4 DEF Stores
  <2> QED
    BY <1>3, <1>7, <1>9, <2>1, <2>2 DEF Onward
<1>13. Covered(len)'
  BY <1>1, <1>2, <1>4, <1>9 DEF Covered, Chained
<1>14. ASSUME NEW q \in Process, Looking(q)'
       PROVE  Covered(reg[q].len)'
  <2>1. q # p
    BY <1>3, <1>14 DEF Looking
  <2>2. reg'[q] = reg[q] /\ Covered(reg[q].len) /\ reg[q].len \in Nat
    BY <1>3, <1>7, <1>14, <2>1, TypeFacts DEF Settled, Looking
  <2>3. reg[q].len <= m /\ \A i \in 1..reg[q].len : i \in 1..m
    BY <1>6, <2>2 DEF Covered
  <2> QED
    <3>1. \A i \in 1..m : Array'[i] # Nil
      BY <1>2, <1>9 DEF Chained
    <3>2. reg[q].len <= Len(Array')
      BY <1>5, <1>9, <2>2, <2>3
    <3> QED
      BY <2>2, <2>3, <3>1, <3>2 DEF Covered
<1>15. ASSUME ~ switched'
       PROVE  Unswitched(m)'
  <2>1. Unswitched(m)
    BY <1>1, <1>15 DEF Settled
  <2>2. Listed(m)' = Listed(m)
    BY <1>9 DEF Listed
  <2>3. \A q \in Process : at'[q] = at[q] \/ q = p
    BY <1>3
  <2>4. /\ ~ emptied'
        /\ \A q \in Process : Appending(q)' => Len(work'[q]) = 1
        /\ \A q \in Process : at'[q] \notin {"pop", "confirm"}
        /\ \A q \in Process : Appending(q)' => applied' \cup {Genesis} = Listed(m)' \cup {work'[q][1]}
        /\ (\A q \in Process : ~ Appending(q)') => applied' \cup {Genesis} = Listed(m)'
    BY <1>1, <1>2, <1>3, <2>1, <2>2, <2>3 DEF Unswitched
  <2>6. \A k \in 1..Len(Array') : k > m /\ ~ Filled(k)' => Array'[k] = Nil
    BY <1>5, <1>6
  <2>7. \A k \in 1..Len(Array) : k \in 1..Len(Array') /\ Array'[k] = Array[k]
    BY <1>6, <1>9
  <2>8. ASSUME NEW a \in 1..Len(heap'), NEW k \in 1..Len(heap'[a]), heap'[a][k] # Nil
        PROVE  k \in 1..Len(Array') /\ Array'[k] = heap'[a][k]
    <3>1. CASE a = ptr'
      BY <3>1 DEF Array
    <3>2. CASE a \in 1..Len(heap)
      BY <1>6, <2>1, <2>7, <2>8, <3>2 DEF Unswitched
    <3> QED
      BY <1>5, <1>6, <3>1, <3>2
  <2>9. \A q \in Process : \A k \in 1..Len(seen'[q]) :
          k \in 1..Len(Array') /\ Array'[k] = seen'[q][k]
    BY <1>1, <2>1, <2>7 DEF Unswitched
  <2> QED
    BY <2>4, <2>6, <2>8, <2>9 DEF Unswitched
<1>16. /\ \A q, r \in Process : Writing(q)' /\ Writing(r)' => q = r
       /\ Storing' /\ \A q \in Process : Writing(q)' => q = p
  BY <1>3 DEF Storing
<1> QED
  BY <1>10, <1>11, <1>12, <1>13, <1>14, <1>15, <1>16 DEF Settled

(* A rollback takes the last block; the last there is only on its way to   *)
(* an ancestor that is gone.                                               *)
LEMMA PopStep ==
  ASSUME TypeOK, NEW m \in Nat, Settled(m), NEW p \in Process, Pop(p)
  PROVE  m - 1 \in Nat /\ Settled(m - 1)'
<1>1. /\ at[p] = "pop" /\ reg[p].left = {}
      /\ reg[p].len # 0 /\ len' = reg[p].len - 1 /\ Goes(p, "pop")
      /\ emptied' = (emptied \/ len' = 0)
      /\ UNCHANGED <<ptr, heap, work, seen, applied, switched>>
  BY DEF Pop, Loaded, NotFound, history
<1>2. Writing(p) /\ Onward(p, m) /\ Chained(m)
  BY <1>1 DEF Writing, Settled
<1>3. /\ reg[p].ptr = ptr /\ reg[p].len = m /\ Array' = Array
      /\ Len(Array) \in Nat \ {0} /\ m \in 0..Len(Array)
  BY <1>1, <1>2, TypeFacts DEF Onward, Fresh, Array, Chained, TypeOK
<1>4. m - 1 \in 0..Len(Array) /\ m - 1 \in Nat /\ len' = m - 1
  BY <1>1, <1>3
<1>5. ~ emptied' => ~ emptied /\ m - 1 > 0
  <2>1. ~ emptied' => ~ emptied /\ len' # 0
    BY <1>1, Zenon
  <2>2. len' # 0 => m - 1 > 0
    BY <1>4
  <2> QED
    BY <2>1, <2>2
<1>6. /\ at'[p] = "pop" /\ reg'[p].left = Loads
      /\ \A q \in Process \ {p} : at'[q] = at[q] /\ reg'[q] = reg[q]
  BY <1>1, GoesThere DEF Loading
<1>7. \A q \in Process : (Writing(q)' <=> Writing(q)) /\ at'[q] # "store" /\ at[q] # "store"
  BY <1>1, <1>2, <1>6 DEF Writing, Settled
<1>8. \A i : ~ Pending(i) /\ ~ Pending(i)'
  BY <1>7 DEF Pending
<1>9. Chained(m - 1)'
  BY <1>2, <1>3, <1>4, <1>5 DEF Chained
<1>10. Onward(p, m - 1)'
  BY <1>1, <1>2, <1>5, <1>6 DEF Onward, Fresh, Loads
<1>11. Covered(len)'
  BY <1>3, <1>4, <1>9 DEF Covered, Chained
<1>12. ASSUME NEW q \in Process, Looking(q)'
       PROVE  Covered(reg[q].len)'
  <2>1. q # p
    BY <1>6, <1>12 DEF Looking
  <2>2. reg'[q] = reg[q] /\ Covered(reg[q].len)
    BY <1>6, <1>12, <2>1 DEF Settled, Looking
  <2> QED
    BY <1>3, <1>8, <2>2 DEF Covered
<1>13. ~ emptied' => AtHeight'
  BY <1>1, <1>5 DEF Settled, AtHeight
<1>14. switched
  BY <1>1 DEF Settled, Unswitched
<1>15. /\ \A q, r \in Process : Writing(q)' /\ Writing(r)' => q = r
       /\ \A q \in Process : Writing(q)' => q = p
       /\ ~ Storing'
  BY <1>1, <1>2, <1>7 DEF Settled, Storing
<1> QED
  BY <1>1, <1>4, <1>9, <1>10, <1>11, <1>12, <1>13, <1>14, <1>15 DEF Settled

(* A loop reads a block at its height.                                     *)
LEMMA ReadStep ==
  ASSUME TypeOK, NEW m \in Nat, Settled(m), NEW p \in Process, ReadNext(p)
  PROVE  Settled(m)'
<1> DEFINE j == Len(seen[p]) + 1
           b == heap[reg[p].ptr][j]
<1>1. /\ UNCHANGED <<heap, ptr, len, at, reg, work, applied, switched, emptied>>
      /\ seen' = [seen EXCEPT ![p] = Append(@, b)]
      /\ ~ Missing(p, j)
  BY DEF ReadNext, Element, list, history
<1>2. /\ seen[p] \in Seq(Block) /\ reg[p].ptr \in 1..Len(heap)
      /\ heap[reg[p].ptr] \in Seq(Block \cup {Nil}) /\ Len(heap[reg[p].ptr]) \in Nat
  BY TypeFacts DEF TypeOK
<1>3. j \in 1..Len(heap[reg[p].ptr]) /\ b # Nil /\ b \in Block
  BY <1>1, <1>2 DEF Missing, Beyond, Element
<1>4. seen'[p] = Append(seen[p], b) /\ \A q \in Process \ {p} : seen'[q] = seen[q]
  BY <1>1 DEF TypeOK
<1>5. /\ Len(seen'[p]) = j /\ seen'[p][j] = b
      /\ \A k \in 1..Len(seen'[p]) : k = j \/ (k \in 1..Len(seen[p]) /\ seen'[p][k] = seen[p][k])
  <2> HIDE DEF b
  <2> QED
    BY <1>2, <1>3, <1>4, AppendFacts
<1>6. ~ emptied => Height[b] = j - 1
  BY <1>2, <1>3 DEF Settled, AtHeight
<1>7. ~ switched => j \in 1..Len(Array) /\ Array[j] = b
  BY <1>2, <1>3 DEF Settled, Unswitched
<1> HIDE DEF b, j
<1>8. ~ emptied' => AtHeight'
  <2> SUFFICES ASSUME ~ emptied, ~ emptied' PROVE AtHeight'
    BY <1>1
  <2>1. ASSUME NEW q \in Process, NEW k \in 1..Len(seen'[q])
        PROVE  Height[seen'[q][k]] = k - 1
    <3>1. \A i \in 1..Len(seen[q]) : Height[seen[q][i]] = i - 1
      BY DEF Settled, AtHeight
    <3>2. CASE q # p
      <4>1. seen'[q] = seen[q]
        BY <1>4, <3>2
      <4> QED
        BY <3>1, <4>1
    <3>3. CASE q = p
      <4>1. k = j \/ (k \in 1..Len(seen[p]) /\ seen'[p][k] = seen[p][k])
        BY <1>5, <3>3
      <4> QED
        BY <1>5, <1>6, <3>1, <3>3, <4>1
    <3> QED
      BY <3>2, <3>3
  <2> QED
    BY <1>1, <2>1 DEF Settled, AtHeight
<1>9. Array' = Array
  BY <1>1 DEF Array
<1>10. \A k : (Pending(k)' <=> Pending(k)) /\ (Filled(k)' <=> Filled(k))
  BY <1>1 DEF Pending, Filled
<1>11. ASSUME ~ switched'
       PROVE  Unswitched(m)'
  <2>1. ~ switched /\ Unswitched(m)
    BY <1>1, <1>11 DEF Settled
  <2>2. ASSUME NEW q \in Process, NEW k \in 1..Len(seen'[q])
        PROVE  k \in 1..Len(Array) /\ Array[k] = seen'[q][k]
    <3>1. \A i \in 1..Len(seen[q]) : i \in 1..Len(Array) /\ Array[i] = seen[q][i]
      BY <2>1 DEF Unswitched
    <3>2. CASE q # p
      <4>1. seen'[q] = seen[q]
        BY <1>4, <3>2
      <4> QED
        BY <3>1, <4>1
    <3>3. CASE q = p
      <4>1. k = j \/ (k \in 1..Len(seen[p]) /\ seen'[p][k] = seen[p][k])
        BY <1>5, <3>3
      <4> QED
        BY <1>5, <1>7, <2>1, <3>1, <3>3, <4>1
    <3> QED
      BY <3>2, <3>3
  <2>3. Listed(m)' = Listed(m) /\ \A q \in Process : Appending(q)' <=> Appending(q)
    BY <1>1, <1>9 DEF Listed, Appending
  <2>4. \A q \in Process : \A k \in 1..Len(seen'[q]) :
          k \in 1..Len(Array') /\ Array'[k] = seen'[q][k]
    BY <1>9, <2>2
  <2> QED
    BY <1>1, <1>9, <1>10, <2>1, <2>3, <2>4 DEF Unswitched
<1>12. Chained(m)' /\ Covered(len)'
  BY <1>1, <1>9, <1>10 DEF Settled, Chained, Covered
<1>13. \A q \in Process : Looking(q)' => Covered(reg[q].len)'
  BY <1>1, <1>9, <1>10 DEF Settled, Covered, Looking
<1>14. /\ \A q, r \in Process : Writing(q)' /\ Writing(r)' => q = r
       /\ ~ Storing' => len' = m
       /\ \A q \in Process : Writing(q)' => Onward(q, m)'
  BY <1>1, <1>9 DEF Settled, Writing, Storing, Onward, Fresh
<1> QED
  BY <1>8, <1>11, <1>12, <1>13, <1>14 DEF Settled

LEMMA StillStep ==
  ASSUME NEW m \in Nat, Settled(m),
         UNCHANGED <<ptr, len, heap, at, reg, work, seen, applied, switched, emptied>>
  PROVE  Settled(m)'
<1>1. Array' = Array /\ Listed(m)' = Listed(m)
  BY DEF Array, Listed
<1>2. \A k : (Pending(k)' <=> Pending(k)) /\ (Filled(k)' <=> Filled(k)) /\ (Covered(k)' <=> Covered(k))
  BY <1>1 DEF Pending, Filled, Covered
<1>3. /\ Chained(m)' /\ (~ emptied' => AtHeight') /\ (Storing' <=> Storing)
      /\ \A p \in Process : (Writing(p)' <=> Writing(p)) /\ (Onward(p, m)' <=> Onward(p, m))
  BY <1>1 DEF Settled, Chained, AtHeight, Storing, Writing, Onward, Fresh
<1>4. /\ Covered(len)'
      /\ \A p \in Process : (Covered(reg[p].len)' <=> Covered(reg[p].len)) /\ (Looking(p)' <=> Looking(p))
  BY <1>1, <1>2 DEF Settled, Covered, Looking
<1>5. ~ switched' => Unswitched(m)'
  BY <1>1, <1>2 DEF Settled, Unswitched, Appending
<1> QED
  BY <1>3, <1>4, <1>5 DEF Settled

(* The steps that leave the list alone, one by one.                        *)
LEMMA LoadStep ==
  ASSUME TypeOK, NEW m \in Nat, Settled(m), NEW p \in Process, Load(p)
  PROVE  Settled(m)'
<1>1. /\ UNCHANGED <<ptr, len, heap, at, work, seen, applied, switched, emptied>>
      /\ at[p] \in Loading
  BY DEF Load, list, history
<1>2. /\ Others(p)
      /\ \/ /\ reg'[p].ptr = ptr /\ reg'[p].len = reg[p].len
            /\ reg'[p].left = reg[p].left \ {"ptr"}
         \/ /\ reg'[p].ptr = reg[p].ptr /\ reg'[p].len = len
            /\ reg'[p].left = reg[p].left \ {"len"}
  BY <1>1, LoadReg DEF Others
<1>3. Writing(p)' => \A q \in Process \ {p} : ~ Writing(q)
  BY <1>1 DEF Settled, Writing
<1>4. ASSUME Writing(p)'
      PROVE  Onward(p, m)'
  <2>1. Writing(p) /\ Onward(p, m) /\ at[p] # "store"
    BY <1>1, <1>4 DEF Settled, Writing, Loading
  <2>2. len = m
    BY <1>1, <1>3, <1>4, <2>1 DEF Settled, Storing, Writing
  <2>3. Fresh(p, m)
    BY <1>1, <2>1 DEF Onward, Loading, Writing
  <2>4. Fresh(p, m)'
    BY <1>1, <1>2, <2>2, <2>3 DEF Fresh
  <2> QED
    BY <1>1, <2>1, <2>4 DEF Onward, Array
<1>5. ASSUME Looking(p)'
      PROVE  Covered(reg'[p].len)
  BY <1>1, <1>2, <1>5 DEF Settled, Looking
<1>6. ~ switched' =>
        /\ ~ switched /\ at'[p] \notin {"pop", "confirm"}
        /\ Appending(p)' => Len(work'[p]) = 1
  BY <1>1 DEF Settled, Unswitched, Appending
<1>7. /\ Appending(p)' <=> Appending(p)
      /\ at[p] # "store" /\ at'[p] # "store"
  BY <1>1 DEF Appending, Loading
<1> QED
  BY <1>1, <1>2, <1>3, <1>4, <1>5, <1>6, <1>7, QuietStep

LEMMA FillStep ==
  ASSUME TypeOK, NEW m \in Nat, Settled(m), NEW p \in Process, Fill(p)
  PROVE  Settled(m)'
<1>1. /\ UNCHANGED <<ptr, len, heap, work, seen, applied, switched, emptied>>
      /\ at[p] = "append" /\ reg[p].left = {} /\ Room(p)
      /\ at' = [at EXCEPT ![p] = "store"]
  BY DEF Fill, Loaded, list, history
<1>2. /\ Others(p) /\ at'[p] = "store"
      /\ reg'[p].ptr = reg[p].ptr /\ reg'[p].len = reg[p].len /\ reg'[p].left = Stores
  BY <1>1, FillReg DEF Others, TypeOK
<1>3. Writing(p) /\ Onward(p, m) /\ \A q \in Process \ {p} : ~ Writing(q)
  BY <1>1 DEF Settled, Writing
<1>4. reg[p].ptr = ptr /\ reg[p].len = m
  BY <1>1, <1>3 DEF Onward, Fresh
<1>5. m < Len(Array) /\ Array' = Array
  BY <1>1, <1>4 DEF Room, Array
<1>6. len = m
  BY <1>1, <1>3 DEF Settled, Storing, Writing
<1>7. "len" \in Stores /\ "element" \in Stores
  BY DEF Stores
<1>8. Onward(p, m)'
  BY <1>1, <1>2, <1>3, <1>4, <1>5, <1>6, <1>7 DEF Onward
<1>9. Appending(p) /\ Appending(p)' /\ ~ Looking(p)'
  BY <1>1, <1>2 DEF Appending, Looking
<1>10. ~ switched' => ~ switched /\ Len(work'[p]) = 1
  BY <1>1, <1>9 DEF Settled, Unswitched
<1> QED
  BY <1>1, <1>2, <1>3, <1>8, <1>9, <1>10, QuietStep

(* A caller that gives up before it has stored anything.                   *)
LEMMA GoneStep ==
  ASSUME TypeOK, NEW m \in Nat, Settled(m), NEW p \in Process, Abandons(p),
         at[p] \in {"look", "check", "utxo", "spend", "confirm"},
         UNCHANGED <<ptr, len, heap, seen, applied, switched, emptied>>
  PROVE  Settled(m)'
<1>1. Others(p) /\ at'[p] = "idle"
  BY ReturnsThere DEF Abandons, Others, TypeOK
<1>2. ~ Writing(p)' /\ ~ Appending(p)' /\ ~ Appending(p) /\ ~ Looking(p)'
  BY <1>1 DEF Writing, Appending, Looking
<1> QED
  BY <1>1, <1>2, QuietStep

(* From the look of a caller to its call.                                  *)
LEMMA CallStep ==
  ASSUME TypeOK, NEW m \in Nat, Settled(m), NEW p \in Process, ~ overlap',
         \/ Look(p) \/ AddBlock(p) \/ (\E b \in Block : StartAdd(p, b))
         \/ \E fork \in Branch : HandleFork(p, fork)
  PROVE  Settled(m)'
<1>1. CASE Look(p)
  <2>1. UNCHANGED <<ptr, len, heap, seen, applied, switched, emptied>> /\ at[p] = "look"
    BY <1>1 DEF Look, Loaded, list, history
  <2>2. CASE Goes(p, "passed") /\ UNCHANGED work
    <3>1. Others(p) /\ at'[p] = "passed"
      BY <2>2, GoesThere DEF Others
    <3>2. ~ Writing(p)' /\ ~ Appending(p)' /\ ~ Appending(p) /\ ~ Looking(p)'
      BY <2>1, <3>1 DEF Writing, Appending, Looking
    <3> QED
      BY <2>1, <3>1, <3>2, QuietStep
  <2>3. CASE Abandons(p)
    BY <2>1, <2>3, GoneStep
  <2> QED
    BY <1>1, <2>2, <2>3 DEF Look
<1>2. CASE AddBlock(p)
  <2>1. /\ UNCHANGED <<ptr, len, heap, work, seen, applied, switched, emptied>>
        /\ at[p] = "passed" /\ Goes(p, "check")
    BY <1>2 DEF AddBlock, Calls, list
  <2>2. \A q \in Process \ {p} : ~ Writing(q)
    BY <1>2, Zenon DEF AddBlock, Calls
  <2>3. Others(p) /\ at'[p] = "check" /\ reg'[p].left = Loads
    BY <2>1, GoesThere DEF Others, Loading
  <2>4. Len(work[p]) = 1 /\ work[p][1] # Genesis
    BY <2>1 DEF TypeOK, WorkOK, Adding
  <2>5. Onward(p, m)'
    BY <2>1, <2>3, <2>4 DEF Onward, Sound, Fresh, Loads
  <2>6. ~ Appending(p)' /\ ~ Appending(p) /\ ~ Looking(p)'
    BY <2>1, <2>3 DEF Appending, Looking
  <2> QED
    BY <2>1, <2>2, <2>3, <2>5, <2>6, QuietStep
<1>3. ASSUME NEW b \in Block, StartAdd(p, b)
      PROVE  Settled(m)'
  <2>1. /\ UNCHANGED <<ptr, len, heap, seen, applied, switched, emptied>>
        /\ at[p] = "idle" /\ Goes(p, "look")
        /\ work' = [work EXCEPT ![p] = <<b>>]
    BY <1>3 DEF StartAdd, Starts, list, history
  <2>2. Others(p) /\ at'[p] = "look" /\ reg'[p].left = Loads
    BY <2>1, GoesThere DEF Others, TypeOK, Loading
  <2>3. ~ Writing(p)' /\ ~ Appending(p)' /\ ~ Appending(p) /\ ~ Looking(p)'
    BY <2>1, <2>2 DEF Writing, Appending, Looking, Loads
  <2> QED
    BY <2>1, <2>2, <2>3, QuietStep
<1>4. ASSUME NEW fork \in Branch, HandleFork(p, fork)
      PROVE  Settled(m)'
  <2>1. /\ UNCHANGED <<ptr, len, heap, seen, applied, switched, emptied>>
        /\ at[p] = "idle" /\ Goes(p, "fetch")
        /\ work' = [work EXCEPT ![p] = fork]
    BY <1>4 DEF HandleFork, Starts, list, history
  <2>2. Others(p) /\ at'[p] = "fetch"
    BY <2>1, GoesThere DEF Others, TypeOK
  <2>3. ~ Writing(p)' /\ ~ Appending(p)' /\ ~ Appending(p) /\ ~ Looking(p)'
    BY <2>1, <2>2 DEF Writing, Appending, Looking
  <2> QED
    BY <2>1, <2>2, <2>3, QuietStep
<1> QED
  BY <1>1, <1>2, <1>3, <1>4

LEMMA CheckStep ==
  ASSUME TypeOK, NEW m \in Nat, Settled(m), NEW p \in Process, Check(p)
  PROVE  Settled(m)'
<1> DEFINE b == work[p][1]
<1>1. /\ UNCHANGED <<ptr, len, heap, seen, applied, switched, emptied>>
      /\ at[p] = "check" /\ reg[p].left = {}
  BY DEF Check, Loaded, list, history
<1>2. CASE Fits(p) /\ Goes(p, "utxo") /\ UNCHANGED work
  <2>1. Others(p) /\ at'[p] = "utxo"
    BY <1>2, GoesThere DEF Others
  <2>2. Writing(p) /\ Onward(p, m) /\ \A q \in Process \ {p} : ~ Writing(q)
    BY <1>1 DEF Settled, Writing
  <2>3. reg[p].ptr = ptr /\ reg[p].len = m /\ (~ emptied => m > 0)
    BY <1>1, <2>2 DEF Onward, Fresh, Settled, Chained
  <2>4. m > 0 => Connects(<<Array[m]>>, b)
    BY <1>2, <2>3 DEF Fits, LastOf, Element, Array
  <2>5. m > 0 => PrevHash[b] = Array[m] /\ Height[b] = Height[Array[m]] + 1
    <3>1. <<Array[m]>> # <<>> /\ Last(<<Array[m]>>) = Array[m]
      BY DEF Last
    <3> QED
      BY <2>4, <3>1 DEF Connects
  <2>6. Sound(work[p]) /\ Len(work[p]) = 1
    BY <1>1, <2>2 DEF Onward, TypeOK, WorkOK, Adding
  <2>7. ~ emptied => \A i \in 1..Len(work[p]) : OneUp(work[p][i])
    BY <2>3, <2>5, <2>6 DEF OneUp
  <2>8. Array' = Array
    BY <1>1 DEF Array
  <2>9. Onward(p, m)'
    BY <1>1, <1>2, <2>1, <2>5, <2>6, <2>7, <2>8 DEF Onward
  <2>10. ~ Appending(p) /\ ~ Appending(p)' /\ ~ Looking(p)'
    BY <1>1, <2>1 DEF Appending, Looking
  <2> QED
    BY <1>1, <1>2, <2>1, <2>2, <2>6, <2>9, <2>10, QuietStep
<1>3. CASE Abandons(p)
  BY <1>1, <1>3, GoneStep
<1> QED
  BY <1>2, <1>3 DEF Check

(* UTXOSet.AddBlock.                                                       *)
LEMMA SetStep ==
  ASSUME TypeOK, NEW m \in Nat, Settled(m), NEW p \in Process,
         CheckInputs(p) \/ Spend(p) \/ Notice(p)
  PROVE  Settled(m)'
<1>1. /\ UNCHANGED <<ptr, len, heap, seen, switched, emptied>> /\ at[p] \in {"utxo", "spend"}
      /\ CheckInputs(p) \/ Notice(p) => UNCHANGED applied
  BY DEF CheckInputs, Spend, Notice, list, history
<1>2. /\ Writing(p) /\ Onward(p, m) /\ (\A q \in Process \ {p} : ~ Writing(q))
      /\ Array' = Array /\ Len(work[p]) = 1
  BY <1>1 DEF Settled, Writing, Array, TypeOK, WorkOK, Adding
<1>3. CASE CheckInputs(p) /\ at[p] = "utxo" /\ Goes(p, "spend") /\ UNCHANGED work
  <2>1. Others(p) /\ at'[p] = "spend"
    BY <1>3, GoesThere DEF Others
  <2>2. Onward(p, m)'
    BY <1>1, <1>2, <1>3, <2>1 DEF Onward
  <2>3. ~ Appending(p) /\ ~ Appending(p)' /\ ~ Looking(p)'
    BY <1>1, <2>1 DEF Appending, Looking
  <2> QED
    BY <1>1, <1>2, <1>3, <2>1, <2>2, <2>3, QuietStep
<1>4. CASE Spend(p)
  <2> DEFINE b == work[p][1]
  <2>1. /\ at[p] = "spend" /\ Goes(p, "append") /\ work' = work
        /\ applied' = applied \cup {b}
    BY <1>4 DEF Spend
  <2>2. Others(p) /\ at'[p] = "append" /\ reg'[p].left = Loads
    BY <2>1, GoesThere DEF Others, Loading
  <2>3. Onward(p, m)'
    BY <1>1, <1>2, <2>1, <2>2 DEF Onward, Fresh, Loads
  <2>4. ASSUME ~ switched'
        PROVE  /\ ~ switched /\ Len(work'[p]) = 1
               /\ applied' \cup {Genesis} = Listed(m) \cup {work'[p][1]}
    <3>1. Unswitched(m) /\ ~ switched
      BY <1>1, <2>4 DEF Settled
    <3>2. \A q \in Process : ~ Appending(q)
      BY <1>2, <2>1 DEF Appending, Writing
    <3> QED
      BY <1>2, <2>1, <3>1, <3>2 DEF Unswitched
  <2>5. Appending(p)' /\ ~ Looking(p)'
    BY <2>2 DEF Appending, Looking
  <2> HIDE DEF b
  <2> QED
    BY <1>1, <1>2, <2>1, <2>2, <2>3, <2>4, <2>5, QuietStep
<1>5. CASE (CheckInputs(p) \/ Notice(p)) /\ Abandons(p)
  BY <1>1, <1>5, GoneStep
<1> QED
  BY <1>3, <1>4, <1>5 DEF CheckInputs, Notice

LEMMA StartSwitchStep ==
  ASSUME TypeOK, NEW m \in Nat, Settled(m), NEW p \in Process, StartSwitch(p), ~ overlap'
  PROVE  Settled(m)'
<1>1. /\ UNCHANGED <<ptr, len, heap, work, seen, applied, emptied>> /\ switched' = TRUE
      /\ at[p] = "fetch" /\ Goes(p, "pop")
  BY DEF StartSwitch, Calls, list
<1>2. \A q \in Process \ {p} : ~ Writing(q)
  BY Zenon DEF StartSwitch, Calls
<1>3. Others(p) /\ at'[p] = "pop" /\ reg'[p].left = Loads
  BY <1>1, GoesThere DEF Others, Loading
<1>4. work[p] \in Branch /\ work[p] \in Seq(Block) /\ ValidateBlocks(work[p])
  BY <1>1, RaceAssumption DEF TypeOK, WorkOK
<1>5. Sound(work[p])
  BY <1>4 DEF ValidateBlocks, LinkedUpTo, Verify, Sound
<1>6. \A i \in 1..Len(work[p]) : OneUp(work[p][i])
  BY <1>4, RaceAssumption DEF OneUp
<1>7. Onward(p, m)'
  BY <1>1, <1>3, <1>5, <1>6 DEF Onward, Fresh, Loads
<1>8. ~ Looking(p)'
  BY <1>3 DEF Looking
<1> QED
  BY <1>1, <1>2, <1>3, <1>7, <1>8, QuietStep

LEMMA EndPopsStep ==
  ASSUME TypeOK, NEW m \in Nat, Settled(m), NEW p \in Process, EndPops(p)
  PROVE  Settled(m)'
<1>1. /\ UNCHANGED <<ptr, len, heap, work, seen, applied, switched, emptied>>
      /\ at[p] = "pop" /\ Goes(p, "confirm")
  BY DEF EndPops, Loaded, list, history
<1>2. Others(p) /\ at'[p] = "confirm" /\ reg'[p].left = Loads
  BY <1>1, GoesThere DEF Others, Loading
<1>3. Writing(p) /\ Onward(p, m) /\ \A q \in Process \ {p} : ~ Writing(q)
  BY <1>1 DEF Settled, Writing
<1>4. Onward(p, m)'
  BY <1>1, <1>2, <1>3 DEF Onward, Fresh, Loads
<1>5. switched' /\ ~ Looking(p)'
  BY <1>1, <1>2 DEF Settled, Unswitched, Looking
<1> QED
  BY <1>1, <1>2, <1>3, <1>4, <1>5, QuietStep

LEMMA ConfirmStep ==
  ASSUME TypeOK, NEW m \in Nat, Settled(m), NEW p \in Process, Confirm(p)
  PROVE  Settled(m)'
<1>1. /\ UNCHANGED <<ptr, len, heap, seen, applied, switched, emptied>>
      /\ at[p] = "confirm" /\ reg[p].left = {}
  BY DEF Confirm, Loaded, list, history
<1>2. CASE Found(p) /\ Goes(p, "append") /\ UNCHANGED work
  <2>1. Others(p) /\ at'[p] = "append" /\ reg'[p].left = Loads
    BY <1>2, GoesThere DEF Others, Loading
  <2>2. Writing(p) /\ Onward(p, m) /\ \A q \in Process \ {p} : ~ Writing(q)
    BY <1>1 DEF Settled, Writing
  <2>3. Array' = Array /\ Array[m] = PrevHash[work[p][1]]
    BY <1>1, <1>2, <2>2 DEF Onward, Fresh, Found, LastOf, Element, Ancestor, Array
  <2>4. Onward(p, m)'
    BY <1>1, <1>2, <2>1, <2>2, <2>3 DEF Onward, Fresh, Loads
  <2>5. switched' /\ ~ Looking(p)'
    BY <1>1, <2>1 DEF Settled, Unswitched, Looking
  <2> QED
    BY <1>1, <1>2, <2>1, <2>2, <2>4, <2>5, QuietStep
<1>3. CASE Abandons(p)
  BY <1>1, <1>3, GoneStep
<1> QED
  BY <1>2, <1>3 DEF Confirm

LEMMA RangeStep ==
  ASSUME TypeOK, NEW m \in Nat, Settled(m), NEW p \in Process, StartRange(p) \/ EndRange(p)
  PROVE  Settled(m)'
<1>1. CASE StartRange(p)
  <2>1. /\ UNCHANGED <<ptr, len, heap, work, seen, applied, switched, emptied>>
        /\ at[p] = "idle" /\ Goes(p, "range")
    BY <1>1 DEF StartRange, Starts, list, history
  <2>2. Others(p) /\ at'[p] = "range" /\ "len" \in reg'[p].left
    BY <2>1, GoesThere DEF Others, Loads, Loading
  <2>3. ~ Writing(p)' /\ ~ Appending(p)' /\ ~ Appending(p) /\ ~ Looking(p)'
    BY <2>1, <2>2 DEF Writing, Appending, Looking
  <2> QED
    BY <2>1, <2>2, <2>3, QuietStep
<1>2. CASE EndRange(p)
  <2>1. /\ UNCHANGED <<ptr, len, heap, work, applied, switched, emptied>>
        /\ at[p] = "range" /\ Returns(p) /\ seen' = [seen EXCEPT ![p] = <<>>]
    BY <1>2 DEF EndRange, Loaded, list, history
  <2>2. Others(p) /\ at'[p] = "idle"
    BY <2>1, ReturnsThere DEF Others
  <2>3. ~ Writing(p)' /\ ~ Appending(p)' /\ ~ Appending(p) /\ ~ Looking(p)'
    BY <2>1, <2>2 DEF Writing, Appending, Looking
  <2>4. \A q \in Process : seen'[q] = seen[q] \/ Len(seen'[q]) = 0
    BY <2>1 DEF TypeOK
  <2> QED
    BY <2>1, <2>2, <2>3, <2>4, QuietStep
<1> QED
  BY <1>1, <1>2

LEMMA StoreLenStep ==
  ASSUME TypeOK, NEW m \in Nat, Settled(m), NEW p \in Process, StoreLen(p)
  PROVE  \E n \in Nat : Settled(n)'
<1>1. /\ UNCHANGED <<ptr, heap, seen, applied, switched, emptied>>
      /\ at[p] = "store" /\ "len" \in reg[p].left /\ len' = reg[p].len + 1
      /\ Stored(p, "len") /\ "len" \in Stores
  BY DEF StoreLen, Stores, history
<1>2. /\ Onward(p, m) /\ reg[p].len = m /\ reg[p].ptr = ptr
      /\ reg[p].left \subseteq Stores
  BY <1>1, StoreFacts DEF Onward
<1>3. CASE reg[p].left = Stores
  <2>1. Settled(m)'
    BY <1>1, <1>2, <1>3, FirstStore
  <2> QED
    BY <2>1
<1>4. CASE reg[p].left = {"len"}
  <2>1. Array[m + 1] = work[p][1]
    BY <1>1, <1>2, <1>4 DEF Onward
  <2>2. Settled(m + 1)'
    BY <1>1, <1>2, <1>4, <2>1, SecondStore DEF Array
  <2> QED
    BY <2>2
<1> QED
  BY <1>1, <1>2, <1>3, <1>4 DEF Stores

LEMMA StoreElementStep ==
  ASSUME TypeOK, NEW m \in Nat, Settled(m), NEW p \in Process, StoreElement(p)
  PROVE  \E n \in Nat : Settled(n)'
<1>1. /\ UNCHANGED <<ptr, len, seen, applied, switched, emptied>>
      /\ at[p] = "store" /\ "element" \in reg[p].left
      /\ Stored(p, "element") /\ "element" \in Stores
  BY DEF StoreElement, Stores, history
<1>2. /\ Onward(p, m) /\ reg[p].len = m /\ reg[p].ptr = ptr
      /\ reg[p].left \subseteq Stores
  BY <1>1, StoreFacts DEF Onward
<1>3. /\ Len(heap') = Len(heap)
      /\ \A a \in 1..Len(heap) :
           /\ Len(heap'[a]) = Len(heap[a])
           /\ \A k \in 1..Len(heap[a]) :
                heap'[a][k] = IF a = ptr /\ k = m + 1 THEN work[p][1] ELSE heap[a][k]
  BY <1>2, StoreHeap
<1>4. CASE reg[p].left = Stores
  <2>1. Settled(m)'
    BY <1>1, <1>3, <1>4, FirstStore
  <2> QED
    BY <2>1
<1>5. CASE reg[p].left = {"element"}
  <2>1. len' = m + 1
    BY <1>1, <1>2, <1>5 DEF Onward
  <2>2. Settled(m + 1)'
    BY <1>1, <1>3, <1>5, <2>1, SecondStore
  <2> QED
    BY <2>2
<1> QED
  BY <1>1, <1>2, <1>4, <1>5 DEF Stores

LEMMA AloneNext == TypeOK /\ Alone /\ [Next]_vars => Alone'
<1> SUFFICES ASSUME TypeOK, Alone, [Next]_vars, ~ overlap'
             PROVE  \E m \in Nat : Settled(m)'
  BY DEF Alone
<1>1. CASE UNCHANGED vars
  <2>1. /\ UNCHANGED <<ptr, len, heap, at, reg, work, seen, applied, switched, emptied, overlap>>
    BY <1>1 DEF vars, list, history
  <2>2. PICK m \in Nat : Settled(m)
    BY <2>1 DEF Alone
  <2>3. Settled(m)'
    BY <2>1, <2>2, StillStep
  <2> QED
    BY <2>3
<1>2. CASE Next
  <2>1. ~ overlap
    <3>1. ASSUME NEW p \in Process, AddBlock(p) \/ StartSwitch(p)
          PROVE  ~ overlap
      BY <3>1, Zenon DEF AddBlock, StartSwitch, Calls
    <3>2. Adder \subseteq Process /\ Switcher \subseteq Process
      BY DEF Process
    <3>3. overlap' = overlap \/ \E p \in Process : AddBlock(p) \/ StartSwitch(p)
      BY <1>2, <3>2 DEF Next, Load, ReadPanics, EmptyPanics, Panic, Grow, Fill, StoreLen, StoreElement,
                        StartAdd, Look, Check, CheckInputs, Spend, Notice, HandleFork, Pop, EndPops,
                        Confirm, StartRange, ReadNext, EndRange, history
    <3> QED
      BY <3>1, <3>3
  <2>2. PICK m \in Nat : Settled(m)
    BY <2>1 DEF Alone
  <2>3. Adder \subseteq Process /\ Switcher \subseteq Process /\ Reader \subseteq Process
    BY DEF Process
  <2>4. ASSUME NEW p \in Process, ReadPanics(p) \/ EmptyPanics(p)
        PROVE  Settled(m)'
    <3>1. UNCHANGED <<ptr, len, heap, at, reg, work, seen, applied, switched, emptied>>
      BY <2>4 DEF ReadPanics, EmptyPanics, Panic, list, history
    <3> QED
      BY <2>2, <3>1, StillStep
  <2>5. ASSUME NEW p \in Process, Pop(p)
        PROVE  \E n \in Nat : Settled(n)'
    <3>1. m - 1 \in Nat /\ Settled(m - 1)'
      BY <2>2, <2>5, PopStep
    <3> QED
      BY <3>1
  <2>6. ASSUME NEW p \in Process,
               Load(p) \/ ReadPanics(p) \/ Grow(p) \/ Fill(p) \/ StoreLen(p) \/ StoreElement(p)
        PROVE  \E n \in Nat : Settled(n)'
    BY <2>2, <2>4, <2>6, LoadStep, GrowStep, FillStep, StoreLenStep, StoreElementStep
  <2>7. ASSUME NEW p \in Process,
               \/ EmptyPanics(p) \/ Look(p) \/ AddBlock(p) \/ Check(p)
               \/ CheckInputs(p) \/ Spend(p) \/ Notice(p)
               \/ (\E b \in Block : StartAdd(p, b)) \/ \E fork \in Branch : HandleFork(p, fork)
        PROVE  \E n \in Nat : Settled(n)'
    BY <2>2, <2>4, <2>7, CallStep, CheckStep, SetStep
  <2>8. ASSUME NEW p \in Process,
               Pop(p) \/ EndPops(p) \/ Confirm(p) \/ StartSwitch(p)
        PROVE  \E n \in Nat : Settled(n)'
    BY <2>2, <2>5, <2>8, EndPopsStep, ConfirmStep, StartSwitchStep
  <2>9. ASSUME NEW p \in Process, StartRange(p) \/ ReadNext(p) \/ EndRange(p)
        PROVE  \E n \in Nat : Settled(n)'
    BY <2>2, <2>9, RangeStep, ReadStep
  <2> QED
    BY <1>2, <2>3, <2>6, <2>7, <2>8, <2>9 DEF Next
<1> QED
  BY <1>1, <1>2

LEMMA AloneHolds == Spec => [](TypeOK /\ Alone)
<1>1. Init => TypeOK /\ Alone
  BY TypeInit, AloneInit
<1>2. TypeOK /\ Alone /\ [Next]_vars => TypeOK' /\ Alone'
  BY TypeNext, AloneNext
<1> QED
  BY <1>1, <1>2, PTL DEF Spec

(* As long as calls that write do not overlap, each block of the list is   *)
(* on the one before it whenever no append is in progress, whatever has    *)
(* happened since a caller looked or HandleFork found its ancestor; the    *)
(* list is a chain from genesis until a rollback empties it, and until a   *)
(* fork switch comes it holds, between calls, just the blocks the UTXO set *)
(* has applied (AddBlock, ReplaceWithFork).                                *)
THEOREM WholeAlone == Spec => []ConsistentAlone
<1>1. TypeOK /\ Alone => ConsistentAlone
  <2> SUFFICES ASSUME TypeOK, Alone, ~ overlap
               PROVE  /\ ~ Storing => Whole(List) /\ Follows(List) /\ (~ emptied => Linked(List))
                      /\ ~ switched /\ (\A p \in Process : ~ Writing(p)) =>
                           {List[k] : k \in DOMAIN List} = applied \cup {Genesis}
    BY DEF ConsistentAlone
  <2>1. PICK m \in Nat : Settled(m)
    BY DEF Alone
  <2>2. /\ Chained(m) /\ m \in 0..Len(Array) /\ Len(Array) \in Nat /\ ptr \in 1..Len(heap)
        /\ \A k \in 1..m : k \in 1..Len(Array)
    BY <2>1, TypeFacts DEF Settled, Chained, Array, TypeOK
  <2>3. ASSUME ~ Storing
        PROVE  DOMAIN List = 1..m /\ \A k \in 1..m : List[k] = Array[k]
    BY <2>1, <2>2, <2>3 DEF Settled, List, Array
  <2> HIDE DEF List
  <2>4. \A k \in 1..m : k = 1 \/ (k \in 2..m /\ k - 1 \in 1..m)
    BY <2>2
  <2>5. ASSUME ~ Storing
        PROVE  Whole(List) /\ Follows(List)
    <3>1. /\ \A k \in 1..m : Array[k] # Nil
          /\ \A k \in 2..m : Array[k] # Genesis /\ PrevHash[Array[k]] = Array[k-1]
      BY <2>2 DEF Chained
    <3> QED
      BY <2>3, <2>4, <2>5, <3>1 DEF Whole, Follows
  <2>6. ASSUME ~ Storing, ~ emptied
        PROVE  Linked(List)
    <3>1. \A k \in 1..m : Array[k] # Nil /\ Height[Array[k]] = k - 1
      BY <2>1, <2>2, <2>6 DEF Settled, Chained, AtHeight, Array
    <3>2. Array[1] = Genesis /\ \A k \in 2..m : Array[k] # Genesis /\ PrevHash[Array[k]] = Array[k-1]
      BY <2>2, <2>6 DEF Chained
    <3> QED
      BY <2>3, <2>4, <2>6, <3>1, <3>2 DEF Linked
  <2>7. ASSUME ~ switched, \A p \in Process : ~ Writing(p)
        PROVE  {List[k] : k \in DOMAIN List} = applied \cup {Genesis}
    <3>1. ~ Storing /\ \A p \in Process : ~ Appending(p)
      BY <2>7 DEF Storing, Appending, Writing
    <3>2. applied \cup {Genesis} = Listed(m)
      BY <2>1, <2>7, <3>1 DEF Settled, Unswitched
    <3> QED
      BY <2>3, <3>1, <3>2 DEF Listed
  <2> QED
    BY <2>5, <2>6, <2>7
<1> QED
  BY <1>1, AloneHolds, PTL

(* With one writer at a time a loop over the list sees each block at its   *)
(* height, whatever a fork switch does to the array under it, until a      *)
(* rollback empties the list, and without a switch it sees a chain         *)
(* (GetBlockByHash, HasTransaction, FindCommonAncestor).                   *)
THEOREM SeenWhereItIs == Spec => []SeenInPlace
<1>1. TypeOK /\ Alone => SeenInPlace
  <2> SUFFICES ASSUME TypeOK, Alone, ~ overlap, NEW p \in Reader
               PROVE  /\ ~ emptied => \A k \in DOMAIN seen[p] : Height[seen[p][k]] = k - 1
                      /\ ~ switched => Linked(seen[p])
    BY DEF SeenInPlace
  <2>1. PICK m \in Nat : Settled(m)
    BY DEF Alone
  <2>2. p \in Process /\ seen[p] \in Seq(Block) /\ DOMAIN seen[p] = 1..Len(seen[p])
    BY DEF TypeOK, Process
  <2>3. ~ emptied => \A k \in DOMAIN seen[p] : Height[seen[p][k]] = k - 1
    BY <2>1, <2>2 DEF Settled, AtHeight
  <2>4. ASSUME ~ switched
        PROVE  Linked(seen[p])
    <3>1. \A k \in 1..Len(seen[p]) : k \in 1..Len(Array) /\ Array[k] = seen[p][k] /\ Array[k] # Nil
      BY <2>1, <2>2, <2>4, ChainAssumption DEF Settled, Unswitched
    <3>2. Chained(m) /\ m \in 1..Len(Array) /\ Len(Array) \in Nat /\ ~ emptied
      BY <2>1, <2>2, <2>4, TypeFacts DEF Settled, Unswitched, Chained, Array, TypeOK
    <3>3. ASSUME NEW k \in 2..Len(Array), Array[k] # Nil
          PROVE  Array[k] # Genesis /\ PrevHash[Array[k]] = Array[k-1]
      <4>1. CASE k <= m
        BY <3>2, <3>3, <4>1 DEF Chained
      <4>2. CASE k > m
        <5>1. Filled(k)
          BY <2>1, <2>4, <3>2, <3>3, <4>2 DEF Settled, Unswitched
        <5>2. PICK q \in Process : at[q] = "store" /\ Filled(k)
          BY <5>1 DEF Filled
        <5>3. "element" \notin reg[q].left /\ k = m + 1
          BY <2>1, <5>2, StoreFacts
        <5>4. Onward(q, m) /\ m > 0 /\ PrevHash[work[q][1]] = Array[m] /\ work[q][1] # Genesis
          BY <2>1, <3>2, <5>2, StoreFacts
        <5>5. Array[m + 1] = work[q][1]
          BY <5>2, <5>3, <5>4 DEF Onward
        <5> QED
          BY <3>2, <5>3, <5>4, <5>5
      <4> QED
        BY <3>2, <4>1, <4>2
    <3>4. \A k \in 1..Len(seen[p]) : k = 1 \/ (k \in 2..Len(Array) /\ k - 1 \in 1..Len(seen[p]))
      BY <2>2, <3>1, <3>2
    <3>5. ASSUME NEW k \in 1..Len(seen[p]), k # 1
          PROVE  seen[p][k] # Genesis /\ PrevHash[seen[p][k]] = seen[p][k-1]
      BY <3>1, <3>3, <3>4, <3>5
    <3>6. Array[1] = Genesis
      BY <3>2 DEF Chained
    <3> QED
      BY <2>2, <2>3, <3>1, <3>2, <3>5, <3>6 DEF Linked
  <2> QED
    BY <2>3, <2>4
<1> QED
  BY <1>1, AloneHolds, PTL

(* With one writer at a time only a reader can panic, and only while an    *)
(* element is to be stored or with the pointer of an array that was left:  *)
(* no call of AddBlock or ReplaceWithFork ever meets a gap in the list.    *)
(* A caller that looks at the last block is a reader.                      *)
THEOREM CrashMidAppend == Spec => CrashOnlyMidAppend
<1>1. ASSUME TypeOK, Alone, ~ overlap, NEW p \in Process, ReadPanics(p),
             ~ Storing, reg[p].ptr = ptr
      PROVE  FALSE
  <2>1. PICK m \in Nat : Settled(m)
    BY <1>1 DEF Alone
  <2>2. /\ m \in 0..Len(Array) /\ Len(Array) \in Nat /\ reg[p].len \in Nat
        /\ m > 0 => Array[m] # Nil
    BY <1>1, <2>1, TypeFacts DEF Settled, Chained, Array, TypeOK
  <2>3. ASSUME at[p] \in {"check", "append", "pop", "confirm"}, reg[p].left = {}
        PROVE  reg[p].len = m
    BY <2>1, <2>3 DEF Settled, Writing, Onward, Fresh
  <2>4. CASE /\ \E point \in {"check", "pop", "confirm"} : Loaded(p, point)
             /\ reg[p].len > 0 /\ Missing(p, reg[p].len)
    <3>1. reg[p].len = m
      BY <2>3, <2>4 DEF Loaded
    <3> QED
      BY <1>1, <2>2, <2>4, <3>1 DEF Missing, Beyond, Element, Array
  <2>5. CASE Loaded(p, "append") /\ Beyond(p, reg[p].len)
    <3>1. reg[p].len = m
      BY <2>3, <2>5 DEF Loaded
    <3> QED
      BY <1>1, <2>2, <2>5, <3>1 DEF Beyond, Array
  <2>6. CASE /\ Loaded(p, "range") /\ Len(seen[p]) < reg[p].len
             /\ Missing(p, Len(seen[p]) + 1)
    <3>1. Covered(reg[p].len) /\ Len(seen[p]) \in Nat
      <4>1. seen[p] \in Seq(Block)
        BY <1>1 DEF TypeOK
      <4> QED
        BY <2>1, <2>6, <4>1 DEF Settled, Loaded, Looking
    <3>2. \A k : ~ Pending(k)
      BY <1>1 DEF Storing, Pending
    <3>3. Len(seen[p]) + 1 \in 1..reg[p].len /\ Len(seen[p]) + 1 <= Len(Array)
      BY <2>2, <2>6, <3>1 DEF Covered
    <3>4. Array[Len(seen[p]) + 1] # Nil
      BY <3>1, <3>2, <3>3 DEF Covered
    <3> QED
      BY <1>1, <2>2, <2>6, <3>3, <3>4 DEF Missing, Beyond, Element, Array
  <2>7. CASE Loaded(p, "look") /\ reg[p].len > 0 /\ Missing(p, reg[p].len)
    <3>1. Covered(reg[p].len)
      BY <2>1, <2>7 DEF Settled, Loaded, Looking
    <3>2. \A k : ~ Pending(k)
      BY <1>1 DEF Storing, Pending
    <3>3. reg[p].len <= Len(Array) /\ Array[reg[p].len] # Nil
      BY <2>2, <2>7, <3>1, <3>2 DEF Covered
    <3> QED
      BY <1>1, <2>2, <2>7, <3>3 DEF Missing, Beyond, Element, Array
  <2> QED
    BY <1>1, <2>4, <2>5, <2>6, <2>7 DEF ReadPanics
<1>2. TypeOK /\ Alone /\ [Next]_vars =>
        [\A p \in Process : ReadPanics(p) /\ ~ overlap => Storing \/ reg[p].ptr # ptr]_vars
  BY <1>1
<1> QED
  BY <1>2, AloneHolds, PTL DEF Spec, CrashOnlyMidAppend
=============================================================================
