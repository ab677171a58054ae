----------------------------- MODULE ChainRace ------------------------------
(***************************************************************************)
(* Blockchain.Blocks under handlers and a mining goroutine that share it   *)
(* without a lock (internal/blockchain/blockchain.go), one memory access   *)
(* at a time.                                                              *)
(*                                                                         *)
(* A Go slice is a pointer to an array, a length and a capacity, which are *)
(* loaded and stored one by one.  An append loads them, moves to an array  *)
(* of twice the size when there is no room, and stores the length and the  *)
(* element; nothing orders these two for other goroutines, so here either  *)
(* may come first, as may either of two loads.  The capacity is taken with *)
(* the pointer, and a move to a larger array is one step.                  *)
(*                                                                         *)
(* Everything that touches the list is one of: a look at the last block,   *)
(* AddBlock, ReplaceWithFork, or a range loop (GetBlockByHash,             *)
(* HasTransaction, FindCommonAncestor).  Between the look of a caller and  *)
(* AddBlock, and between what HandleFork decides and ReplaceWithFork, which*)
(* does not ask again, others may do anything.                             *)
(*                                                                         *)
(* UTXOSet.AddBlock checks, then removes and adds.  When two calls of it   *)
(* overlap, both may pass the check; the list of an address may also lose  *)
(* an update, or the map end the process, which is not modelled: what is   *)
(* claimed of the UTXO set is claimed until then.                          *)
(***************************************************************************)
EXTENDS Chain

CONSTANTS Adder,     \* goroutines that call AddBlock
          Switcher,  \* goroutines in HandleFork
          Reader,    \* goroutines that loop over the list
          Branch,    \* forks fetched and validated
          MaxLen,    \* bound of the model on the length of the list
          MayMix     \* bound of the model: whether calls that write overlap
                     \* in runs with fork switches

(* A miner makes a block one higher than its last one (CreateBlock).       *)
ASSUME RaceAssumption ==
  \A fork \in Branch :
    /\ fork \in Seq(Block) \ {<<>>}
    /\ ValidateBlocks(fork)
    /\ \A i \in DOMAIN fork : Height[fork[i]] = Height[PrevHash[fork[i]]] + 1

Process == Adder \cup Switcher \cup Reader

VARIABLES
  ptr, len,   \* the header of Blocks; the capacity is that of the array
  heap,       \* the arrays ever allocated
  utxos,      \* UTXOSet
  at,         \* at[p]: what p does next
  reg,        \* reg[p]: pointer and length p has loaded, and the loads or
              \*         stores it has left before it goes on
  work,       \* work[p]: the blocks p is to append
  seen,       \* seen[p]: what p's loop has read
  ended,      \* whether the process has ended by a panic
  applied,    \* history: blocks AddBlock has put into the UTXO set
  overlap,    \* history: two calls that write have overlapped
  clash,      \* history: two calls of UTXOSet.AddBlock have overlapped
  switched,   \* history: ReplaceWithFork has been called
  emptied     \* history: a rollback has emptied the list

list == <<ptr, len, heap>>
history == <<applied, overlap, clash, switched, emptied>>
vars == <<list, utxos, at, reg, work, seen, ended, history>>

Unloaded(loads) == [ptr |-> 1, len |-> 0, left |-> loads]

(* NewBlockchain appends the genesis block to an empty list.               *)
Init ==
  /\ ptr = 1 /\ len = 1 /\ heap = <<<<Genesis>>>>
  /\ utxos = NewUTXOSet
  /\ at = [p \in Process |-> "idle"]
  /\ reg = [p \in Process |-> Unloaded({})]
  /\ work = [p \in Process |-> <<>>]
  /\ seen = [p \in Process |-> <<>>]
  /\ ended = FALSE
  /\ applied = {}
  /\ overlap = FALSE /\ clash = FALSE /\ switched = FALSE /\ emptied = FALSE

(* Inside AddBlock or ReplaceWithFork.                                     *)
Writing(p) == at[p] \notin {"idle", "range", "look", "passed", "fetch"}

(* Inside UTXOSet.AddBlock.                                                *)
InSet(p) == at[p] \in {"utxo", "spend"}

Stores == {"len", "element"}
Loads == {"ptr", "len"}

(* The points that begin with a load of the header.                        *)
Loading == {"look", "check", "append", "pop", "confirm", "range"}

Goes(p, point) ==
  /\ at' = [at EXCEPT ![p] = point]
  /\ reg' = [reg EXCEPT ![p] = Unloaded(IF point \in Loading THEN Loads ELSE {})]

Returns(p) ==
  /\ at' = [at EXCEPT ![p] = "idle"]
  /\ reg' = [reg EXCEPT ![p] = Unloaded({})]

Abandons(p) == Returns(p) /\ work' = [work EXCEPT ![p] = <<>>]

Starts(p, point) == ~ ended /\ at[p] = "idle" /\ Goes(p, point)

(* The call of AddBlock or ReplaceWithFork.                                *)
Calls(p, point) ==
  /\ ~ ended
  /\ Goes(p, point)
  /\ overlap' = (overlap \/ \E q \in Process \ {p} : Writing(q))
  /\ overlap' /\ switched' => MayMix

-----------------------------------------------------------------------------
(***************************************************************************)
(* Loads, and what can be wrong with what was loaded.                      *)
(***************************************************************************)
Load(p) ==
  /\ ~ ended /\ at[p] \in Loading
  /\ \/ /\ "ptr" \in reg[p].left
        /\ reg' = [reg EXCEPT ![p].ptr = ptr, ![p].left = @ \ {"ptr"}]
     \/ /\ "len" \in reg[p].left
        /\ reg' = [reg EXCEPT ![p].len = len, ![p].left = @ \ {"len"}]
  /\ UNCHANGED <<list, utxos, at, work, seen, ended, history>>

Loaded(p, point) == ~ ended /\ at[p] = point /\ reg[p].left = {}

(* A length that is not of this array reaches beyond it.                   *)
Beyond(p, k) == k > Len(heap[reg[p].ptr])
Element(p, k) == heap[reg[p].ptr][k]
LastOf(p) == Element(p, reg[p].len)

(* No block at position k: what is read is nil, or not of the list at all. *)
Missing(p, k) == IF Beyond(p, k) THEN TRUE ELSE Element(p, k) = Nil

Panic ==
  /\ ended' = TRUE
  /\ UNCHANGED <<list, utxos, at, reg, work, seen, history>>

(* Hash of a block that is not there, or an array copied past its end.     *)
(* Memory beyond an array may also hold anything at all; a panic stands    *)
(* for whatever comes of reading it, as nothing that follows is defined.   *)
ReadPanics(p) ==
  \/ /\ \E point \in {"look", "check", "pop", "confirm"} : Loaded(p, point)
     /\ reg[p].len > 0 /\ Missing(p, reg[p].len)
     /\ Panic
  \/ /\ Loaded(p, "append") /\ Beyond(p, reg[p].len)
     /\ Panic
  \/ /\ Loaded(p, "range") /\ Len(seen[p]) < reg[p].len /\ Missing(p, Len(seen[p]) + 1)
     /\ Panic

-----------------------------------------------------------------------------
(***************************************************************************)
(* AddBlock, and what its callers ask before they call it.                 *)
(***************************************************************************)
StartAdd(p, b) ==
  /\ Starts(p, "look")
  /\ Verify(b)
  /\ work' = [work EXCEPT ![p] = <<b>>]
  /\ UNCHANGED <<list, utxos, seen, ended, history>>

(* GetLastBlock of an empty list is nil, which no caller expects.          *)
EmptyPanics(p) == Loaded(p, "look") /\ reg[p].len = 0 /\ Panic

(* A handler compares the previous hash, a miner the height of its block.  *)
Due(p) ==
  \/ PrevHash[work[p][1]] = LastOf(p)
  \/ Height[work[p][1]] > Height[LastOf(p)]

Look(p) ==
  /\ Loaded(p, "look") /\ reg[p].len > 0 /\ ~ Missing(p, reg[p].len)
  /\ IF Due(p) THEN Goes(p, "passed") /\ UNCHANGED work ELSE Abandons(p)
  /\ UNCHANGED <<list, utxos, seen, ended, history>>

AddBlock(p) ==
  /\ at[p] = "passed" /\ UNCHANGED switched /\ Calls(p, "check")
  /\ UNCHANGED <<list, utxos, work, seen, ended, applied, clash, emptied>>

(* Faulty variant: only the height is compared.                            *)
FitsHeight(p) ==
  reg[p].len > 0 => ~ Missing(p, reg[p].len) /\ Height[work[p][1]] = Height[LastOf(p)] + 1

Fits(p) ==
  reg[p].len > 0 => ~ Missing(p, reg[p].len) /\ Connects(<<LastOf(p)>>, work[p][1])

Check(p) ==
  /\ Loaded(p, "check")
  /\ reg[p].len > 0 => ~ Missing(p, reg[p].len)
  /\ IF Fits(p)
     THEN /\ Goes(p, "utxo")
          /\ clash' = (clash \/ \E q \in Process \ {p} : InSet(q))
          /\ UNCHANGED work
     ELSE Abandons(p) /\ UNCHANGED clash
  /\ UNCHANGED <<list, utxos, seen, ended, applied, overlap, switched, emptied>>

(* UTXOSet.AddBlock: the checks, then the removals and additions.  A check *)
(* that is made again in between may still notice what another call took;  *)
(* inputs removed before it stay removed.                                  *)
Tx1(p) == TxOf[work[p][1]]
Left(p) == {u \in Inputs[Tx1(p)] : CheckUTXO(utxos, u)}

CheckInputs(p) ==
  /\ ~ ended /\ at[p] = "utxo"
  /\ IF CheckTransaction(utxos, Tx1(p)) THEN Goes(p, "spend") /\ UNCHANGED work ELSE Abandons(p)
  /\ UNCHANGED <<list, utxos, seen, ended, history>>

Spend(p) ==
  /\ ~ ended /\ at[p] = "spend"
  /\ utxos' = [u \in Utxo |-> utxos[u] - (IF u \in Left(p) THEN 1 ELSE 0)
                                       + (IF u \in Outputs[Tx1(p)] THEN 1 ELSE 0)]
  /\ applied' = applied \cup {work[p][1]}
  /\ Goes(p, "append")
  /\ UNCHANGED <<list, work, seen, ended, overlap, clash, switched, emptied>>

Notice(p) ==
  /\ ~ ended /\ at[p] = "spend"
  /\ ~ CheckTransaction(utxos, Tx1(p))
  /\ \E gone \in SUBSET Left(p) :
       utxos' = [u \in Utxo |-> utxos[u] - (IF u \in gone THEN 1 ELSE 0)]
  /\ Abandons(p)
  /\ UNCHANGED <<list, seen, ended, history>>

-----------------------------------------------------------------------------
(***************************************************************************)
(* append(Blocks, block), in AddBlock and in ReplaceWithFork.              *)
(***************************************************************************)
Room(p) == reg[p].len < Len(heap[reg[p].ptr])

(* Faulty variant: a larger array without the elements.                    *)
GrownEmpty(p) == [k \in 1..2 * Len(heap[reg[p].ptr]) |-> Nil]

(* growslice: the first elements move to an array of twice the size.       *)
Grown(p) ==
  [k \in 1..2 * Len(heap[reg[p].ptr]) |-> IF k <= reg[p].len THEN Element(p, k) ELSE Nil]

Grow(p) ==
  /\ Loaded(p, "append") /\ ~ Beyond(p, reg[p].len) /\ ~ Room(p)
  /\ reg[p].len < MaxLen
  /\ heap' = Append(heap, Grown(p))
  /\ ptr' = Len(heap')
  /\ at' = [at EXCEPT ![p] = "store"]
  /\ reg' = [reg EXCEPT ![p].ptr = ptr', ![p].left = Stores]
  /\ UNCHANGED <<len, utxos, work, seen, ended, history>>

Fill(p) ==
  /\ Loaded(p, "append") /\ Room(p)
  /\ at' = [at EXCEPT ![p] = "store"]
  /\ reg' = [reg EXCEPT ![p].left = Stores]
  /\ UNCHANGED <<list, utxos, work, seen, ended, history>>

(* After the second store the next block, if there is one, is appended.    *)
Stored(p, s) ==
  IF reg[p].left # {s}
  THEN reg' = [reg EXCEPT ![p].left = @ \ {s}] /\ UNCHANGED <<at, work>>
  ELSE /\ work' = [work EXCEPT ![p] = Tail(@)]
       /\ IF Len(work[p]) = 1 THEN Returns(p) ELSE Goes(p, "append")

StoreLen(p) ==
  /\ ~ ended /\ at[p] = "store" /\ "len" \in reg[p].left
  /\ len' = reg[p].len + 1
  /\ Stored(p, "len")
  /\ UNCHANGED <<ptr, heap, utxos, seen, ended, history>>

(* Faulty variant: the last block is overwritten.                          *)
StoreNext(p) ==
  /\ ~ ended /\ at[p] = "store" /\ "element" \in reg[p].left
  /\ heap' = [heap EXCEPT ![reg[p].ptr][reg[p].len] = work[p][1]]
  /\ Stored(p, "element")
  /\ UNCHANGED <<ptr, len, utxos, seen, ended, history>>

StoreElement(p) ==
  /\ ~ ended /\ at[p] = "store" /\ "element" \in reg[p].left
  /\ heap' = [heap EXCEPT ![reg[p].ptr][reg[p].len + 1] = work[p][1]]
  /\ Stored(p, "element")
  /\ UNCHANGED <<ptr, len, utxos, seen, ended, history>>

-----------------------------------------------------------------------------
(***************************************************************************)
(* HandleFork, and ReplaceWithFork with RollbackToHash.                    *)
(***************************************************************************)
Ancestor(p) == PrevHash[work[p][1]]

(* The ancestor is on the list and the fork longer when HandleFork looks,  *)
(* which is before it fetches and validates the blocks.  Its loops over    *)
(* the list are one look here.                                             *)
HandleFork(p, fork) ==
  /\ Starts(p, "fetch")
  /\ \E k \in 1..len : k <= Len(heap[ptr]) /\ heap[ptr][k] = PrevHash[fork[1]]
  /\ Height[Last(fork)] + 1 > len
  /\ overlap => MayMix
  /\ work' = [work EXCEPT ![p] = fork]
  /\ UNCHANGED <<list, utxos, seen, ended, history>>

StartSwitch(p) ==
  /\ at[p] = "fetch" /\ switched' = TRUE /\ Calls(p, "pop")
  /\ UNCHANGED <<list, utxos, work, seen, ended, applied, clash, emptied>>

NotFound(p) == reg[p].len = 0
Found(p) == ~ NotFound(p) /\ ~ Missing(p, reg[p].len) /\ LastOf(p) = Ancestor(p)

Pop(p) ==
  /\ Loaded(p, "pop") /\ ~ NotFound(p) /\ ~ Missing(p, reg[p].len) /\ ~ Found(p)
  /\ len' = reg[p].len - 1
  /\ emptied' = (emptied \/ len' = 0)
  /\ Goes(p, "pop")
  /\ UNCHANGED <<ptr, heap, utxos, work, seen, ended, applied, overlap, clash, switched>>

(* The loop is over, and the last block is looked at once more.            *)
EndPops(p) ==
  /\ Loaded(p, "pop")
  /\ NotFound(p) \/ Found(p)
  /\ Goes(p, "confirm")
  /\ UNCHANGED <<list, utxos, work, seen, ended, history>>

Confirm(p) ==
  /\ Loaded(p, "confirm")
  /\ reg[p].len > 0 => ~ Missing(p, reg[p].len)
  /\ IF Found(p) THEN Goes(p, "append") /\ UNCHANGED work ELSE Abandons(p)
  /\ UNCHANGED <<list, utxos, seen, ended, history>>

-----------------------------------------------------------------------------
(***************************************************************************)
(* for ... := range bc.Blocks, over a copy of the header.                  *)
(***************************************************************************)
StartRange(p) ==
  /\ Starts(p, "range")
  /\ UNCHANGED <<list, utxos, work, seen, ended, history>>

ReadNext(p) ==
  LET k == Len(seen[p]) + 1 IN
  /\ Loaded(p, "range") /\ k <= reg[p].len /\ ~ Missing(p, k)
  /\ seen' = [seen EXCEPT ![p] = Append(@, Element(p, k))]
  /\ UNCHANGED <<list, utxos, at, reg, work, ended, history>>

EndRange(p) ==
  /\ Loaded(p, "range") /\ Len(seen[p]) >= reg[p].len
  /\ Returns(p)
  /\ seen' = [seen EXCEPT ![p] = <<>>]
  /\ UNCHANGED <<list, utxos, work, ended, history>>

-----------------------------------------------------------------------------
Next ==
  \/ \E p \in Process : Load(p) \/ ReadPanics(p) \/ Grow(p) \/ Fill(p)
                        \/ StoreLen(p) \/ StoreElement(p)
  \/ \E p \in Adder : \/ \E b \in Block : StartAdd(p, b)
                      \/ EmptyPanics(p) \/ Look(p) \/ AddBlock(p) \/ Check(p)
                      \/ CheckInputs(p) \/ Spend(p) \/ Notice(p)
  \/ \E p \in Switcher : \/ \E fork \in Branch : HandleFork(p, fork)
                         \/ StartSwitch(p) \/ Pop(p) \/ EndPops(p) \/ Confirm(p)
  \/ \E p \in Reader : StartRange(p) \/ ReadNext(p) \/ EndRange(p)

Spec == Init /\ [][Next]_vars

-----------------------------------------------------------------------------
(***************************************************************************)
(* Properties.                                                             *)
(***************************************************************************)
Storing == \E p \in Process : at[p] = "store"

List == [k \in 1..len |-> IF k <= Len(heap[ptr]) THEN heap[ptr][k] ELSE Nil]
Whole(s) == \A k \in DOMAIN s : s[k] # Nil

(* Each block on the one before it, wherever the list begins.              *)
Follows(s) == \A k \in DOMAIN s : k > 1 => s[k] # Genesis /\ PrevHash[s[k]] = s[k-1]

(* As long as calls that write do not overlap, each block is on the one    *)
(* before it between two appends, also in the middle of a rollback,        *)
(* however stale a caller's look or the ancestor of a fork is.  The list   *)
(* runs from genesis until a rollback to an ancestor that another fork     *)
(* switch removed has emptied it (what is appended then lies too low), and *)
(* between two calls it holds just the blocks that the UTXO set has until  *)
(* a fork switch comes, which tells the UTXO set nothing.  (Two appends    *)
(* that overlap may list two blocks on one predecessor, or lose one.)      *)
ConsistentAlone ==
  ~ overlap =>
    /\ ~ Storing => Whole(List) /\ Follows(List) /\ (~ emptied => Linked(List))
    /\ ~ switched /\ (\A p \in Process : ~ Writing(p)) =>
         {List[k] : k \in DOMAIN List} = applied \cup {Genesis}

(* However the loads and stores of calls of AddBlock overlap, the list     *)
(* never has a block twice, nor two that spend the same output, as long as *)
(* the UTXO set is asked by one call at a time: it lets one of them        *)
(* through.  Nothing makes the callers wait; when the set is asked by two, *)
(* both may find the inputs there.                                         *)
SpentOnceOnList ==
  ~ switched /\ ~ clash =>
    \A j, k \in DOMAIN List :
      j # k /\ List[j] # Nil /\ List[k] # Nil =>
        /\ List[j] # List[k]
        /\ List[j] # Genesis /\ List[k] # Genesis => ~ Conflict(TxOf[List[j]], TxOf[List[k]])

(* A loop over the list may run while a fork switch pops and overwrites    *)
(* the array under it, and collect blocks of both branches; but each is at *)
(* its height unless the list was emptied, and without a switch they are   *)
(* linked.                                                                 *)
SeenInPlace ==
  ~ overlap =>
    \A p \in Reader :
      /\ ~ emptied => \A k \in DOMAIN seen[p] : Height[seen[p][k]] = k - 1
      /\ ~ switched => Linked(seen[p])

(* A reader does not wait for a writer: without overlapping writers it may *)
(* still crash the process, but only while an element is to be stored, or  *)
(* with the pointer of an array that was left since.  That holds of range  *)
(* loops and of a caller's look at the last block; the writer itself never *)
(* meets a gap.                                                            *)
CrashOnlyMidAppend ==
  [][\A p \in Process : ReadPanics(p) /\ ~ overlap => Storing \/ reg[p].ptr # ptr]_vars
=============================================================================
