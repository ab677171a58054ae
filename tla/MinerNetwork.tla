---------------------------- MODULE MinerNetwork ----------------------------
(***************************************************************************)
(* Miner processes, their block and transaction pools, and the synchronous *)
(* calls that carry blocks and transactions between them                   *)
(* (internal/server/blockchainserver.go, incomingtraffic.go,               *)
(* outgoingtraffic.go, peermanager.go).                                    *)
(*                                                                         *)
(* BroadcastBlock calls SubmitBlock of one peer after another and waits    *)
(* for each; the peer's handler broadcasts in turn before it answers.  A   *)
(* mined block is thus carried by one call stack that spans the network.   *)
(* stack[t] is the stack rooted in the mining goroutine of node t, and     *)
(* msg[t] the block and the hashes it carries, which no relay changes.     *)
(* tstack[x] is the stack rooted in the call of the client that submits    *)
(* transaction x.  Stacks run concurrently; what a handler does between    *)
(* two calls is one step.                                                  *)
(*                                                                         *)
(* A panic in a handler or in the mining goroutine ends the process.  Its  *)
(* frames then return an error to the frame below, which ignores it.       *)
(***************************************************************************)
EXTENDS Chain

CONSTANTS Mode,         \* the fourth argument of cmd/miner, 0..4
          BootPeers,    \* the peers named on the command line
          LatePeers,    \* the peers an operator adds later (POST /addpeers)
          Miners,       \* where no operator has stopped mining
          BootPool,     \* transactions in the pools when the model starts
          Clients,      \* transactions a client will submit, once each
          ForkRelease,  \* 5: mode 3 hides heights 2 to 4, ignores 1 to 4
          ForkStop,     \* 10: the height at which mode 3 stops
          BanLimit,     \* 3: invalid blocks until a caller is blacklisted
          Unreliable,   \* nodes that calls sometimes do not reach
          MaxDepth      \* bound of the model: deeper calls fail

ASSUME NetworkAssumption ==
  /\ Mode \in [Node -> 0..4]
  /\ BootPeers \in [Node -> SUBSET Node]
  /\ LatePeers \in [Node -> SUBSET Node]
  /\ Miners \subseteq Node
  /\ BootPool \in [Node -> SUBSET Tx]
  /\ Clients \subseteq Tx
  /\ ForkRelease \in Nat /\ ForkStop \in Nat
  /\ BanLimit \in Nat \ {0}
  /\ Unreliable \subseteq Node
  /\ MaxDepth \in Nat

VARIABLES
  blocks,        \* Blockchain.Blocks
  utxos,         \* Blockchain.UTXOSet
  applied,       \* history: the transactions AddBlock applied to utxos
  txPool,        \* TxPool
  cand,          \* the block the mining goroutine works on
  mining,        \* the mining goroutine runs
  peers,         \* PeerManager.peerClients
  invalidCount,  \* PeerManager.invalidCount, per caller
  up,            \* the process runs
  msg, stack,    \* blocks under way
  tstack, sent   \* transactions under way

chainVars == <<blocks, utxos, applied>>
minerVars == <<cand, mining>>
callVars  == <<msg, stack>>
txVars    == <<txPool, tstack, sent>>
vars == <<chainVars, minerVars, callVars, txVars, peers, invalidCount, up>>

Liars == {n \in Node : Mode[n] \in {1, 2, 4}}

(***************************************************************************)
(* State.  A frame is one activation: BroadcastBlock and                   *)
(* HandleBlockSubmission ("cast": peers still to be called are todo) or    *)
(* HandleBlockSubmission before its first step ("enter") or inside         *)
(* RequestMissingBlocks ("fetch": want are the hashes still to be asked    *)
(* for, the last one first, of the peers in todo; got are the answers).    *)
(***************************************************************************)
Frame == [node : Node, pc : {"enter", "fetch", "cast"}, todo : SUBSET Node,
          want : Seq(Block), got : Seq(Block \cup {Nil})]

Enter(n) == [node |-> n, pc |-> "enter", todo |-> {}, want |-> <<>>, got |-> <<>>]
Cast(n)  == [node |-> n, pc |-> "cast", todo |-> peers[n], want |-> <<>>, got |-> <<>>]

Message == [block : Block, intact : BOOLEAN, hashes : Seq(Block)]

TxFrame == [node : Node, pc : {"enter", "cast"}, todo : SUBSET Node]

TypeOK ==
  /\ blocks \in [Node -> Seq(Block)]
  /\ utxos \in [Node -> UTXOSet]
  /\ applied \in [Node -> SUBSET Tx]
  /\ txPool \in [Node -> SUBSET Tx]
  /\ cand \in [Node -> (Block \ {Genesis}) \cup {Nil}]
  /\ mining \in [Node -> BOOLEAN]
  /\ peers \in [Node -> SUBSET Node]
  /\ invalidCount \in [Node -> [Node -> Nat]]
  /\ up \in [Node -> BOOLEAN]
  /\ msg \in [Node -> Message \cup {Nil}]
  /\ stack \in [Node -> Seq(Frame)]
  /\ tstack \in [Tx -> Seq(TxFrame)]
  /\ sent \subseteq Tx

Init ==
  /\ blocks = [n \in Node |-> <<Genesis>>]
  /\ utxos = [n \in Node |-> NewUTXOSet]
  /\ applied = [n \in Node |-> {}]
  /\ txPool = BootPool
  /\ cand = [n \in Node |-> Nil]
  /\ mining = [n \in Node |-> n \in Miners]
  /\ peers = BootPeers
  /\ invalidCount = [n \in Node |-> [p \in Node |-> 0]]
  /\ up = [n \in Node |-> TRUE]
  /\ msg = [n \in Node |-> Nil]
  /\ stack = [n \in Node |-> <<>>]
  /\ tstack = [x \in Tx |-> <<>>]
  /\ sent = {}

Top(t) == Last(stack[t])
Handler(t) == Top(t).node
Caller(t) == stack[t][Len(stack[t]) - 1].node

ReplaceTop(t, f) == stack' = [stack EXCEPT ![t] = Append(Front(@), f)]

Panic(n) == up' = [up EXCEPT ![n] = FALSE]

(* Blockchain.AddBlock, as a condition and as an effect on node n. *)
AddBlockOK(n, b) ==
  Connects(blocks[n], b) /\ CheckTransaction(utxos[n], TxOf[b])

(* Faulty variant: forgets the UTXO set.                                   *)
AddBlockChainOnly(n, b) ==
  /\ blocks' = [blocks EXCEPT ![n] = Append(@, b)]
  /\ applied' = [applied EXCEPT ![n] = @ \cup {TxOf[b]}]
  /\ UNCHANGED utxos

AddBlock(n, b) ==
  /\ blocks' = [blocks EXCEPT ![n] = Append(@, b)]
  /\ utxos' = [utxos EXCEPT ![n] = AddTransaction(@, TxOf[b])]
  /\ applied' = [applied EXCEPT ![n] = @ \cup {TxOf[b]}]

-----------------------------------------------------------------------------
(***************************************************************************)
(* The mining goroutine of node n, while it is not inside BroadcastBlock.  *)
(***************************************************************************)
Free(n) == up[n] /\ mining[n] /\ stack[n] = <<>>

Spendable(n) == {x \in txPool[n] : CheckTransaction(utxos[n], x)}

(* createBlockWithTransactions: one transaction, on top of the chain. *)
CreateBlock(n) ==
  /\ Free(n) /\ cand[n] = Nil /\ blocks[n] # <<>>
  /\ \E x \in Spendable(n), b \in CreatedOn(blocks[n]) :
        /\ MinerOf[b] = n /\ TxOf[b] = x
        /\ cand' = [cand EXCEPT ![n] = b]
  /\ UNCHANGED <<chainVars, mining, callVars, txVars, peers, invalidCount, up>>

(* Both tests of the height against the last block dereference nil when    *)
(* the chain is empty.                                                     *)
MinerPanic(n) ==
  /\ Free(n) /\ blocks[n] = <<>>
  /\ cand[n] # Nil \/ Spendable(n) # {}
  /\ Panic(n)
  /\ UNCHANGED <<chainVars, minerVars, callVars, txVars, peers, invalidCount>>

Stale(n) == Height[cand[n]] <= Height[Last(blocks[n])]

AbandonBlock(n) ==
  /\ Free(n) /\ cand[n] # Nil /\ blocks[n] # <<>>
  /\ Stale(n)
  /\ cand' = [cand EXCEPT ![n] = Nil]
  /\ UNCHANGED <<chainVars, mining, callVars, txVars, peers, invalidCount, up>>

(* A nonce was found and the chain has not advanced. *)
Found(n) == /\ Free(n) /\ cand[n] # Nil /\ blocks[n] # <<>>
            /\ ~ Stale(n)
            /\ cand' = [cand EXCEPT ![n] = Nil]
            /\ UNCHANGED <<mining, txVars, peers, invalidCount, up>>

Broadcast(n, b, intact, chain) ==
  /\ msg' = [msg EXCEPT ![n] =
       [block |-> b, intact |-> intact, hashes |-> LastHashes(chain)]]
  /\ stack' = [stack EXCEPT ![n] = <<Cast(n)>>]

(* Faulty variant: one height short.                                       *)
HiddenTooShort(n) ==
  Mode[n] = 3 /\ Height[cand[n]] > 1 /\ Height[cand[n]] < ForkRelease - 1

Hidden(n) == Mode[n] = 3 /\ Height[cand[n]] > 1 /\ Height[cand[n]] < ForkRelease

PublishBlock(n) ==
  /\ Found(n) /\ n \notin Liars /\ ~ Hidden(n)
  /\ AddBlockOK(n, cand[n])
  /\ AddBlock(n, cand[n])
  /\ Broadcast(n, cand[n], TRUE, Append(blocks[n], cand[n]))

HideBlock(n) ==
  /\ Found(n) /\ Hidden(n)
  /\ AddBlockOK(n, cand[n])
  /\ AddBlock(n, cand[n])
  /\ UNCHANGED callVars

(* Mode 0, and mode 3 while it hides, give up a block AddBlock refuses.    *)
DropBlock(n) ==
  /\ Found(n) /\ (Mode[n] = 0 \/ Hidden(n))
  /\ ~ AddBlockOK(n, cand[n])
  /\ UNCHANGED <<chainVars, callVars>>

(* Only mode 0 looks at the error: mode 3 broadcasts the block anyway.     *)
PublishRefused(n) ==
  /\ Found(n) /\ Mode[n] = 3 /\ ~ Hidden(n)
  /\ ~ AddBlockOK(n, cand[n])
  /\ Broadcast(n, cand[n], TRUE, blocks[n])
  /\ UNCHANGED chainVars

(* Modes 1, 2 and 4 spoil the block; AddBlock refuses it, the peers get it.*)
PublishSpoiled(n) ==
  /\ Found(n) /\ n \in Liars
  /\ Broadcast(n, cand[n], FALSE, blocks[n])
  /\ UNCHANGED chainVars

Mine(n) == \/ CreateBlock(n) \/ MinerPanic(n) \/ AbandonBlock(n)
           \/ PublishBlock(n) \/ HideBlock(n) \/ DropBlock(n)
           \/ PublishRefused(n) \/ PublishSpoiled(n)

-----------------------------------------------------------------------------
(***************************************************************************)
(* The stack of the block of node t.                                       *)
(***************************************************************************)
At(t, pc) == stack[t] # <<>> /\ Top(t).pc = pc /\ up[Handler(t)]

CalledPeer(t, p) == [Top(t) EXCEPT !.todo = @ \ {p}]

CallPeer(t) ==
  /\ At(t, "cast") /\ Len(stack[t]) < MaxDepth
  /\ \E p \in Top(t).todo :
        /\ up[p]
        /\ stack' = [stack EXCEPT ![t] =
             Append(Append(Front(@), CalledPeer(t, p)), Enter(p))]
  /\ UNCHANGED <<chainVars, minerVars, msg, txVars, peers, invalidCount, up>>

(* The call reports an error, which BroadcastBlock logs: the process is    *)
(* gone, or the network does not reach it.                                 *)
Fails(p) == ~ up[p] \/ p \in Unreliable

CallFails(t) ==
  /\ At(t, "cast")
  /\ \E p \in Top(t).todo :
        /\ Fails(p) \/ Len(stack[t]) >= MaxDepth
        /\ ReplaceTop(t, CalledPeer(t, p))
  /\ UNCHANGED <<chainVars, minerVars, msg, txVars, peers, invalidCount, up>>

Pop(t) == stack' = [stack EXCEPT ![t] = Front(@)]

(* A handler answers; the caller ignores the answer and any error. *)
Reply(t) ==
  /\ Pop(t)
  /\ UNCHANGED <<minerVars, msg, txVars, peers>>

Return(t) ==
  /\ At(t, "cast") /\ Top(t).todo = {} /\ Len(stack[t]) > 1
  /\ Reply(t)
  /\ UNCHANGED <<chainVars, invalidCount, up>>

Stops(t) == \/ Mode[t] \in {1, 2}
            \/ Mode[t] = 3 /\ Height[msg[t].block] = ForkStop

(* BroadcastBlock returns to the mining goroutine, which mines on or stops.*)
EndBroadcast(t) ==
  /\ At(t, "cast") /\ Top(t).todo = {} /\ Len(stack[t]) = 1
  /\ Pop(t)
  /\ msg' = [msg EXCEPT ![t] = Nil]
  /\ mining' = [mining EXCEPT ![t] = @ /\ ~ Stops(t)]
  /\ UNCHANGED <<chainVars, cand, txVars, peers, invalidCount, up>>

(* The process of the innermost frame is gone. *)
Unwind(t) ==
  /\ stack[t] # <<>> /\ ~ up[Handler(t)]
  /\ Pop(t)
  /\ msg' = [msg EXCEPT ![t] = IF Len(stack[t]) = 1 THEN Nil ELSE @]
  /\ UNCHANGED <<chainVars, minerVars, txVars, peers, invalidCount, up>>

-----------------------------------------------------------------------------
(***************************************************************************)
(* HandleBlockSubmission at the node on top of stack t.                    *)
(***************************************************************************)
Blacklisted(n, p) == invalidCount[n][p] >= BanLimit

RefuseBlacklisted(t) ==
  /\ At(t, "enter")
  /\ Blacklisted(Handler(t), Caller(t))
  /\ Reply(t)
  /\ UNCHANGED <<chainVars, invalidCount, up>>

Received(t) == At(t, "enter") /\ ~ Blacklisted(Handler(t), Caller(t))

(* A mode 3 node pretends to accept the blocks its own fork competes with. *)
Ignored(t) == /\ Mode[Handler(t)] = 3
              /\ Height[msg[t].block] >= 1 /\ Height[msg[t].block] < ForkRelease

IgnoreBlock(t) ==
  /\ Received(t) /\ Ignored(t)
  /\ Reply(t)
  /\ UNCHANGED <<chainVars, invalidCount, up>>

(* Faulty variant: relays the block it rejects.                            *)
RejectInvalidLate(t) ==
  /\ Received(t) /\ ~ Ignored(t) /\ ~ msg[t].intact
  /\ invalidCount' = [invalidCount EXCEPT ![Handler(t)][Caller(t)] = @ + 1]
  /\ ReplaceTop(t, Cast(Handler(t)))
  /\ UNCHANGED <<chainVars, minerVars, msg, txVars, peers, up>>

RejectInvalid(t) ==
  /\ Received(t) /\ ~ Ignored(t) /\ ~ msg[t].intact
  /\ invalidCount' = [invalidCount EXCEPT ![Handler(t)][Caller(t)] = @ + 1]
  /\ Reply(t)
  /\ UNCHANGED <<chainVars, up>>

(* Faulty variant: a block is not verified.                                *)
Unverified(t) == Received(t) /\ ~ Ignored(t)

Verified(t) == Received(t) /\ ~ Ignored(t) /\ msg[t].intact

(* GetLastBlock is nil. *)
ReceivePanic(t) ==
  /\ Verified(t) /\ blocks[Handler(t)] = <<>>
  /\ Panic(Handler(t))
  /\ UNCHANGED <<chainVars, minerVars, callVars, txVars, peers, invalidCount>>

Extends(t) == /\ Verified(t) /\ blocks[Handler(t)] # <<>>
              /\ PrevHash[msg[t].block] = Last(blocks[Handler(t)])

(* Faulty variant: adds the block and tells nobody.                        *)
ExtendSilently(t) ==
  /\ Extends(t) /\ AddBlockOK(Handler(t), msg[t].block)
  /\ AddBlock(Handler(t), msg[t].block)
  /\ Reply(t)
  /\ UNCHANGED <<invalidCount, up>>

ExtendChain(t) ==
  /\ Extends(t) /\ AddBlockOK(Handler(t), msg[t].block)
  /\ AddBlock(Handler(t), msg[t].block)
  /\ ReplaceTop(t, Cast(Handler(t)))
  /\ UNCHANGED <<minerVars, msg, txVars, peers, invalidCount, up>>

RefuseBlock(t) ==
  /\ Extends(t) /\ ~ AddBlockOK(Handler(t), msg[t].block)
  /\ Reply(t)
  /\ UNCHANGED <<chainVars, invalidCount, up>>

Elsewhere(t) == /\ Verified(t) /\ blocks[Handler(t)] # <<>>
                /\ PrevHash[msg[t].block] # Last(blocks[Handler(t)])

(* Faulty variant: no block is recognised.                                 *)
NeverDuplicate(t) == blocks[Handler(t)] = <<>>

Duplicate(t) == OnChain(blocks[Handler(t)], msg[t].block)

RefuseDuplicate(t) ==
  /\ Elsewhere(t) /\ Duplicate(t)
  /\ Reply(t)
  /\ UNCHANGED <<chainVars, invalidCount, up>>

(* HandleFork, up to its first call. *)
Fork(t) == Elsewhere(t) /\ ~ Duplicate(t)

Connected(t) == Common(blocks[Handler(t)], msg[t].hashes) # {}

(* Faulty variant: asks for a lead of two.                                 *)
LongerByTwo(t) == Work(msg[t].hashes) > Work(LastHashes(blocks[Handler(t)])) + 1

Longer(t) == Work(msg[t].hashes) > Work(LastHashes(blocks[Handler(t)]))

RefuseUnconnected(t) ==
  /\ Fork(t) /\ ~ Connected(t)
  /\ Reply(t)
  /\ UNCHANGED <<chainVars, invalidCount, up>>

(* HandleFork reports no error, so the block is broadcast all the same.    *)
KeepChain(t) ==
  /\ Fork(t) /\ Connected(t) /\ ~ Longer(t)
  /\ ReplaceTop(t, Cast(Handler(t)))
  /\ UNCHANGED <<chainVars, minerVars, msg, txVars, peers, invalidCount, up>>

BeginFork(t) ==
  LET n == Handler(t)
      start == CommonAncestor(blocks[n], msg[t].hashes)
  IN  /\ Fork(t) /\ Connected(t) /\ Longer(t)
      /\ ReplaceTop(t, [node |-> n, pc |-> "fetch", todo |-> peers[n],
                        want |-> MissingHashes(msg[t].hashes, start), got |-> <<>>])
      /\ UNCHANGED <<chainVars, minerVars, msg, txVars, peers, invalidCount, up>>

(* RequestMissingBlocks: one call of GetBlockByHash, or none left to make. *)
Fetching(t) == At(t, "fetch") /\ Top(t).want # <<>>

(* Faulty variant: keeps the answers in the order they come in.            *)
AnsweredInOrder(t, b) ==
  [Top(t) EXCEPT !.todo = peers[Handler(t)], !.want = Front(@), !.got = Append(@, b)]

Answered(t, b) ==
  [Top(t) EXCEPT !.todo = peers[Handler(t)], !.want = Front(@), !.got = <<b>> \o @]

PeerAnswers(t) ==
  /\ Fetching(t)
  /\ \E p \in Top(t).todo :
        /\ up[p] /\ OnChain(blocks[p], Last(Top(t).want))
        /\ ReplaceTop(t, Answered(t, Last(Top(t).want)))
  /\ UNCHANGED <<chainVars, minerVars, msg, txVars, peers, invalidCount, up>>

PeerHasNot(t) ==
  /\ Fetching(t)
  /\ \E p \in Top(t).todo :
        /\ Fails(p) \/ ~ OnChain(blocks[p], Last(Top(t).want))
        /\ ReplaceTop(t, CalledPeer(t, p))
  /\ UNCHANGED <<chainVars, minerVars, msg, txVars, peers, invalidCount, up>>

NobodyHas(t) ==
  /\ Fetching(t) /\ Top(t).todo = {}
  /\ ReplaceTop(t, Answered(t, Nil))
  /\ UNCHANGED <<chainVars, minerVars, msg, txVars, peers, invalidCount, up>>

(* HandleFork, after its last call. *)
Fetched(t) == At(t, "fetch") /\ Top(t).want = <<>>

ForkPanic(t) ==
  /\ Fetched(t) /\ ValidatePanics(Top(t).got)
  /\ Panic(Handler(t))
  /\ UNCHANGED <<chainVars, minerVars, callVars, txVars, peers, invalidCount>>

(* ReplaceWithFork rewrites the chain even when it then reports an error;  *)
(* only a chain it completed is followed by a broadcast.                   *)
FinishFork(t) ==
  LET n == Handler(t)
      valid == Top(t).got # <<>> /\ ValidateBlocks(Top(t).got)
      chain == IF valid THEN ReplaceWithFork(blocks[n], Top(t).got) ELSE blocks[n]
  IN  /\ Fetched(t) /\ ~ ValidatePanics(Top(t).got)
      /\ blocks' = [blocks EXCEPT ![n] = chain]
      /\ IF valid /\ chain # <<>> THEN ReplaceTop(t, Cast(n)) ELSE Pop(t)
      /\ UNCHANGED <<utxos, applied, minerVars, msg, txVars, peers, invalidCount, up>>

Carry(t) ==
  \/ CallPeer(t) \/ CallFails(t) \/ Return(t) \/ EndBroadcast(t) \/ Unwind(t)
  \/ RefuseBlacklisted(t) \/ IgnoreBlock(t) \/ RejectInvalid(t) \/ ReceivePanic(t)
  \/ ExtendChain(t) \/ RefuseBlock(t) \/ RefuseDuplicate(t) \/ RefuseUnconnected(t)
  \/ KeepChain(t) \/ BeginFork(t)
  \/ PeerAnswers(t) \/ PeerHasNot(t) \/ NobodyHas(t)
  \/ ForkPanic(t) \/ FinishFork(t)

-----------------------------------------------------------------------------
(***************************************************************************)
(* HandleTransactionSubmission and BroadcastTransaction, for transaction x.*)
(***************************************************************************)
TxTop(x) == Last(tstack[x])
TxAt(x, pc) == tstack[x] # <<>> /\ TxTop(x).pc = pc /\ up[TxTop(x).node]

UnchangedByTx == UNCHANGED <<chainVars, minerVars, callVars, peers, invalidCount, up>>

SubmitTransaction(x) ==
  /\ x \in Clients \ sent
  /\ \E n \in Node :
        /\ up[n]
        /\ tstack' = [tstack EXCEPT ![x] =
             <<[node |-> n, pc |-> "enter", todo |-> {}]>>]
  /\ sent' = sent \cup {x}
  /\ UNCHANGED txPool /\ UnchangedByTx

Known(n, x) == x \in txPool[n] \/ HasTransaction(blocks[n], x)

(* Faulty variant: stores the transaction and tells nobody.                *)
AcceptSilently(x) ==
  /\ TxAt(x, "enter") /\ ~ Known(TxTop(x).node, x)
  /\ txPool' = [txPool EXCEPT ![TxTop(x).node] = @ \cup {x}]
  /\ tstack' = [tstack EXCEPT ![x] = Front(@)]
  /\ UNCHANGED sent /\ UnchangedByTx

AcceptTransaction(x) ==
  LET n == TxTop(x).node IN
  /\ TxAt(x, "enter") /\ ~ Known(n, x)
  /\ txPool' = [txPool EXCEPT ![n] = @ \cup {x}]
  /\ tstack' = [tstack EXCEPT ![x] =
       Append(Front(@), [node |-> n, pc |-> "cast", todo |-> peers[n]])]
  /\ UNCHANGED sent /\ UnchangedByTx

TxPop(x) == tstack' = [tstack EXCEPT ![x] = Front(@)]

RefuseTransaction(x) ==
  /\ TxAt(x, "enter") /\ Known(TxTop(x).node, x)
  /\ TxPop(x)
  /\ UNCHANGED <<txPool, sent>> /\ UnchangedByTx

RelayTransaction(x) ==
  /\ TxAt(x, "cast")
  /\ \E p \in TxTop(x).todo :
       LET rest == Append(Front(tstack[x]), [TxTop(x) EXCEPT !.todo = @ \ {p}]) IN
       \/ /\ up[p]
          /\ tstack' = [tstack EXCEPT ![x] =
               Append(rest, [node |-> p, pc |-> "enter", todo |-> {}])]
       \/ /\ Fails(p)
          /\ tstack' = [tstack EXCEPT ![x] = rest]
  /\ UNCHANGED <<txPool, sent>> /\ UnchangedByTx

ReturnTransaction(x) ==
  /\ tstack[x] # <<>>
  /\ ~ up[TxTop(x).node] \/ (TxTop(x).pc = "cast" /\ TxTop(x).todo = {})
  /\ TxPop(x)
  /\ UNCHANGED <<txPool, sent>> /\ UnchangedByTx

Gossip(x) == \/ SubmitTransaction(x) \/ AcceptTransaction(x) \/ RefuseTransaction(x)
             \/ RelayTransaction(x) \/ ReturnTransaction(x)

-----------------------------------------------------------------------------
(* POST /addpeers: n starts calling p. *)
AddPeer(n) ==
  /\ up[n]
  /\ \E p \in LatePeers[n] \ peers[n] :
        peers' = [peers EXCEPT ![n] = @ \cup {p}]
  /\ UNCHANGED <<chainVars, minerVars, callVars, txVars, invalidCount, up>>

Next == \/ \E n \in Node : Mine(n) \/ Carry(n) \/ AddPeer(n)
        \/ \E x \in Tx : Gossip(x)

Spec == Init /\ [][Next]_vars

(* GetTransactionStatus, as a client sees it. *)
Confirmed(n, x, k) == TransactionDepth(blocks[n], x) >= k

-----------------------------------------------------------------------------
(***************************************************************************)
(* Safety.                                                                 *)
(***************************************************************************)

(* Every chain runs from the genesis block, each block on its predecessor  *)
(* and at the height its header says, although ValidateBlocks compares no  *)
(* heights and not the first link, and ReplaceWithFork compares nothing.   *)
ChainLinked == \A n \in Node : Linked(blocks[n])

(* The UTXO set of a node lists exactly the outputs that the transactions  *)
(* it ever applied leave unspent, each once: AddTransaction neither loses  *)
(* nor duplicates an output, whatever order blocks and forks come in.      *)
UtxoReplay ==
  \A n \in Node : \A u \in Utxo :
     utxos[n][u] = IF u \in Unspent(applied[n]) THEN 1 ELSE 0

(* No node ever applies two transactions that spend the same output.       *)
NoDoubleSpend ==
  \A n \in Node : \A s, t \in applied[n] : ~ Conflict(s, t)

(* A node is only counted against, and in the end blacklisted, if it       *)
(* spoils blocks: no honest node relays a block another node spoiled.      *)
HonestNotBlamed ==
  \A n, p \in Node : invalidCount[n][p] > 0 => p \in Liars

(* No block of a spoiling miner enters any chain.                          *)
NoSpoiledBlock ==
  \A n \in Node : \A i \in DOMAIN blocks[n] :
     blocks[n][i] # Genesis => MinerOf[blocks[n][i]] \notin Liars

(* RequestMissingBlocks keeps its place: what it has, nil for an answer it *)
(* did not get, and what it still wants are the end of the hashes it was   *)
(* given, in their order.                                                  *)
FetchAligned ==
  \A t \in Node : \A i \in DOMAIN stack[t] :
     LET f == stack[t][i]
         h == msg[t].hashes
         tail == f.want \o f.got
     IN  f.pc = "fetch" =>
           /\ Len(tail) <= Len(h)
           /\ \A j \in DOMAIN tail :
                tail[j] \in {Nil, h[Len(h) - Len(tail) + j]}

(* While a node carries a block to its peers, no call it makes comes back  *)
(* to make it carry the same block again.                                  *)
RelayOnce ==
  \A t \in Node : \A i, j \in DOMAIN stack[t] :
     /\ i < j
     /\ stack[t][i].pc = "cast"
     /\ stack[t][j].pc = "cast"
     => stack[t][i].node # stack[t][j].node

(* What a mode 3 miner hides, heights 2 to ForkRelease - 1, no other node  *)
(* has before the block that releases it.                                  *)
Withheld ==
  \A m, n \in Node : \A i \in DOMAIN blocks[n] :
     LET b == blocks[n][i] IN
     /\ m # n /\ Mode[m] = 3
     /\ b # Genesis /\ MinerOf[b] = m
     /\ Height[b] > 1 /\ Height[b] < ForkRelease
     => Len(blocks[n]) > ForkRelease

(* A verified block of a fork that meets the receiver's chain and is       *)
(* higher than its end.  Mode 3 also sends blocks it refused itself, with  *)
(* hashes that do not include them: what travels is no higher chain.       *)
HigherFork(t) ==
  /\ Mode[t] # 3
  /\ Fork(t) /\ Connected(t)
  /\ Height[msg[t].block] > Height[Last(blocks[Handler(t)])]

(* As long as a node has fewer than HashWindow blocks, a higher fork counts*)
(* as more work, although ComputeWork counts the hashes that travel and    *)
(* not the blocks (blockchain.go:305, :378).                               *)
LongerBelowWindow ==
  \A t \in Node :
     HigherFork(t) /\ Len(blocks[Handler(t)]) < HashWindow => Longer(t)

-----------------------------------------------------------------------------
(***************************************************************************)
(* What a node promises.  An output listed twice and an output listed once *)
(* are the same promise, so it takes UtxoReplay to keep it: what is spent  *)
(* must not stay in the list.                                              *)
(***************************************************************************)
Listed == [n \in Node |-> {u \in Utxo : CheckUTXO(utxos[n], u)}]

Spending == INSTANCE SpendOnce WITH accepted <- applied, unspent <- Listed

(* Blocks, forks, refused and spoiled blocks, relays and panics come down  *)
(* to this: one node after the other accepts a transaction whose inputs it *)
(* still lists, and from then on lists its outputs instead (utxo.go:76).   *)
SpendsOnce == Spending!Spec

(* The block lists when one node mines. *)
TheMiner == CHOOSE n \in Miners : TRUE

OneLog == INSTANCE FollowedLog
          WITH copies <- blocks, Source <- TheMiner, Item <- Block, First <- Genesis

(* With one miner, every other chain is a beginning of its chain and never *)
(* gets shorter, however late a node joins and whatever calls fail: fork   *)
(* resolution only ever closes gaps (blockchain.go:317).                   *)
FollowsLog == OneLog!Spec

-----------------------------------------------------------------------------
(***************************************************************************)
(* What a step may not do.                                                 *)
(***************************************************************************)

ChainTxs(n) == {TxOf[b] : b \in ToSet(blocks[n]) \ {Genesis}}

(* The UTXO set lists what the transactions on the chain leave unspent.    *)
UtxoInSync(n) ==
  \A u \in Utxo :
     utxos[n][u] = IF u \in Unspent(ChainTxs(n)) THEN 1 ELSE 0

(* Only the end of HandleFork makes chain and UTXO set diverge, as the     *)
(* check and the two updates of AddBlock belong together on every other    *)
(* path; and only there does a node forget a transaction, as those of the  *)
(* blocks rolled back go nowhere (blockchain.go:261).                      *)
OnlyForksDesync ==
  [][(\E t \in Node : FinishFork(t))
       \/ \A n \in Node :
            /\ UtxoInSync(n) => UtxoInSync(n)'
            /\ \A x \in Tx : Known(n, x) => Known(n, x)']_vars

-----------------------------------------------------------------------------
(***************************************************************************)
(* What the documentation claims and the code does not keep.               *)
(***************************************************************************)

(* README.md:31, "Ensure input UTXOs exist and are unspent": the inputs of *)
(* a transaction on a chain are left unspent by the blocks before it.      *)
ChainSpendsUnspent ==
  \A n \in Node : \A i \in 2..Len(blocks[n]) :
     Inputs[TxOf[blocks[n][i]]] \subseteq
        Unspent({TxOf[blocks[n][j]] : j \in 2..(i-1)})

(* README.md:8, "applies the longest chain rule", and README.md:89, "the   *)
(* new chain is longer than the old chain, it updates the local chain": a  *)
(* higher fork counts as more work, however long the node's chain is.      *)
LongestChainRule == \A t \in Node : HigherFork(t) => Longer(t)

-----------------------------------------------------------------------------
(***************************************************************************)
(* Progress.  Goroutines are scheduled and calls return, so every mining   *)
(* goroutine and every call stack that can take a step takes one.          *)
(* Submitting a transaction and adding a peer is up to others.             *)
(***************************************************************************)
Deliver(x) == \/ AcceptTransaction(x) \/ RefuseTransaction(x)
              \/ RelayTransaction(x) \/ ReturnTransaction(x)

FairSpec ==
  /\ Spec
  /\ \A n \in Miners : WF_vars(Mine(n)) /\ WF_vars(Carry(n))
  /\ \A x \in Clients : WF_vars(Deliver(x))

(* A submitted transaction reaches every node that calls reach, itself or  *)
(* in a block, although a node that knows it from a block does not pass it *)
(* on.                                                                     *)
TxReachesAll ==
  \A x \in Clients, n \in Node \ Unreliable : (x \in sent) ~> Known(n, x)

(* Every transaction that is in a pool ends up on the chain of every node  *)
(* that calls reach.                                                       *)
TxConfirmed ==
  \A x \in Tx : (\E n \in Node : x \in txPool[n])
                ~> (\A n \in Node \ Unreliable : Confirmed(n, x, 1))
=============================================================================
