# Nakamoto-Blockchain in TLA+

Specifications of the miner network and of the clients in this repository (Go, `src/`), model-checked
with TLC on small instances, with theorems checked by TLAPS for every value of the constants.
Paths below are relative to `src/`; `blockchain/` and `server/` stand for `internal/blockchain/` and
`internal/server/`.

## 1. The system

A miner process (`cmd/miner`) holds a block list, a UTXO set and a transaction pool. It serves gRPC
calls of other miners and of clients, serves HTTP calls of an operator, and runs a mining goroutine.
Clients (`cmd/client`, `cmd/clientui`) keep an unspent-output list of their own, make transactions
from it and send each one to one miner. Nothing is persisted: a process that ends is gone.

| component | state | operations | talks to |
|---|---|---|---|
| block list, fork resolution (`blockchain/blockchain.go`) | `Blocks`, `UTXOSet` | AddBlock, HandleFork (FindCommonAncestor, ComputeWork, RequestMissingBlocks, ValidateBlocks, ReplaceWithFork, RollbackToHash), queries | one RPC per missing block, through a callback into the server |
| UTXO set (`utxo.go`) | outputs per address | CheckTransaction, AddTransaction, AddBlock, RemoveBlock (no caller), Balance, GetUTXOs | transactions |
| transactions, blocks (`transaction.go`, `block.go`) | contents and hashes | NewTransaction, Sign, Verify; NewBlock, Verify | crypto |
| transaction pool (`transactionpool.go`) | transactions by hash | Add, Has, GetUpToNTransactions; Remove and HandleStaleBlocks have no caller | UTXO set |
| block server (`server/blockchainserver.go`) | mode, `mining`, `cancelFunc` | HandleBlockSubmission, HandleTransactionSubmission, MineBlocks, StopMining | all of the above |
| RPC (`incomingtraffic.go`, `outgoingtraffic.go`) | none | SubmitBlock, SubmitTransaction, GetBlockByHash, GetTransactionStatus; BroadcastBlock, BroadcastTransaction, RequestBlockByHash | other miners, synchronously |
| peer manager (`peermanager.go`) | connections by dialled address, blacklist and count of invalid blocks by caller's address, under a mutex | AddPeer(s), ListPeerClients, IncrementInvalidCount, IsBlacklisted; RemovePeer has no caller | RPC |
| miner process (`cmd/miner/main.go`) | none | start, POST /addpeers, /mineblocks, /stopmining | block server |
| clients (`cmd/client`, `cmd/clientui`) | own UTXO set, keys | make, sign, send, apply when answered | one miner per transaction |
| difficulty (`GetDifficulty`) | none | constant up to height 1000, then from the time and difficulties of the last ten blocks | block creation |
| signatures (`crypto/sign.go`), gRPC conversion (`server/convert.go`) | none | Sign, VerifySignature; transactions and blocks to messages and back | whatever leaves or enters a process |
| other crypto, generators, logger | none | hashing, keys, files | |

What is hard about it:

* *Calls inside calls.* `BroadcastBlock` waits for each peer, and a peer relays before it answers. A
  block is carried by one call stack that spans the network and calls nodes that are already on it.
* *Decisions across calls.* `HandleFork` compares two chains, makes an RPC per missing block, then
  replaces a chain that others may have changed meanwhile. What it fetched may be missing (nil).
* *Looks that are old when they count.* A handler or a miner looks at the last block, then calls AddBlock; a fork's ancestor is
  looked up before the blocks are fetched.
* *No locks* around the block list, the UTXO set, the pool, `mining` and `cancelFunc`; locks around each
  operation of the peer manager, and none around a check and the count that follows it.
* *Two truths.* A fork switch rewrites the block list and not the UTXO set.
* *Failure.* Failed calls are logged and not retried; a panic in a handler ends the process; a client
  gives up after five seconds on a transaction that may have been accepted.
* *Numbers.* Whole seconds as a divisor, clocks of several processes, signatures whose two halves have no lengths,
  a window of 100 hashes by which chains of any length are compared.
* *Misbehaviour as a feature.* Modes 1, 2 and 4 spoil blocks, mode 3 withholds them.

What makes each part correct: chains are linked from the genesis block; the UTXO set replays what was
applied, and no output is spent twice; fetched blocks keep their place; nobody but the miner of a
spoiled block is blamed, and no such block is adopted; a withheld branch does not leak; blocks and
transactions reach everybody; starting and stopping mining keeps at most one loop; a client's outputs
follow its answers and it spends nothing twice; only those that spoil blocks are refused, and soon; block times
come to the target; what one process signs is what the next one checks. Section 4 says which of these hold and under what
conditions; PROJECT.json lists the hazards line by line.

## 2. Modules

| module | models | composes |
|---|---|---|
| `Ledger` | UTXO set of a node, what a history of transactions leaves unspent | |
| `Chain` | block list and the algorithms on it, as operators | EXTENDS `Ledger` |
| `MinerNetwork` | miners, mining in modes 0 to 4, submission, relays, forks, pools, peers, blacklist | EXTENDS `Chain` |
| `MCMinerNetwork` | instances for TLC | EXTENDS `MinerNetwork` |
| `ChainRace`, `MCChainRace` | the slice `Blocks`, one memory access at a time | EXTENDS `Chain` |
| `UtxoBlocks`, `MCUtxoBlocks` | UTXOSet.AddBlock and RemoveBlock, loop by loop, for blocks of many transactions | EXTENDS `Ledger` |
| `Difficulty`, `MCDifficulty` | GetDifficulty and miners with clocks that create blocks by it | |
| `MiningControl` | MineBlocks / StopMining and the loops, statement by statement | |
| `PeerManager`, `MCPeerManager` | peers, connections, ports, counts and blacklist under concurrent calls | |
| `Signature`; `Wire`, `MCWire` | bytes of a signature; conversion, hashing and signing from client to last miner | `Wire` EXTENDS `Signature` |
| `Wallet`, `MCWallet` | both client programs against what becomes of their transactions | |
| `SpendOnce` | abstract: a node accepts transactions whose inputs are unspent | EXTENDS `Ledger`; implemented by `MinerNetwork` |
| `FollowedLog` | abstract: one log and followers that hold beginnings of it | implemented by `MinerNetwork` with one miner |
| `Payments` | abstract: amounts change hands | implemented by `Wallet` |
| `MinerNetworkProofs`, `ChainRaceProofs`, `UtxoBlocksProofs`, `DifficultyProofs`, `MiningControlProofs`, `PeerManagerProofs`, `WireProofs`, `WalletProofs` | theorems and proofs on the module they are named for | each EXTENDS that module |

### How the state corresponds

`Ledger`. A transaction is a model value with constant `Inputs` and `Outputs`. The Go set is a list per
address to which `AddUTXO` appends without looking, so it is a bag (`UTXOSet`): listing an output twice
is representable, and that it does not happen is proved. `Tx` has only transactions that pass `Verify`. A
transaction is added in one step here, so it names no input twice; `UtxoBlocks` drops both restrictions.

`Chain`. A block is its hash; header fields are constant functions of it (`PrevHash`, `Height`, `MinerOf`,
`TxOf`), as the hash covers them. Blocks carry one transaction, which is what `GetUpToNTransactions(1, ..)`
gives. `Children` says which blocks can be mined on a block; `CreatedOn` adds what `CreateBlock` does, the
height is the length of the list. In the proofs heights of other blocks are arbitrary. Every quirk of the
algorithms is kept: `ComputeWork` counts hashes, `ValidateBlocks` does not look at the first link or at
heights, `RollbackToHash` has emptied the list when it reports that it found nothing, the genesis block
fails `Verify`.

`MinerNetwork`. `stack[t]` is the call stack rooted in the mining goroutine of `t`, a sequence of
activations ("enter", "fetch" inside RequestMissingBlocks, "cast" inside BroadcastBlock); `msg[t]` is what it carries;
`tstack[x]` is the stack under a client's SubmitTransaction. A stack runs while others do; *what a
handler does between two calls is one step*. What happens to the block list without that assumption is `ChainRace`.
Actions are named for the paths of the handler: `RefuseBlacklisted`, `IgnoreBlock`,
`RejectInvalid`, `ReceivePanic`, `ExtendChain`, `RefuseBlock`, `RefuseDuplicate`, `RefuseUnconnected`,
`KeepChain`, `BeginFork`, the three answers of a fetch, `ForkPanic`, `FinishFork`; the mining goroutine has
one action per outcome of its loop body. A call to an ended process fails (`Fails`), and the frames above an
ended process return an error that the frame below ignores (`Unwind`). No process comes back, since nothing
is stored. `applied` is a history variable: which transactions `AddBlock` put into the UTXO set.

`ChainRace`. The header of the slice is `ptr`, `len`; `heap` has every array ever allocated, whose size is the
capacity. `reg[p]` is what goroutine `p` has loaded and which of two loads or stores it still owes: nothing orders
them for another goroutine, so either may come first. `at[p]` is the place in the code: `look` (GetLastBlock of a handler or a miner) and `passed`
(the call of AddBlock is due); `check`, `utxo` and `spend` (the two loops of `UTXOSet.AddBlock`); `append`, `store`; `fetch` (HandleFork has decided,
ReplaceWithFork is due), `pop`, `confirm`; `range`. Between `look` and `check`, and between `fetch` and `pop`, anything may
happen to the list, and neither AddBlock nor ReplaceWithFork asks again. A panic stands for whatever comes of reading beyond an array. `applied`,
`overlap` (two calls that write at once), `clash` (two calls inside `UTXOSet.AddBlock`), `switched` and `emptied` are history variables:
overlaps are undefined behaviour, and an emptied list is defined and wrong; the properties name them.

`UtxoBlocks`. `pc`, `txi`, `inp` are the places in AddBlock's two nested loops; `Listing` gives a transaction's inputs in order,
with repetitions. `RemoveBlock` is the call that undoes the block just added; it looks for `NoStamp`, an output
without TxID, and fails there, so the rest of its loop has no states. `gone` and `applied` are history variables.

`Difficulty`. big.Rat is a pair of integers, int64 division drops the fraction (`Quotient`). A block's header has its
timestamp by its miner's clock, and as a history field the real time. `candidate[m]` is the block the miner tries nonces for;
a difficulty that is not positive is never met.

`MiningControl`. The fields `mining` and `cancelFunc` have no lock, so every access to one of them is a
step. A loop at `wait` is inside createBlockWithTransactions, which looks for a spendable transaction and at nothing else, at `work` it tries
nonces; `Overtaken` sends it back to `wait` when the chain advances meanwhile. `late` and `overlap` are history variables.

`PeerManager`. The maps are functions (`peers`, `invalidCount`, `blacklisted`), and each method, which holds the mutex
throughout, is one step; a call of SubmitBlock passes `submit` (first check), `handle` (second check) and `verify`. A caller is known
by its port, which `Connect` and `Disconnect` hand from process to process; `held` remembers who has had it.

`Signature`, `Wire`. A number is its bytes without leading zeros; `Sign` joins two, `VerifySignature` cuts in the middle. A miner makes blocks of
one transaction from its pool. A hash is what was hashed, hence
equality of hashes is equality of contents. `signed` is a history variable: for what ecdsa has made which numbers.

`Wallet`. `utxoSet` is the list per address in its order, because `GetUTXOs` takes a prefix. `made` holds the
transactions with where each one is (under way, accepted by some miner, applied, lost) and what its sender knows
(waiting, answered, gave up). The mutex makes a transaction's life at the client one at a time. A hash is a
serial number: two transactions of equal content in one millisecond are left out. Applied and lost are as seen from one miner, any miner: `Apply` is its
`UTXOSet.AddBlock` of a block with the transaction, mined or received, which checks that miner's own set and no other's. `Lose` is every way in which that does not happen
any more: a fork switch that takes the block over (and leaves the set alone), a submission that the miner ignores because its chain has the transaction, a relay that failed,
a miner that ended. Hence chain and set may say different things, as in the code, and what is claimed is claimed of the set.

Refinement mappings. `SpendOnce`: `accepted` is the history `applied`, `unspent` the outputs that a node's bag lists.
`FollowedLog`: the copies are the block lists, the source is the miner. `Payments`: a balance is the sum of what the transactions
that a miner's set has applied leave unspent for an address (`SetPays`). Every step of the network, or of client and miners, is then one abstract step or none.

Definitions commented "Faulty variant" are not used by any specification; each is a plausible mistake in the
definition that follows it, kept to see that the properties notice it.

## 3. Runs

| run | instance | shows |
|---|---|---|
| `Rivals` | 2 honest miners and a caller of mode 4, 7 transactions of which 2 conflict, heights to 4, window 4, call depth 6, a blacklist limit that is passed | TypeOK, ChainLinked, UtxoReplay, NoDoubleSpend, FetchAligned, HonestNotBlamed, NoSpoiledBlock, LongerBelowWindow, OnlyForksDesync, and the refinement SpendsOnce |
| `Hub` | line of 3 miners, one of mode 3, heights to 4 | Withheld, with cascades, refused blocks, emptied chains and panics |
| `OneMiner` | line of 3, one miner, a fourth node called late and not reliably, a client's transaction, window 3, fair | RelayOnce, TxConfirmed, TxReachesAll, and the refinement FollowsLog |
| `Race` | 3 goroutines: two look and call AddBlock, two decide on a fork, fetch and switch, one loops; a list of up to 3 | ConsistentAlone, SpentOnceOnList, SeenInPlace, CrashOnlyMidAppend |
| `UtxoBlocks` | all blocks of up to 3 of 5 transactions that conflict, chain and repeat inputs | FailsOnOverlap, ListsCreated, LostByTwice |
| `Rush` | 2 miners, clocks one tick apart, heights to 5, any times, fair | OnlyRushStops, Retargets, RushEndsAll |
| `Control` | 2 loops, 3 concurrent requests, mode 3, fair but for transactions to mine | TypeOK, LateBlockOnce, SoundInTurn, StopEnds |
| `Bans` | 3 processes, 2 ports, 2 calls at a time, limit 3 | BanBound, OnlyLiarsPorts |
| `Wire` | 2 transactions, signature numbers of 1 or 2 bytes, 2 miners, heights past the field's limit | SameEverywhere, ValidIfBalanced, BlocksSurvive |
| `Wallet` | both programs, 2 keys and a foreign recipient, 4 outputs, 3 transactions, a fair miner | WalletReplays, PaysWhenFunded, ConflictsGivenUp, AnsweredIsApplied, and the refinement SetPays |
| `SpentOnChain` | the 2 honest miners of `Rivals`, heights to 5 | that a claim of the documentation fails (ChainSpendsUnspent), see section 4 |
| `LongestChain` | the same, window 3, heights to 4 | that another one fails (LongestChainRule), see section 4 |

Bounds, and why they suffice:

* *Block tree.* `Pair` fixes which miner can mine which transaction; a block exists for each pair on each block
  up to `MaxHeight`. Heights to 4 are enough for a branch of one against one of two, a second switch back,
  and blocks added after a switch.
* *Window.* 100 hashes travel with a block; the runs take 4 or 3, so that chains reach the window, and 100 where the
  window is not the point. No definition but `LastHashes` uses the constant.
* *Call depth.* Calls deeper than `MaxDepth` fail like broken connections. Blocks that lose are relayed without end,
  so some bound is needed; 6 admits a relay that comes back twice.
* *ForkRelease, ForkStop, BanLimit.* 5, 10 and 3 in the code; `Hub` takes 3 and 4 to reach both with short chains. `Rivals` bans after one
  block, so that the next one meets a caller who is refused; `Bans`, whose subject is the limit, takes 3.
* *Miners.* In the code mining starts at once. `Miners` are the nodes nobody has POSTed /stopmining to.
* *BootPool.* A node that accepted a transaction before it had peers has it for itself; this is how the miners
  come to mine different transactions. `Clients` are submitted in the run, with relays.
* *Late and unreliable nodes.* In `OneMiner` calls to `n4` start late and may fail at any time: it misses one block, several, or the
  whole window. Progress is claimed for the other three, of which the middle one has to relay both blocks and transactions.
* *Loops, requests, transactions.* Two loops let a start fall between a stop and the deferred reset of the loop
  before; with three requests a stop can follow that start, or race it; three transactions are a timeout, its conflict and a spender of the change.
* *The slice.* `MaxLen` 3 lets appends move the list from arrays of 1 to 2 to 4, into arrays with and without room, and lets a
  second switch remove the ancestor of the first. `MayMix`
  is FALSE: calls that write may overlap as long as no fork switch is in the run, and a run with a fork switch has its calls one after
  the other (looks, decisions about forks and the range loop run at any time). Overlapping writers that pop are so free that nothing would be left to state.
* *Time.* The code's second of 1000 ms, target of 20 s, window of 10 and start at 1000 are constants that no definition
  but GetDifficulty looks at. `Rush` has 2, 1, 2 and 3: the window fills, slides on, and may last less than a
  second, exactly one, or several, or go backwards. As in the code the start lies beyond the window (`DifficultyAssumption`), so that the window never
  reaches the genesis block.
* *Bytes.* Two values, one of them zero, and lengths 1 and 2 are the cases that differ (equal, one longer either way, zeros to drop
  after the cut); the theorem covers the other lengths, from 1 to 32 in the code. `MaxInt32` is 1, for a height that does not fit.
* *Ports and calls.* Two ports and two callers suffice for a port to change hands while a call is under way, and two calls
  for one to pass the check while the other reaches the limit; the theorems cover any number.

Deadlock is not checked: miners wait when no transaction is spendable, processes end, clients run out of
transactions within the bound.

Fairness. `FairSpec` of `MinerNetwork`: the mining goroutine and every call stack that can step do so (goroutines are
scheduled, `BroadcastBlock` and peers return or fail); clients and operators owe nothing. `MiningControl`:
the rest of a request that was accepted and every loop go on; arrival of requests is free. Nothing is assumed of the wait for a spendable
transaction (`GetTransaction`), which may last for ever; who tries nonces again and again finds one some time (a strong fairness, as the chain may advance and
send the loop back to wait).
`Difficulty`: the mining goroutine comes to create a block when it has a transaction
(there is always one in this model); nothing is assumed about time. `Wallet` (`FairSpec`): the miner looked at applies what it does not lose and its set can pay (it offers itself such a transaction as long as there is
one, in Go's random map order); a delivery or an answer may stay out for ever, and any transaction may be lost.

## 4. What holds, and what does not

Holds in all the instances: chains are linked from genesis at the right heights although the fork code checks
neither; a UTXO set is exactly the replay of what its AddBlock calls applied and never contains a double spend;
only the end of HandleFork takes chain and UTXO set apart, or forgets a transaction; missing blocks keep their place; a spoiled block is
charged to its miner only and never adopted; what mode 3 withholds reaches nobody before the release; with one
miner every chain is a prefix of its chain, whatever calls are lost, and until the window is full no node carries one block twice at a time; a
transaction reaches everybody, from pools or in a block. A higher chain counts as longer as long as the
receiver's chain does not fill the window (`LongerBelowWindow`). The property leaves
out what mode 3 sends, which may be a block it refused itself, with the hashes of a chain that does not have it.

The documentation says otherwise in two places. "The longest chain rule" (`README.md:8`; `:89`: if "the new chain is longer than the old chain, it
updates the local chain") ends with the window: `ComputeWork` counts the hashes that travel, so that a node with 100 blocks finds no fork longer, however long it
is, and adopts none any more (run `LongestChain`).

The other one is what a fork switch does to a chain: `README.md:31`, "Ensure input UTXOs exist and are unspent".
`SpentOnChain` shows that it adopts blocks without a look at the UTXO set, so that a chain may spend an output twice or one that is not on
it, while the UTXO set stays that of the old branch.

Other things that the actions of `MinerNetwork` do, as the code does, are not as a reader of its comments may expect:

* `FinishFork`: the ancestor of a fork may be rolled back while its blocks are fetched; RollbackToHash then empties the list before it
  reports that it found nothing, and the next block received or mined dereferences a nil last block (`ReceivePanic`, `MinerPanic`). For the same
  reason the list may become shorter: the comparison is older than the replacement.
* `ForkPanic`: a missing block nobody has is nil and is dereferenced; the process ends.
* `FinishFork` does not return the transactions of removed blocks to the pool (`blockchain.go:261` says it should); one that
  was never in the pool is forgotten.
* `KeepChain`: a block that loses is not remembered and is relayed again each time it comes back. `RelayOnce` is
  therefore a property of a network with one miner, and of that only while its chain is at most one block longer than the
  window: two nodes that both missed a block then hold full windows, keep their chains, and hand the next
  block back and forth inside each other's calls. (With window 3 and height 4 TLC finds it in 36 steps.)

Mining control. As long as every request waits for the earlier ones to take effect (`~ overlap`), there is one loop, the flag tells
whether somebody mines, and no nil function is called (`SoundInTurn`). Without that each of these fails: a start between a stop and the deferred reset
leaves two loops, a flag that says nobody mines, or a nil `cancelFunc` that the next stop calls. `LateBlockOnce` holds
without any condition. A cancelled loop ends (`StopEnds`) unless it waits for a transaction for ever: createBlockWithTransactions loops until there is one that can
be spent and never looks at the context, so on an idle miner a stopped loop stays, and mines one more block when a transaction comes.

The block list without locks. Callers look at the last block before they call AddBlock, and HandleFork finds the ancestor before it fetches, so
what was looked at may be gone when it counts. As long as the calls themselves do not overlap, each block is on the one before it between two appends, also in the middle of a
rollback, and the list holds just the blocks of the UTXO set until a fork switch (`ConsistentAlone`). It runs from genesis at the right heights until a switch finds that another one
has removed its ancestor: RollbackToHash then empties the list, whoever looks at its last block next panics (`EmptyPanics`), but
an AddBlock that was due appends its block at the bottom, whatever its height. Range loops do not wait:
under a switch they may collect blocks of two branches, each at its height unless the list was emptied (`SeenInPlace`), and they
panic, as a look at the last block may, only while an element is being stored or with an array that was left (`CrashOnlyMidAppend`).
When calls of AddBlock overlap, the list may lose a block or its links, but no block is on it twice and no output spent twice as long as the UTXO set, which
has no lock either, is asked by one call at a time (`SpentOnceOnList`). When two are inside it, both may find the inputs there, and both append.

The UTXO set. AddBlock fails halfway *exactly* for blocks that name an output twice (`FailsOnOverlap`); what was done
until then stays, yet nothing is listed that was not created, or twice, and no output is spent twice. An output is lost
only to a transaction that names it twice, which `VerifyContent` lets pass (`LostByTwice`). Client and miner here make no such blocks.
`RemoveBlock`, which nobody calls, restores nothing (`utxo.go:126` says it should), as it looks for outputs without the TxID.

Difficulty. The next difficulty lies between those of the window, scaled by the time it took (`Retargets`). It ends badly only after a window of less than a second, or of less than what clocks
differ by more, or at difficulties that round to zero (`OnlyRushStops`); if the divisor is zero, every process that mines ends (`RushEndsAll`).
`README.md:86` says that block n-10 is looked at; the code takes n-11, rightly: with n-10, ten difficulties would be held against the
time of nine blocks, and `OnlyRushStops` would fail. The clamp of the start at `blockchain.go:48` never applies with a start beyond the window.

Peers. A count passes the limit by no more than the other calls under way (`BanBound`), and whoever is refused has the port of
a process that spoiled blocks (`OnlyLiarsPorts`). A ban is of a connection and not of a process: a peer that connects anew, or a
node that restarts, starts a new count, and the port's next holder inherits the old one.

Signatures and conversion. What a miner holds is to the last field what a client signed (`SameEverywhere`), and blocks
are found valid at the next miner if their height fits (`BlocksSurvive`). A signature is valid *exactly* if `s` is as long
as `r` or one byte longer (`ValidIfBalanced`), everywhere alike, so that about one transaction in 256, whose `s` is shorter, is
refused by every miner. `Transaction.Verify` compares a hash with no content, so it takes
`SameEverywhere` to tell that no conversion leaves a field out.

Clients. The outputs are those the answered transactions leave, timeouts or not, and every transaction that a miner applies moves, in the balances that its set shows, just
the amount it was asked for (`SetPays`), whatever forks its chain has been through. What its chain shows is another matter (`SpentOnChain`).
Two transactions spend one output only if one of them was given up (`ConflictsGivenUp`): "pick out unused
UTXOs" (`README.md:78`) does not survive a timeout. Without timeouts, and at a miner that loses no transaction to a fork switch or a failed relay, every answered
transaction is applied (`AnsweredIsApplied`). Two
client processes started from the same files know nothing of each other; the model has one.

## 5. Proofs

For all constants that satisfy the assumptions of the modules, for the network `LedgerAssumption`, `ChainAssumption` and `NetworkAssumption` (well-typed header
functions, a genesis block that is its own predecessor at height 0, children that point to their parent,
transactions with inputs and outputs and no shared outputs), hence for every number of nodes,
topology, mode assignment, block tree and pool:

* `TypeCorrect`: `Spec => []TypeOK`. TypeOK alone is not inductive: a step reads `msg[t].block`, so a nonempty stack
  must have a message, and the bottom frame must be a "cast". `TypeInv` adds that as `CallOK`.
* `ChainsLinked`: `Spec => []ChainLinked`. ValidateBlocks checks links inside the fetched blocks only, so
  that the *first* of them fits on the rollback point, and that heights grow, must come from elsewhere: the
  blocks that answers bring were on a linked chain, so each is in `StepUp`, the blocks that are one higher than
  their previous block. `LinkInv` is ChainLinked with "all answers a fetch holds are in StepUp" (`AnswersWithin`).
  The first part of `MinerNetworkProofs` has the lemmas on prefixes, rollback and replacement.
* `UtxoReplaysHistory` and `NothingAppliedTwice`: `UtxoReplay` and `NoDoubleSpend` are proved together, by
  `ReplayInv`: the bag lists an output once exactly if the node's history leaves it unspent (`Replays`), and the
  inputs of an applied transaction were initial outputs or made by that history (`Grounded`). No part is inductive
  alone: that an output is listed at most once needs that a transaction is not applied twice, which needs that its inputs are gone.
* `OnlyLiarsBlamed` and `SpoiledNeverAdopted`: `HonestNotBlamed` and `NoSpoiledBlock`. `SpoilInv` says where a block
  that is not intact can be: with its miner or one call away from it (`SpoiledShallow`), since the receiver rejects
  it and relays nothing; hence the caller it is charged to is its miner. Intact blocks under way, candidates, chains and
  the answers of fetches are of other miners (`Sound`), which needs all four together, as each feeds the next.
* `ControlTypeCorrect` and `AtMostOneLateBlock`: for any number of loops and requests. A loop that mined its late block is
  cancelled and not at work, and must pass the look at its context before it can be.
* `NetworkSpendsOnce`: `Spec => SpendsOnce`, every network implements `SpendOnce`. A step that adds a block to a UTXO set is a step
  of `Accept` because of `ReplayInv`: an output created by the transaction was not listed before, and one it consumes
  was listed once, so that it is gone. All other steps leave both mapped variables alone.
* `UtxoBlocksTypeCorrect`, `SetListsCreated`, `BlocksSpendOnce`, `HalfwayFailures`, `OnlyTwiceNamedLost`: `IInv` of `UtxoBlocksProofs`. It says of every
  place in the two loops whether its output is gone (`Taken`), that what is gone was named at such a place or by an applied transaction
  (`Accounted`), and that places passed so far name different outputs (`Distinct`). A failure then points to the
  second place of its output, and a call that ends has passed all places, each with another output.
* `PeersTypeCorrect`, `BanIsBounded`, `OnlyLiarsRefused`. A count alone has no bound that a step keeps: `Bounded` bounds the sum of the count
  and of the calls past both checks while the peer is not blacklisted, `Banned` ties the two maps together, and
  `Blame` says that a port that is counted, or has an invalid block under way, was held by a process that spoils.
* `ValidWhenBalanced`: `Spec => []ValidIfBalanced`, for numbers of any length. `CutInTheMiddle` is arithmetic on lengths: the cut finds `r` and `s` just if
  it falls between them, or one byte before, which then must be a zero that neither number begins with. The invariant says
  that a hash is signed once, and that each copy has the signature of the transaction the client signed.

* `FetchesAligned`: `FetchInv` says of each frame inside RequestMissingBlocks that what it has, after what it still wants, is the
  end of the hashes of the message below it (`Fits`). An answer takes the place of the hash that was asked for, as the last hash wanted and the first
  answer had are next to each other; the message does not change while it has frames.
* `HigherCounts`: `WorkInv` says that as many hashes travel with a block as the block is high, up to the window (`Carried`), unless its miner
  is in mode 3. On a linked chain the work of the receiver is its length up to the window, and the comparison is arithmetic.
* `ForksDesync`: an action property. `AddBlock` keeps a UTXO set that is in step with its chain in step (`ReplayInv` again: the transaction
  is not on the chain yet); every other action but `FinishFork` leaves both and the pool's transactions alone.
* `HiddenStayHidden`: `HideInv`. A node may have secrets, its own, on its chain (`Kept`); what travels with a block that is not spoiled are the hashes
  of a linked chain that is `Open`, so it has no secret or is past the release. A linked chain is known by its end, hence a
  fork switch ends with nothing or with just that chain (`ForkGivesChain`), wherever the blocks came from. The delicate part is mode 3 itself: it broadcasts a block
  that its own AddBlock refused. `Settled` says why this leaks nothing: such a miner takes no block below the height of the release, so that its chain is released, or
  empty, or as high as its own block, or AddBlock takes the block.
* `SoleMinerFollowed`, `RelaysOnce`, with the hypothesis `OneMines`: one node mines, in mode 0; nothing is asked of the others, of the topology or of
  calls. `SoleInv`: the other stacks are empty and every chain is a beginning of the miner's; what a fetch has and wants is just
  what its node lacks (`Lacks`), because nobody else changes a chain meanwhile. `RelaysOnce` adds that the nodes that broadcast have
  the miner's whole chain and are different (`Spread`). Its second hypothesis, `WithinWindow`, cannot be dropped (section 4).
* `SoundWhenInTurn`: `TurnInv`, all of it under `~ overlap`: at most one loop has not ended and at most one request is unfinished (`Alone`); a
  request about to start a loop finds none, and one about to clear the function leaves only loops that are cancelled (`RequestsInTurn`); the flag and
  `cancelFunc` belong to the loop that is there (`FlagOwned`, `CancelFuncOwned`). For any number of loops and requests.
* `SignedIsHeld`, `BlocksArriveValid`: `SameEverywhere` is inductive once the client's transactions are typed (`SameInv`). `BlockInv` adds that every block a miner holds is one that CreateBlock could have made
  (`Made`), which conversion keeps as long as the height is not cut.
* `SpentOnce`: for overlapping looks and calls of AddBlock, one memory access at a time. `Once` says, until two calls are inside `UTXOSet.AddBlock` (`clash`): the set replays what it
  accepted, and what it is about to accept it has checked and nobody changed since (`Accepted`, `InTurn`); until a fork switch, a block is one
  goroutine's to store, and at the same position of whatever arrays it gets into (`OnePlace`).
* `WholeAlone`, `SeenWhereItIs`, `CrashMidAppend`: `Alone`, under `~ overlap`. There is a settled length of the list, up to which each block is on the one before it
  (`Chained`) and, until a rollback empties the list, at its height (`AtHeight`); between it and the length in the header stands what the one writer is about to do (`Onward`);
  up to a length that was loaded there is no gap but the one about to be stored (`Covered`); and before a fork switch the settled part has the blocks of the UTXO set but for
  one that is being appended (`Unswitched`). Nothing is assumed of what callers and forks wait for: AddBlock compares again, and ReplaceWithFork appends only where
  it meets the ancestor. A loop reads old
  arrays too, where blocks keep their heights. `RaceAssumption`: the fork was validated, each of its blocks is one higher than the one before.
* `ListsWhatIsLeft`, `ConflictNeedsTimeout`, `FundedPays`: for any keys, amounts and number of transactions. `Inv` of `WalletProofs`: a transaction
  spends outputs older than itself (`WellMade`), and the one that is under way is the newest, with inputs still listed (`OnItsWay`), which
  the client's mutex ensures; the list is then what the answered transactions leave. The sums and prefixes of GetUTXOs are recursive functions, and what is proved of them goes
  by the least number for which it would fail.
* `AppliedPays`: `Spec => SetPays`, client and any one miner's set implement `Payments`. `PayInv` adds to `Inv` that every transaction was asked for (its
  sender is of the keys file, its inputs are different, its first output has an amount that was asked for), that what an applied transaction
  spends was made by applied ones, and that an address has finitely many outputs. Hence nothing applied spends what `Apply` adds, and the balances change by an
  exchange of outputs (`Exchanged`): the inputs leave the sender's, payment and change join (`Moves`). `MapThenSumSet` chooses its own order; all sums over
  subsets of a finite set are one function (`SumsOfSubsets`), from which any element may be taken out first (`SumFacts`), and
  sums of disjoint sets and of lists without repetitions follow (`SumOfUnion`, `SumOfList`).
* `ScaledByTime`, `StopsOnlyOnRush`, `RushIsFinal`: for any number of miners, clocks, window and time. `Inv` of `DifficultyProofs`: mined
  blocks have positive difficulties and the time of their miner's clock, a candidate for the next height has the difficulty the chain gives, which is only defined if
  `GetDifficulty` does not panic, and a process has ended only if it does. The sum of inverses is a fraction whose value lies between
  the length of the window over its highest and over its lowest difficulty (`InverseSum`), and stays so through inversion, scaling and
  rounding (`Rescaled`). Clocks enter by `SpreadFacts`, which needs finitely many miners. `RushIsFinal` is the safe half of
  `RushEndsAll`: from then on the chain stays as it is.

Induction over data has no theorem the provers can use, so sums, folds and prefixes are reasoned about as functions on the subsets
of a finite set or on an interval, and what is claimed of them by the smallest set, or the least number, for which it would fail (`BySize`, `UpTo`).

Assumptions on constants beyond types: no output is spent by a transaction that it descends from (`SpendingOrder`; a transaction's hash covers its inputs),
and the assumption on the fork above. TLC evaluates all of them.

Only model-checked:

* liveness (`TxConfirmed`, `TxReachesAll`, `StopEnds`, `RushEndsAll`, `AnsweredIsApplied`), which is out of the prover's reach.

`RushIsFinal` of `Difficulty`, `BlocksSpendOnce` of `UtxoBlocks` and the type invariants of `UtxoBlocks` and `PeerManager` are proved only, and TLC has no run for them.

## 6. Not modelled, and the plan

Taken as given: SHA-256 and ECDSA are perfect, and an address identifies its key; file formats and flags are read right;
a call returns or fails (gRPC calls between miners have no deadline, a hanging peer is not a state of the
model). In `MinerNetwork` the caller's identity is the node, signatures are valid and blocks have the difficulty of their
chain, as nobody compares it; `PeerManager`, `Wire` and `Difficulty` are about what that leaves out.

Not modelled: races inside a call of the pool, or inside the UTXO set beyond "both calls passed the check" (`ChainRace`), as Go does not define maps under
concurrent access; in `MinerNetwork` the miner's look at the height and its AddBlock (one step there, two in `ChainRace`); a call whose answer is lost although the callee lives;
the `Verify` inside AddBlock, which repeats what the handlers have just done;
`RemoveTransaction` and `HandleStaleBlocks` of the pool, `RemovePeer`,
`Blockchain.Verify` and the converters for lists of headers, which have no caller; SHA-256, the parsing of keys, the
generators, the logger and generated code, which keep no state of the protocol. The generated Go code in `proto/gen` has no sender's key in a
transaction, which `blockchain.proto:71` and `convert.go` have; `Wire` follows these.

Order of the work: the network of miners with its fork resolution first, as everything else depends on it, then mining control and
the wallet, then what these leave out: blocks of several transactions, the unlocked list, difficulty, peers, conversion, and the
abstract specifications. All of that is done, and every safety invariant, action property and refinement that a run
checks is a theorem (`FollowsLog` and `RelayOnce` under the hypotheses that section 5 names).
