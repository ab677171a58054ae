------------------------------- MODULE Wallet -------------------------------
(***************************************************************************)
(* The unspent outputs a client keeps for itself, against what became of   *)
(* the transactions it sent: cmd/client, which spends in rounds, and       *)
(* cmd/clientui, which asks its user.  Both choose outputs                 *)
(* (internal/blockchain/utxo.go), make a transaction of them               *)
(* (transaction.go), send it to one miner and update their outputs when    *)
(* the miner answers within five seconds.  They do all that under a mutex, *)
(* so one transaction is on its way at a time.                             *)
(*                                                                         *)
(* What became of them is seen in the UTXO set of one miner, any miner:    *)
(* the set that its AddBlock changes and that its own blocks are made from.*)
(* A fork switch changes the chain and leaves that set alone, so here      *)
(* transactions are applied, not mined; which blocks the miner adds, and   *)
(* what its chain then says, is module MinerNetwork.                       *)
(***************************************************************************)
EXTENDS Integers, FiniteSets, FiniteSetsExt, SequencesExt

CONSTANTS Key,         \* the keys of the keys file, which can send
          Address,     \* these and other recipients a user can enter
          Program,     \* the programs to look at: "client", "clientui"
          Allotment,   \* the amounts of each key's outputs in the UTXO file
          Amount,      \* amounts to send; 1..5 in cmd/client
          MaxTx        \* transactions made, a bound of the model

ASSUME WalletAssumption ==
  /\ Program \subseteq {"client", "clientui"}
  /\ Key \subseteq Address
  /\ \E a, b \in Key : a # b
  /\ Allotment \in [Address -> Seq(Nat \ {0})]
  /\ Amount \subseteq Nat \ {0}
  /\ MaxTx \in Nat

VARIABLES
  program,   \* which of the two runs; never changes
  utxoSet,   \* UTXOSet.utxos: the list of outputs of each address
  todo,      \* senders the current round has not reached
  made       \* the transactions made, and what became of each

vars == <<program, utxoSet, todo, made>>

-----------------------------------------------------------------------------
(***************************************************************************)
(* Outputs.  A transaction's hash is its place in made; 0 stands for the   *)
(* random identifiers of the UTXO file.                                    *)
(***************************************************************************)
Utxo == [tx : 0..MaxTx, index : Nat, amount : Nat \ {0}, address : Address]

Output == [index : 0..1, amount : Nat \ {0}, address : Address]

Loaded(a) ==
  [i \in DOMAIN Allotment[a] |->
     [tx |-> 0, index |-> i - 1, amount |-> Allotment[a][i], address |-> a]]

Total(list) ==
  LET sum[n \in 0..Len(list)] == IF n = 0 THEN 0 ELSE sum[n-1] + list[n].amount
  IN  sum[Len(list)]

Balance(a) == Total(utxoSet[a])

(* Takes outputs from the front of the list until they pay the amount,     *)
(* which the balance does.                                                 *)
FirstOf(a, n) == SubSeq(utxoSet[a], 1, n)
Enough(a, amount) == {n \in 0..Len(utxoSet[a]) : Total(FirstOf(a, n)) >= amount}
GetUTXOs(a, amount) == FirstOf(a, Min(Enough(a, amount)))

(* Faulty variant: writes the change even if there is none.                *)
AlwaysChange(inputs, sender, recipient, amount) ==
  [hash |-> 0, inputs |-> inputs, sender |-> sender,
   outputs |-> << [index |-> 0, amount |-> amount, address |-> recipient],
                  [index |-> 1, amount |-> Total(inputs) - amount, address |-> sender] >>]

NewTransaction(inputs, sender, recipient, amount) ==
  LET left == Total(inputs) - amount
      pay == <<[index |-> 0, amount |-> amount, address |-> recipient]>>
      change == IF left > 0
                THEN <<[index |-> 1, amount |-> left, address |-> sender]>>
                ELSE <<>>
  IN  [hash |-> 0, inputs |-> inputs, sender |-> sender, outputs |-> pay \o change]

(* Transaction.VerifyContent *)
VerifyContent(tx) ==
  /\ Len(tx.outputs) <= 2
  /\ \A i \in DOMAIN tx.inputs : tx.inputs[i].amount > 0
  /\ \A i \in DOMAIN tx.outputs :
        tx.outputs[i].amount > 0 /\ tx.outputs[i].index = i - 1
  /\ Total(tx.inputs) = Total(tx.outputs)
  /\ \A i \in DOMAIN tx.inputs : tx.inputs[i].address = tx.sender
  /\ Len(tx.outputs) > 1 => tx.outputs[2].address = tx.sender

(* Transaction.GetUTXO stamps an output with the hash. *)
GetUTXO(tx, i) ==
  LET o == tx.outputs[i]
  IN  [tx |-> tx.hash, index |-> o.index, amount |-> o.amount, address |-> o.address]

(* The same output twice in one transaction counts once. *)
InputsOf(tx) == ToSet(tx.inputs)
OutputsOf(tx) == {GetUTXO(tx, i) : i \in DOMAIN tx.outputs}

CheckTransaction(set, tx) ==
  VerifyContent(tx) /\ \A u \in InputsOf(tx) : u \in ToSet(set[u.address])

(* UTXOSet.AddUTXO for each output.                                        *)
AddUTXOs(set, tx) ==
  LET added[n \in 0..Len(tx.outputs)] ==
        IF n = 0 THEN set
        ELSE [added[n-1] EXCEPT ![tx.outputs[n].address] = Append(@, GetUTXO(tx, n))]
  IN  added[Len(tx.outputs)]

(* UTXOSet.RemoveUTXO for each input, which is in the list of its address. *)
RemoveUTXOs(set, tx) ==
  LET removed[n \in 0..Len(tx.inputs)] ==
        IF n = 0 THEN set
        ELSE [removed[n-1] EXCEPT ![tx.inputs[n].address] = RemoveFirst(@, tx.inputs[n])]
  IN  removed[Len(tx.inputs)]

(* Faulty variant: keeps the inputs.                                       *)
AddOutputsOnly(set, tx) == AddUTXOs(set, tx)

AddTransaction(set, tx) == AddUTXOs(RemoveUTXOs(set, tx), tx)

-----------------------------------------------------------------------------
(***************************************************************************)
(* A transaction is under way ("sent"), accepted by some miner ("pool"),   *)
(* "applied" to the UTXO set looked at, or "lost" to it: the miner never   *)
(* adds a block with it.  Its sender waits for the answer, has it, or has  *)
(* given up.                                                               *)
(***************************************************************************)
Made == DOMAIN made
Tx(h) == made[h].tx
Where(place) == {h \in Made : made[h].at = place}
Heard(what) == {h \in Made : made[h].heard = what}

Init ==
  /\ program \in Program
  /\ utxoSet = [a \in Address |-> Loaded(a)]
  /\ todo = Key
  /\ made = <<>>

(* createTransaction and handleSendTransaction, up to the call. *)
Send(sender, recipient, amount) ==
  /\ Heard("waiting") = {} /\ Len(made) < MaxTx
  /\ Balance(sender) >= amount
  /\ LET tx == NewTransaction(GetUTXOs(sender, amount), sender, recipient, amount)
     IN  /\ VerifyContent(tx)
         /\ made' = Append(made, [tx |-> [tx EXCEPT !.hash = Len(made) + 1],
                                  at |-> "sent", heard |-> "waiting"])
  /\ UNCHANGED <<program, utxoSet>>

(* One sender of a round of cmd/client. *)
LoopSends ==
  /\ program = "client"
  /\ \E s \in todo, r \in Key, n \in Amount :
        /\ r # s /\ utxoSet[s] # <<>>
        /\ Send(s, r, n)
        /\ todo' = todo \ {s}

(* A sender without outputs, or without enough of them, is skipped. *)
LoopSkips ==
  /\ program = "client" /\ Heard("waiting") = {}
  /\ \E s \in todo : /\ \E n \in Amount : Balance(s) < n
                     /\ todo' = todo \ {s}
  /\ UNCHANGED <<program, utxoSet, made>>

(* main sleeps and starts the next round. *)
NextRound ==
  /\ program = "client" /\ todo = {} /\ Heard("waiting") = {}
  /\ todo' = Key
  /\ UNCHANGED <<program, utxoSet, made>>

(* The menu of cmd/clientui: any sender of the file, any recipient. *)
MenuSends ==
  /\ program = "clientui"
  /\ \E s \in Key, r \in Address, n \in Amount : Send(s, r, n)
  /\ UNCHANGED todo

(* HandleTransactionSubmission of a miner, which answers after its relays. *)
Accept(h) ==
  /\ made[h].at = "sent"
  /\ made' = [made EXCEPT ![h].at = "pool"]
  /\ UNCHANGED <<program, utxoSet, todo>>

(* sendTransactionToMiner returns nil. *)
Answered(h) ==
  /\ made[h].heard = "waiting" /\ made[h].at # "sent"
  /\ made' = [made EXCEPT ![h].heard = "answered"]
  /\ utxoSet' = IF CheckTransaction(utxoSet, Tx(h))
                THEN AddTransaction(utxoSet, Tx(h)) ELSE utxoSet
  /\ UNCHANGED <<program, todo>>

(* The call fails or five seconds pass, wherever the transaction is.       *)
GiveUp(h) ==
  /\ made[h].heard = "waiting"
  /\ made' = [made EXCEPT ![h].heard = "gaveup"]
  /\ UNCHANGED <<program, utxoSet, todo>>

(***************************************************************************)
(* The UTXO set of the miner looked at.                                    *)
(***************************************************************************)
Given == UNION {ToSet(Loaded(a)) : a \in Address}

Left(history) ==
  (Given \cup UNION {OutputsOf(Tx(h)) : h \in history})
     \ UNION {InputsOf(Tx(h)) : h \in history}

(* Faulty variant: RemoveUTXO does not look for the input.                 *)
ApplyBlindly(h) ==
  /\ made[h].at = "pool"
  /\ made' = [made EXCEPT ![h].at = "applied"]
  /\ UNCHANGED <<program, utxoSet, todo>>

(* The block with the transaction, and no other, gets past                 *)
(* UTXOSet.AddBlock: the miner has mined it, from the transactions that    *)
(* its set can pay, or received it.                                        *)
Apply(h) ==
  /\ made[h].at = "pool"
  /\ InputsOf(Tx(h)) \subseteq Left(Where("applied"))
  /\ made' = [made EXCEPT ![h].at = "applied"]
  /\ UNCHANGED <<program, utxoSet, todo>>

(* No block with the transaction gets there any more: the miner took the   *)
(* block over by a fork switch, which applies nothing, and has the         *)
(* transaction on its chain from then on; or the transaction stayed with a *)
(* miner that ended, or knew it from a block and did not relay it.         *)
Lose(h) ==
  /\ made[h].at = "pool"
  /\ made' = [made EXCEPT ![h].at = "lost"]
  /\ UNCHANGED <<program, utxoSet, todo>>

Next ==
  \/ LoopSends \/ LoopSkips \/ NextRound \/ MenuSends
  \/ \E h \in Made : Accept(h) \/ Answered(h) \/ GiveUp(h) \/ Apply(h) \/ Lose(h)

Spec == Init /\ [][Next]_vars

(* The miner applies what it does not lose and can: GetUpToNTransactions   *)
(* offers it such a transaction as long as there is one, and its own next  *)
(* block has it.  Nothing else is owed: a transaction that does not        *)
(* arrive, and an answer, may be lost.                                     *)
FairSpec == Spec /\ \A h \in 1..MaxTx : WF_vars(h \in Made /\ Apply(h))

-----------------------------------------------------------------------------
(***************************************************************************)
(* Properties.                                                             *)
(***************************************************************************)
(* Timeouts or not, the client's outputs are those the transactions it had *)
(* an answer for leave, none of them twice: change included, no payment to *)
(* another of its keys forgotten.                                          *)
WalletReplays ==
  \A a \in Address :
     /\ IsInjective(utxoSet[a])
     /\ ToSet(utxoSet[a]) = {u \in Left(Heard("answered")) : u.address = a}

(* Choosing outputs, making change, giving up, conflicts, losses and any   *)
(* order of arrival come down to payments: what the set of a miner shows   *)
(* changes by one amount that was asked for, from a sender of the keys     *)
(* file who has it to a recipient, who may be the same.                    *)
SetBalance(a) ==
  MapThenSumSet(LAMBDA u : u.amount, {u \in Left(Where("applied")) : u.address = a})

Settled == INSTANCE Payments WITH balance <- [a \in Address |-> SetBalance(a)]
SetPays == Settled!Spec

(* Whatever an address can pay, GetUTXOs and NewTransaction make a         *)
(* transaction that a miner accepts and that the client can apply.         *)
PaysWhenFunded ==
  \A s \in Key, r \in Address, n \in Amount : Balance(s) >= n =>
     CheckTransaction(utxoSet, NewTransaction(GetUTXOs(s, n), s, r, n))

(* "Pick out unused UTXOs" (README.md:78) holds of the transactions that   *)
(* were answered: two that spend the same output have a timeout in common. *)
ConflictsGivenUp ==
  \A g, h \in Heard("answered") : g # h => InputsOf(Tx(g)) \cap InputsOf(Tx(h)) = {}

(* A miner that loses no transaction applies every answered one of a       *)
(* client that never had to give up, also those that spend outputs of      *)
(* transactions that are not applied yet.                                  *)
AnsweredIsApplied ==
  \A h \in 1..MaxTx :
     (h \in Heard("answered")) ~>
        (h \in Where("applied") \/ Where("lost") # {} \/ Heard("gaveup") # {})
=============================================================================
