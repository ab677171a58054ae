---------------------------- MODULE MiningControl ---------------------------
(***************************************************************************)
(* Starting and stopping the mining loop of one process: MineBlocks and    *)
(* StopMining (internal/server/blockchainserver.go), called by main, by    *)
(* the HTTP handlers of cmd/miner, which run concurrently, and by the      *)
(* loop itself.  They share the fields mining and cancelFunc without a     *)
(* lock, so every access to one of them is a step of its own.              *)
(***************************************************************************)
EXTENDS Naturals, FiniteSets

CONSTANTS Loop,      \* the goroutines MineBlocks starts, a bound of the model
          First,     \* the one main starts, before it serves requests
          Request,   \* HTTP requests that are handled at the same time
          Mode,      \* the fourth argument of cmd/miner
          None       \* a nil cancelFunc

ASSUME ControlAssumption ==
  /\ First \in Loop
  /\ Mode \in 0..4
  /\ None \notin Loop

VARIABLES
  mining,       \* BlockchainServer.mining
  cancelFunc,   \* BlockchainServer.cancelFunc: the loop it cancels, or None
  loop,         \* where each goroutine is
  cancelled,    \* the loops whose context is cancelled
  req,          \* where each request is, and the loop it starts
  up,           \* the process runs
  late,         \* history: blocks a loop mined after it was cancelled
  overlap       \* history: some request did not wait for an earlier one

controlVars == <<mining, cancelFunc>>
history == <<late, overlap>>
vars == <<controlVars, loop, cancelled, req, up, history>>

Idle == [pc |-> "idle", of |-> None]

TypeOK ==
  /\ mining \in BOOLEAN
  /\ cancelFunc \in Loop \cup {None}
  /\ loop \in [Loop -> {"unused", "top", "wait", "work", "stop", "cancel",
                        "clear", "reset", "forget", "done"}]
  /\ cancelled \subseteq Loop
  /\ req \in [Request -> [pc : {"idle", "store", "launch", "cancel", "clear"},
                          of : Loop \cup {None}]]
  /\ up \in BOOLEAN
  /\ late \in [Loop -> Nat]
  /\ overlap \in BOOLEAN

Init ==
  /\ mining = TRUE
  /\ cancelFunc = First
  /\ loop = [l \in Loop |-> IF l = First THEN "top" ELSE "unused"]
  /\ cancelled = {}
  /\ req = [r \in Request |-> Idle]
  /\ up = TRUE
  /\ late = [l \in Loop |-> 0]
  /\ overlap = FALSE

Alive(l) == loop[l] \notin {"unused", "done"}

(* A loop on its way out: cancelled, or past its last block. *)
Ending(l) == Alive(l) /\ (l \in cancelled \/ loop[l] \notin {"top", "wait", "work"})

(***************************************************************************)
(* Requests.                                                               *)
(***************************************************************************)
Arrives(r) ==
  /\ up /\ req[r] = Idle
  /\ overlap' = (overlap \/ (\E q \in Request : req[q] # Idle)
                         \/ (\E l \in Loop : Ending(l)))
  /\ UNCHANGED <<controlVars, loop, cancelled, up, late>>

Refuse(r) == Arrives(r) /\ UNCHANGED req

(* MineBlocks: "mining is already in progress". *)
RefuseMine(r) == mining /\ Refuse(r)

(* Faulty variant: does not look whether a loop runs.                      *)
BeginMineUnchecked(r) ==
  /\ Arrives(r)
  /\ \E l \in Loop :
        /\ loop[l] = "unused" /\ \A q \in Request : req[q].of # l
        /\ req' = [req EXCEPT ![r] = [pc |-> "store", of |-> l]]

(* The context is made; its loop is not started yet. *)
BeginMine(r) ==
  /\ ~ mining /\ Arrives(r)
  /\ \E l \in Loop :
        /\ loop[l] = "unused" /\ \A q \in Request : req[q].of # l
        /\ req' = [req EXCEPT ![r] = [pc |-> "store", of |-> l]]

Store(r) ==
  /\ up /\ req[r].pc = "store"
  /\ cancelFunc' = req[r].of
  /\ req' = [req EXCEPT ![r].pc = "launch"]
  /\ UNCHANGED <<mining, loop, cancelled, up, history>>

Launch(r) ==
  /\ up /\ req[r].pc = "launch"
  /\ mining' = TRUE
  /\ loop' = [loop EXCEPT ![req[r].of] = "top"]
  /\ req' = [req EXCEPT ![r] = Idle]
  /\ UNCHANGED <<cancelFunc, cancelled, up, history>>

(* StopMining: "mining is not active". *)
RefuseStop(r) == ~ mining /\ Refuse(r)

BeginStop(r) ==
  /\ mining /\ Arrives(r)
  /\ req' = [req EXCEPT ![r] = [pc |-> "cancel", of |-> None]]

(* Faulty variant: takes a nil cancelFunc for one that can be called.      *)
CancelUnguarded(r) ==
  /\ up /\ req[r].pc = "cancel"
  /\ cancelled' = cancelled \cup {cancelFunc}
  /\ req' = [req EXCEPT ![r].pc = "clear"]
  /\ UNCHANGED <<controlVars, loop, up, history>>

Cancel(r) ==
  /\ up /\ req[r].pc = "cancel" /\ cancelFunc # None
  /\ cancelled' = cancelled \cup {cancelFunc}
  /\ req' = [req EXCEPT ![r].pc = "clear"]
  /\ UNCHANGED <<controlVars, loop, up, history>>

(* The call of a nil cancelFunc panics; net/http recovers and drops the    *)
(* request.                                                                *)
CancelNil(r) ==
  /\ up /\ req[r].pc = "cancel" /\ cancelFunc = None
  /\ req' = [req EXCEPT ![r] = Idle]
  /\ UNCHANGED <<controlVars, loop, cancelled, up, history>>

Clear(r) ==
  /\ up /\ req[r].pc = "clear"
  /\ mining' = FALSE
  /\ req' = [req EXCEPT ![r] = Idle]
  /\ UNCHANGED <<cancelFunc, loop, cancelled, up, history>>

Handle(r) == \/ RefuseMine(r) \/ BeginMine(r) \/ Store(r) \/ Launch(r)
             \/ RefuseStop(r) \/ BeginStop(r) \/ Cancel(r) \/ CancelNil(r) \/ Clear(r)

(***************************************************************************)
(* The goroutine of MineBlocks.                                            *)
(***************************************************************************)
Goes(l, to) == up /\ loop' = [loop EXCEPT ![l] = to] /\ UNCHANGED <<req, overlap>>

(* Faulty variant: never looks at the context.                             *)
TopNeverLooks(l) ==
  /\ loop[l] = "top" /\ Goes(l, "wait")
  /\ UNCHANGED <<controlVars, cancelled, up, late>>

(* The context is looked at here only. *)
Top(l) ==
  /\ loop[l] = "top"
  /\ Goes(l, IF l \in cancelled THEN "reset" ELSE "wait")
  /\ UNCHANGED <<controlVars, cancelled, up, late>>

(* createBlockWithTransactions looks for a transaction that can be spent,  *)
(* once a second, until there is one.                                      *)
GetTransaction(l) ==
  /\ loop[l] = "wait" /\ Goes(l, "work")
  /\ UNCHANGED <<controlVars, cancelled, up, late>>

(* The chain advances while nonces are tried: another block is created.    *)
Overtaken(l) ==
  /\ loop[l] = "work" /\ Goes(l, "wait")
  /\ UNCHANGED <<controlVars, cancelled, up, late>>

(* CreateBlock fails, or the block is given up when its nonce is found. *)
NoBlock(l) ==
  /\ loop[l] = "work" /\ Goes(l, "top")
  /\ UNCHANGED <<controlVars, cancelled, up, late>>

(* Modes 1 and 2 stop after a block, mode 3 after the one at height 10. *)
IsLast == CASE Mode \in {1, 2} -> {TRUE} [] Mode = 3 -> BOOLEAN [] OTHER -> {FALSE}

MineBlock(l) ==
  /\ loop[l] = "work"
  /\ \E last \in IsLast : Goes(l, IF last THEN "stop" ELSE "top")
  /\ late' = [late EXCEPT ![l] = IF l \in cancelled THEN @ + 1 ELSE @]
  /\ UNCHANGED <<controlVars, cancelled, up>>

(* StopMining, called by the loop, which ignores the error. *)
OwnStop(l) ==
  /\ loop[l] = "stop"
  /\ Goes(l, IF mining THEN "cancel" ELSE "reset")
  /\ UNCHANGED <<controlVars, cancelled, up, late>>

OwnCancel(l) ==
  /\ loop[l] = "cancel" /\ cancelFunc # None /\ Goes(l, "clear")
  /\ cancelled' = cancelled \cup {cancelFunc}
  /\ UNCHANGED <<controlVars, up, late>>

(* Nobody recovers a panic of this goroutine. *)
OwnCancelNil(l) ==
  /\ up /\ loop[l] = "cancel" /\ cancelFunc = None
  /\ up' = FALSE
  /\ UNCHANGED <<controlVars, loop, cancelled, req, history>>

OwnClear(l) ==
  /\ loop[l] = "clear" /\ Goes(l, "reset")
  /\ mining' = FALSE
  /\ UNCHANGED <<cancelFunc, cancelled, up, late>>

(* The deferred function. *)
ResetMining(l) ==
  /\ loop[l] = "reset" /\ Goes(l, "forget")
  /\ mining' = FALSE
  /\ UNCHANGED <<cancelFunc, cancelled, up, late>>

ResetCancel(l) ==
  /\ loop[l] = "forget" /\ Goes(l, "done")
  /\ cancelFunc' = None
  /\ UNCHANGED <<mining, cancelled, up, late>>

Run(l) == \/ Top(l) \/ Overtaken(l) \/ NoBlock(l) \/ MineBlock(l)
          \/ OwnStop(l) \/ OwnCancel(l) \/ OwnCancelNil(l) \/ OwnClear(l)
          \/ ResetMining(l) \/ ResetCancel(l)

Next == (\E r \in Request : Handle(r)) \/ (\E l \in Loop : GetTransaction(l) \/ Run(l))

Spec == Init /\ [][Next]_vars

-----------------------------------------------------------------------------
(***************************************************************************)
(* Properties.                                                             *)
(***************************************************************************)

(* However requests, loops and their deferred resets interleave, a loop    *)
(* mines at most one block after it was cancelled: the one it works on.    *)
LateBlockOnce == \A l \in Loop : late[l] <= 1

(* MineBlocks starts no loop beside a running one.                         *)
OneLoop == Cardinality({l \in Loop : Alive(l)}) <= 1

(* The flag tells whether somebody mines.                                  *)
FlagTells ==
  /\ \A r \in Request : req[r] = Idle
  /\ \A l \in Loop : loop[l] \in {"unused", "top", "wait", "work", "done"}
  => (mining <=> \E l \in Loop : Alive(l) /\ l \notin cancelled)

(* As long as every request waits for the earlier ones to take effect,     *)
(* there is at most one loop, StopMining refuses only when nobody mines,   *)
(* and a loop that stops itself finds its cancelFunc, so that no nil call  *)
(* ends the process.  (None of this holds otherwise: the reset of a        *)
(* stopped loop clears the flag and the cancelFunc of the next.)           *)
SoundInTurn == ~ overlap => OneLoop /\ FlagTells /\ up

(***************************************************************************)
(* Goroutines and handlers are scheduled, and whoever tries nonces again   *)
(* and again finds one.  Nothing is said of when a transaction comes.      *)
(***************************************************************************)
FairSpec ==
  /\ Spec
  /\ \A r \in Request :
       WF_vars(Store(r) \/ Launch(r) \/ Cancel(r) \/ CancelNil(r) \/ Clear(r))
  /\ \A l \in Loop : WF_vars(Run(l)) /\ SF_vars(NoBlock(l) \/ MineBlock(l))

(* A cancelled loop ends, whoever else starts and stops loops meanwhile,   *)
(* except that one that waits for a transaction, which it does without a   *)
(* look at its context (blockchainserver.go:104), waits on if none comes.  *)
StopEnds ==
  \A l \in Loop :
     (l \in cancelled) ~> (loop[l] = "done" \/ ~ up \/ [](loop[l] = "wait"))
=============================================================================
