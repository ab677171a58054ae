------------------------- MODULE MiningControlProofs -------------------------
(***************************************************************************)
(* Type correctness of MiningControl, that a cancelled loop mines at most  *)
(* one block, and that loop, flag and cancelFunc belong together as long   *)
(* as requests do not overlap, for any number of loops and requests.       *)
(***************************************************************************)
EXTENDS MiningControl, FiniteSetTheorems, TLAPS

-----------------------------------------------------------------------------
LEMMA TypeInit == Init => TypeOK
<1> SUFFICES ASSUME Init
             PROVE  TypeOK
  OBVIOUS
<1>1. loop \in [Loop -> {"unused", "top", "wait", "work", "stop", "cancel",
                        "clear", "reset", "forget", "done"}]
  BY DEF Init
<1>2. req \in [Request -> [pc : {"idle", "store", "launch", "cancel", "clear"},
                          of : Loop \cup {None}]]
  BY DEF Init, Idle
<1>3. late \in [Loop -> Nat]
  BY DEF Init
<1> QED
  BY <1>1, <1>2, <1>3, ControlAssumption DEF Init, TypeOK

LEMMA TypeStep == TypeOK /\ [Next]_vars => TypeOK'
<1> SUFFICES ASSUME TypeOK, [Next]_vars
             PROVE  TypeOK'
  OBVIOUS
<1> USE ControlAssumption DEF TypeOK
<1>1. CASE UNCHANGED vars
  BY <1>1 DEF vars, controlVars, history
<1>2. ASSUME NEW r \in Request, Handle(r)
      PROVE  TypeOK'
  <2> USE DEF Arrives, Refuse, Idle, controlVars, history
  <2>1. CASE RefuseMine(r)
    BY <2>1 DEF RefuseMine
  <2>2. CASE BeginMine(r)
    BY <2>2 DEF BeginMine
  <2>3. CASE Store(r)
    <3>1. req[r].of \in Loop \cup {None}
      OBVIOUS
    <3> QED BY <2>3, <3>1 DEF Store
  <2>4. CASE Launch(r)
    BY <2>4 DEF Launch
  <2>5. CASE RefuseStop(r)
    BY <2>5 DEF RefuseStop
  <2>6. CASE BeginStop(r)
    BY <2>6 DEF BeginStop
  <2>7. CASE Cancel(r)
    BY <2>7 DEF Cancel
  <2>8. CASE CancelNil(r)
    BY <2>8 DEF CancelNil
  <2>9. CASE Clear(r)
    BY <2>9 DEF Clear
  <2> QED
    BY <1>2, <2>1, <2>2, <2>3, <2>4, <2>5, <2>6, <2>7, <2>8, <2>9 DEF Handle
<1>3. ASSUME NEW l \in Loop, GetTransaction(l) \/ Run(l)
      PROVE  TypeOK'
  <2> USE DEF Goes, controlVars, history
  <2>1. CASE Top(l)
    BY <2>1 DEF Top
  <2>2. CASE GetTransaction(l) \/ Overtaken(l) \/ NoBlock(l)
    BY <2>2 DEF GetTransaction, Overtaken, NoBlock
  <2>3. CASE MineBlock(l)
    BY <2>3 DEF MineBlock
  <2>4. CASE OwnStop(l)
    BY <2>4 DEF OwnStop
  <2>5. CASE OwnCancel(l)
    BY <2>5 DEF OwnCancel
  <2>6. CASE OwnCancelNil(l)
    BY <2>6 DEF OwnCancelNil
  <2>7. CASE OwnClear(l)
    BY <2>7 DEF OwnClear
  <2>8. CASE ResetMining(l)
    BY <2>8 DEF ResetMining
  <2>9. CASE ResetCancel(l)
    BY <2>9 DEF ResetCancel
  <2> QED
    BY <1>3, <2>1, <2>2, <2>3, <2>4, <2>5, <2>6, <2>7, <2>8, <2>9 DEF Run
<1> QED
  BY <1>1, <1>2, <1>3 DEF Next

(* Every step of MineBlocks, StopMining and the loops keeps the types.     *)
THEOREM ControlTypeCorrect == Spec => []TypeOK
  BY TypeInit, TypeStep, PTL DEF Spec

-----------------------------------------------------------------------------
(* A loop that has mined its late block is not at work any more, and does  *)
(* not get back to work: it looks at its context first.                    *)
SpentItsBlock(l) == /\ late[l] = 1 /\ l \in cancelled
                    /\ loop[l] \notin {"unused", "wait", "work"}

LateInv == \A l \in Loop : late[l] = 0 \/ SpentItsBlock(l)

LEMMA LateStep == TypeOK /\ LateInv /\ [Next]_vars => LateInv'
<1> SUFFICES ASSUME TypeOK, LateInv, [Next]_vars
             PROVE  LateInv'
  OBVIOUS
<1> USE DEF TypeOK, LateInv, SpentItsBlock
<1>1. CASE UNCHANGED vars
  BY <1>1 DEF vars, controlVars, history
<1>2. ASSUME NEW r \in Request, Handle(r)
      PROVE  LateInv'
  <2>1. UNCHANGED late /\ cancelled \subseteq cancelled'
    BY <1>2 DEF Handle, RefuseMine, BeginMine, Store, Launch, RefuseStop, BeginStop,
                Cancel, CancelNil, Clear, Refuse, Arrives, controlVars, history
  <2>2. ASSUME NEW l \in Loop
        PROVE  loop'[l] \in {loop[l], "top"}
    BY <1>2 DEF Handle, RefuseMine, BeginMine, Store, Launch, RefuseStop, BeginStop,
                Cancel, CancelNil, Clear, Refuse, Arrives, controlVars, history
  <2> QED
    BY <2>1, <2>2
<1>3. ASSUME NEW l \in Loop, GetTransaction(l) \/ Run(l)
      PROVE  LateInv'
  <2> USE DEF Goes, controlVars, history
  <2>1. CASE Top(l)
    BY <2>1 DEF Top
  <2>2. CASE MineBlock(l)
    BY <2>2 DEF MineBlock
  <2>3. CASE \/ GetTransaction(l) \/ Overtaken(l) \/ NoBlock(l)
             \/ OwnStop(l) \/ OwnCancel(l) \/ OwnCancelNil(l) \/ OwnClear(l) \/ ResetMining(l) \/ ResetCancel(l)
    BY <2>3 DEF GetTransaction, Overtaken, NoBlock, OwnStop, OwnCancel, OwnCancelNil,
                OwnClear, ResetMining, ResetCancel
  <2> QED
    BY <1>3, <2>1, <2>2, <2>3 DEF Run
<1> QED
  BY <1>1, <1>2, <1>3 DEF Next

(* However the starts, stops and deferred resets of any number of loops    *)
(* interleave, a loop mines at most one block after its cancellation.      *)
THEOREM AtMostOneLateBlock == Spec => []LateBlockOnce
<1>1. Init => LateInv
  BY ControlAssumption DEF Init, LateInv
<1>2. LateInv => LateBlockOnce
  BY DEF LateInv, LateBlockOnce, SpentItsBlock
<1> QED
  BY <1>1, <1>2, LateStep, ControlTypeCorrect, PTL DEF Spec

-----------------------------------------------------------------------------
(***************************************************************************)
(* One loop at a time, as long as every request waits for the earlier ones *)
(* to take effect.  The flag and the cancelFunc are written by requests    *)
(* and by loops, so it takes to say which of them each belongs to.         *)
(***************************************************************************)

(* There is at most one loop, and at most one request on its way.          *)
Alone ==
  /\ \A l, k \in Loop : Alive(l) /\ Alive(k) => l = k
  /\ \A q, r \in Request : req[q] # Idle /\ req[r] # Idle => q = r

(* A request that starts a loop finds none, and one that has cancelled     *)
(* leaves no loop that is not cancelled.                                   *)
RequestsInTurn ==
  \A r \in Request :
     /\ req[r].pc \in {"store", "launch"} =>
          /\ req[r].of \in Loop /\ loop[req[r].of] = "unused"
          /\ \A l \in Loop : ~ Alive(l)
     /\ req[r].pc = "launch" => cancelFunc = req[r].of
     /\ req[r].pc = "clear" => \A l \in Loop : Alive(l) => l \in cancelled

(* The cancelFunc is that of the loop there is, or is about to be.         *)
CancelFuncOwned ==
  /\ \A l \in Loop : Alive(l) => cancelFunc = l
  /\ cancelFunc # None =>
       \/ Alive(cancelFunc)
       \/ \E r \in Request : req[r].pc = "launch"
  /\ \A l \in Loop : loop[l] = "unused" => l \notin cancelled

(* The flag is set by a loop that has not come to its reset; if that loop  *)
(* is cancelled and does not know, a request is about to take it back.     *)
FlagOwned ==
  /\ mining => \E l \in Loop :
       /\ Alive(l) /\ loop[l] # "forget"
       /\ l \in cancelled /\ loop[l] \in {"top", "wait", "work"} =>
            \E r \in Request : req[r].pc = "clear"
  /\ \A l \in Loop : loop[l] \in {"top", "wait", "work"} /\ l \notin cancelled => mining

TurnInv ==
  ~ overlap => up /\ Alone /\ RequestsInTurn /\ CancelFuncOwned /\ FlagOwned

LEMMA InitTurn == Init => TurnInv
<1> SUFFICES ASSUME Init PROVE TurnInv
  OBVIOUS
<1>1. \A l \in Loop : Alive(l) <=> l = First
  BY DEF Init, Alive
<1>2. \A r \in Request : req[r] = Idle /\ req[r].pc = "idle"
  BY DEF Init, Idle
<1> QED
  BY <1>1, <1>2, ControlAssumption
     DEF Init, TurnInv, Alone, RequestsInTurn, CancelFuncOwned, FlagOwned

(* What a request finds when it does not overlap with anything.            *)
LEMMA ArrivesAlone ==
  ASSUME TypeOK, TurnInv, NEW r \in Request, Arrives(r), ~ overlap'
  PROVE  /\ up /\ Alone /\ CancelFuncOwned /\ FlagOwned
         /\ \A q \in Request : req[q] = Idle /\ req[q].pc = "idle"
         /\ \A l \in Loop : Alive(l) => l \notin cancelled /\ loop[l] \in {"top", "wait", "work"}
         /\ mining <=> \E l \in Loop : Alive(l)
<1>1. /\ ~ overlap
      /\ \A q \in Request : req[q] = Idle
      /\ \A l \in Loop : ~ Ending(l)
  BY DEF Arrives
<1>2. up /\ Alone /\ CancelFuncOwned /\ FlagOwned
  BY <1>1 DEF TurnInv
<1>3. \A q \in Request : req[q].pc = "idle"
  BY <1>1 DEF Idle
<1>4. \A l \in Loop : Alive(l) => l \notin cancelled /\ loop[l] \in {"top", "wait", "work"}
  BY <1>1 DEF Ending
<1>5. mining <=> \E l \in Loop : Alive(l)
  BY <1>2, <1>4 DEF FlagOwned
<1> QED
  BY <1>1, <1>2, <1>3, <1>4, <1>5

LEMMA RequestTurn ==
  ASSUME TypeOK, TurnInv, NEW r \in Request, Handle(r)
  PROVE  TurnInv'
<1> SUFFICES ASSUME ~ overlap'
             PROVE  (up /\ Alone /\ RequestsInTurn /\ CancelFuncOwned /\ FlagOwned)'
  BY DEF TurnInv
<1>1. ~ overlap /\ up /\ Alone /\ RequestsInTurn /\ CancelFuncOwned /\ FlagOwned
  <2>1. ~ overlap
    BY DEF Handle, RefuseMine, BeginMine, Store, Launch, RefuseStop, BeginStop, Cancel,
           CancelNil, Clear, Refuse, Arrives, history
  <2> QED
    BY <2>1 DEF TurnInv
<1> USE DEF Alone, RequestsInTurn, CancelFuncOwned, FlagOwned, Alive, Idle, controlVars, history
<1>2. CASE RefuseMine(r) \/ RefuseStop(r)
  <2>1. UNCHANGED <<mining, cancelFunc, loop, cancelled, up, req>>
    BY <1>2 DEF RefuseMine, RefuseStop, Refuse, Arrives
  <2> QED
    BY <1>1, <2>1
<1>3. CASE BeginMine(r)
  <2>1. /\ Arrives(r) /\ ~ mining
        /\ UNCHANGED <<controlVars, loop, cancelled, up>>
    BY <1>3 DEF BeginMine, Arrives
  <2>2. PICK l \in Loop :
          /\ loop[l] = "unused"
          /\ req' = [req EXCEPT ![r] = [pc |-> "store", of |-> l]]
    BY <1>3 DEF BeginMine
  <2>3. /\ \A q \in Request : req[q] = Idle /\ req[q].pc = "idle"
        /\ \A k \in Loop : ~ Alive(k)
    BY <2>1, ArrivesAlone
  <2>4. \A q \in Request : req'[q] = IF q = r THEN [pc |-> "store", of |-> l] ELSE Idle
    BY <2>2, <2>3 DEF TypeOK
  <2> QED
    BY <1>1, <2>1, <2>2, <2>3, <2>4
<1>4. CASE BeginStop(r)
  <2>1. /\ Arrives(r)
        /\ req' = [req EXCEPT ![r] = [pc |-> "cancel", of |-> None]]
        /\ UNCHANGED <<controlVars, loop, cancelled, up>>
    BY <1>4 DEF BeginStop, Arrives
  <2>2. \A q \in Request : req[q] = Idle /\ req[q].pc = "idle"
    BY <2>1, ArrivesAlone
  <2>3. \A l \in Loop : Alive(l) => l \notin cancelled
    BY <2>1, ArrivesAlone
  <2>4. \A q \in Request : req'[q] = IF q = r THEN [pc |-> "cancel", of |-> None] ELSE Idle
    BY <2>1, <2>2 DEF TypeOK
  <2> QED
    BY <1>1, <2>1, <2>2, <2>3, <2>4
<1>5. CASE Store(r)
  <2>1. /\ req[r].pc = "store" /\ cancelFunc' = req[r].of
        /\ req' = [req EXCEPT ![r].pc = "launch"]
        /\ UNCHANGED <<mining, loop, cancelled, up>>
    BY <1>5 DEF Store
  <2>2. \A q \in Request : q # r => req[q] = Idle
    BY <1>1, <2>1
  <2>3. \A q \in Request : req'[q] = IF q = r THEN [pc |-> "launch", of |-> req[r].of] ELSE Idle
    BY <2>1, <2>2 DEF TypeOK
  <2> QED
    BY <1>1, <2>1, <2>2, <2>3
<1>6. CASE Launch(r)
  <2> DEFINE l == req[r].of
  <2>1. /\ req[r].pc = "launch" /\ mining' = TRUE
        /\ loop' = [loop EXCEPT ![l] = "top"]
        /\ req' = [req EXCEPT ![r] = Idle]
        /\ UNCHANGED <<cancelFunc, cancelled, up>>
    BY <1>6 DEF Launch
  <2>2. \A q \in Request : q # r => req[q] = Idle
    BY <1>1, <2>1
  <2>3. \A q \in Request : req'[q] = Idle /\ req'[q].pc = "idle"
    BY <2>1, <2>2 DEF TypeOK
  <2>4. l \in Loop /\ loop[l] = "unused" /\ l \notin cancelled /\ cancelFunc = l
    BY <1>1, <2>1
  <2>5. \A k \in Loop : ~ Alive(k)
    BY <1>1, <2>1
  <2>6. \A k \in Loop : loop'[k] = IF k = l THEN "top" ELSE loop[k]
    BY <2>1, <2>4 DEF TypeOK
  <2> QED
    BY <1>1, <2>1, <2>3, <2>4, <2>5, <2>6
<1>7. CASE Cancel(r)
  <2>1. /\ req[r].pc = "cancel" /\ cancelFunc # None
        /\ cancelled' = cancelled \cup {cancelFunc}
        /\ req' = [req EXCEPT ![r].pc = "clear"]
        /\ UNCHANGED <<controlVars, loop, up>>
    BY <1>7 DEF Cancel
  <2>2. \A q \in Request : q # r => req[q] = Idle
    BY <1>1, <2>1
  <2>3. \A q \in Request : req'[q] = IF q = r THEN [pc |-> "clear", of |-> req[r].of] ELSE Idle
    BY <2>1, <2>2 DEF TypeOK
  <2>4. Alive(cancelFunc)
    BY <1>1, <2>1, <2>2
  <2> QED
    BY <1>1, <2>1, <2>2, <2>3, <2>4
<1>8. CASE CancelNil(r)
  <2>1. /\ req[r].pc = "cancel" /\ cancelFunc = None
        /\ req' = [req EXCEPT ![r] = Idle]
        /\ UNCHANGED <<controlVars, loop, cancelled, up>>
    BY <1>8 DEF CancelNil
  <2>2. \A q \in Request : q # r => req[q] = Idle
    BY <1>1, <2>1
  <2>3. \A q \in Request : req'[q] = Idle
    BY <2>1, <2>2 DEF TypeOK
  <2> QED
    BY <1>1, <2>1, <2>2, <2>3, ControlAssumption
<1>9. CASE Clear(r)
  <2>1. /\ req[r].pc = "clear" /\ mining' = FALSE
        /\ req' = [req EXCEPT ![r] = Idle]
        /\ UNCHANGED <<cancelFunc, loop, cancelled, up>>
    BY <1>9 DEF Clear
  <2>2. \A q \in Request : q # r => req[q] = Idle
    BY <1>1, <2>1
  <2>3. \A q \in Request : req'[q] = Idle
    BY <2>1, <2>2 DEF TypeOK
  <2> QED
    BY <1>1, <2>1, <2>2, <2>3
<1> QED
  BY <1>2, <1>3, <1>4, <1>5, <1>6, <1>7, <1>8, <1>9 DEF Handle

LEMMA LoopTurn ==
  ASSUME TypeOK, TurnInv, NEW l \in Loop, GetTransaction(l) \/ Run(l)
  PROVE  TurnInv'
<1> SUFFICES ASSUME ~ overlap'
             PROVE  (up /\ Alone /\ RequestsInTurn /\ CancelFuncOwned /\ FlagOwned)'
  BY DEF TurnInv
<1>1. /\ ~ overlap /\ up /\ Alone /\ RequestsInTurn /\ CancelFuncOwned /\ FlagOwned
      /\ UNCHANGED req
  BY DEF Run, Top, GetTransaction, Overtaken, NoBlock, MineBlock,
         OwnStop, OwnCancel, OwnCancelNil, OwnClear,
         ResetMining, ResetCancel, Goes, history, TurnInv
<1>2. Alive(l) /\ cancelFunc = l
  BY <1>1 DEF Run, Top, GetTransaction, Overtaken, NoBlock, MineBlock,
              OwnStop, OwnCancel, OwnCancelNil, OwnClear,
              ResetMining, ResetCancel, Alive, CancelFuncOwned
<1>3. /\ \A k \in Loop : Alive(k) => k = l
      /\ \A r \in Request : req[r].pc \notin {"store", "launch"}
  BY <1>1, <1>2 DEF Alone, RequestsInTurn
<1>4. ~ OwnCancelNil(l)
  BY <1>2, ControlAssumption DEF OwnCancelNil
<1>5. /\ up' = up
      /\ \A k \in Loop : k # l => loop'[k] = loop[k]
      /\ loop'[l] \notin {"unused"}
      /\ cancelled \subseteq cancelled' /\ cancelled' \subseteq cancelled \cup {l}
      /\ cancelFunc' = IF loop'[l] = "done" THEN None ELSE l
  BY <1>2, <1>4 DEF Run, Top, GetTransaction, Overtaken, NoBlock, MineBlock,
              OwnStop, OwnCancel, OwnClear,
              ResetMining, ResetCancel, Goes, controlVars, Alive, TypeOK
<1>6. \A k \in Loop : Alive(k)' => k = l
  BY <1>3, <1>5 DEF Alive
<1>7. Alone'
  BY <1>1, <1>6 DEF Alone, Idle
<1>8. RequestsInTurn'
  BY <1>1, <1>2, <1>3, <1>5, <1>6 DEF RequestsInTurn
<1>9. CancelFuncOwned'
  BY <1>1, <1>5, <1>6 DEF CancelFuncOwned, Alive
<1>10. FlagOwned'
  <2> USE DEF FlagOwned, Goes, controlVars, Alive, TypeOK
  <2>1. CASE Top(l)
    BY <1>1, <1>2, <1>3, <2>1 DEF Top
  <2>2. CASE GetTransaction(l) \/ Overtaken(l) \/ NoBlock(l)
    <3>1. /\ loop[l] \in {"wait", "work"} /\ loop'[l] \in {"top", "wait", "work"}
          /\ UNCHANGED <<mining, cancelled, req>>
      BY <1>1, <2>2 DEF GetTransaction, Overtaken, NoBlock
    <3> QED
      BY <1>1, <1>3, <1>5, <3>1
  <2>3. CASE MineBlock(l)
    BY <1>1, <1>2, <1>3, <2>3 DEF MineBlock
  <2>4. CASE OwnStop(l)
    BY <1>1, <1>2, <1>3, <2>4 DEF OwnStop
  <2>5. CASE OwnCancel(l)
    BY <1>1, <1>2, <1>3, <2>5 DEF OwnCancel
  <2>6. CASE OwnClear(l)
    BY <1>1, <1>2, <1>3, <2>6 DEF OwnClear
  <2>7. CASE ResetMining(l)
    BY <1>1, <1>2, <1>3, <2>7 DEF ResetMining
  <2>8. CASE ResetCancel(l)
    BY <1>1, <1>2, <1>3, <2>8 DEF ResetCancel
  <2> QED
    BY <1>4, <2>1, <2>2, <2>3, <2>4, <2>5, <2>6, <2>7, <2>8 DEF Run
<1> QED
  BY <1>1, <1>5, <1>7, <1>8, <1>9, <1>10

LEMMA TurnStep == TypeOK /\ TurnInv /\ [Next]_vars => TurnInv'
<1> SUFFICES ASSUME TypeOK, TurnInv, [Next]_vars
             PROVE  TurnInv'
  OBVIOUS
<1>1. CASE UNCHANGED vars
  BY <1>1 DEF vars, controlVars, history, TurnInv, Alone, RequestsInTurn, CancelFuncOwned,
              FlagOwned, Alive
<1> QED
  BY <1>1, RequestTurn, LoopTurn DEF Next

(* For any number of loops, requests and modes: as long as requests wait   *)
(* for one another and for the loop they stopped, there is one loop, the   *)
(* flag tells whether somebody mines, and no nil function is called.       *)
THEOREM SoundWhenInTurn == Spec => []SoundInTurn
<1>1. TurnInv => SoundInTurn
  <2> SUFFICES ASSUME TurnInv, ~ overlap
               PROVE  OneLoop /\ FlagTells /\ up
    BY DEF SoundInTurn
  <2>1. up /\ Alone /\ FlagOwned
    BY DEF TurnInv
  <2>2. OneLoop
    <3>1. CASE \E l \in Loop : Alive(l)
      <4>1. PICK l \in Loop : {k \in Loop : Alive(k)} = {l}
        BY <2>1, <3>1 DEF Alone
      <4> QED
        BY <4>1, FS_Singleton DEF OneLoop
    <3>2. CASE ~ \E l \in Loop : Alive(l)
      <4>1. {k \in Loop : Alive(k)} = {}
        BY <3>2
      <4> QED
        BY <4>1, FS_EmptySet DEF OneLoop
    <3> QED
      BY <3>1, <3>2
  <2>3. FlagTells
    BY <2>1 DEF FlagTells, FlagOwned, Alive, Idle
  <2> QED
    BY <2>1, <2>2, <2>3
<1> QED
  BY <1>1, InitTurn, TurnStep, ControlTypeCorrect, PTL DEF Spec
=============================================================================
