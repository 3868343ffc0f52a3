--------------------------- MODULE DirectRunProofs ---------------------------
(***************************************************************************)
(* Theorems about DirectRun, for every set of runs and signatures and      *)
(* every value of the limits.                                              *)
(***************************************************************************)
EXTENDS DirectRun, BrokerProofs

LEMMA BatchesAreSequences == Batches \subseteq Seq(Sigs)
BY ModelLimitAssumption DEF Batches

LEMMA FinishType ==
  ASSUME NEW r \in Runs, NEW st \in Status, Finish(r, st),
         pc \in [Runs -> Pc], status \in [Runs -> Status]
  PROVE  pc' \in [Runs -> Pc] /\ status' \in [Runs -> Status]
BY DEF Finish, Goto, Pc

\* A step of the loop outside the broker keeps the types.
LEMMA LoopType ==
  ASSUME TypeOK, NEW r \in Runs,
         \/ BeginTurn(r) \/ RefuseRequest(r) \/ SendRequest(r) \/ ProviderStopped(r)
         \/ TurnOver(r) \/ ProviderStep(r)
  PROVE  TypeOK'
<1> USE DEF TypeOK
<1>1. UNCHANGED <<usage, seen, effects, stop, phase, call, err, before, holder, starts, confirmed>>
  BY DEF BeginTurn, RefuseRequest, SendRequest, ProviderStopped, TurnOver, ProviderStep,
     ProviderRetries, ProviderFails, AnswerTooLarge, AnswerFinal, AnswerEmpty, AnswerInvalid,
     AnswerCalls, OutOfBroker, ledgerVars, slotVars, historyVars
<1>2. ASSUME status' \in [Runs -> Status] PROVE BrokerTypeOK'
  BY <1>1, <1>2 DEF BrokerTypeOK
<1>3. status \in [Runs -> Status] /\ Pc = Pc
  BY DEF BrokerTypeOK
<1>4. CASE BeginTurn(r)
  <2>1. status' \in [Runs -> Status] /\ pc' \in [Runs -> Pc]
    BY <1>3, <1>4, FinishType, ErrorStatusType DEF BeginTurn, Goto, Pc
  <2>2. retries' \in [Runs -> Nat]
    <3>1. \/ retries' = retries
          \/ retries' = [retries EXCEPT ![r] = 0]
      BY <1>4, Zenon DEF BeginTurn
    <3>2. CASE retries' = retries
      BY <3>2
    <3>3. CASE retries' = [retries EXCEPT ![r] = 0]
      BY <3>3
    <3> QED BY <3>1, <3>2, <3>3
  <2>3. UNCHANGED <<modelCalls, repairs, queue>>
    BY <1>4 DEF BeginTurn
  <2>4. BrokerTypeOK'
    BY <1>2, <2>1
  <2> QED BY <2>1, <2>2, <2>3, <2>4
<1>5. CASE RefuseRequest(r)
  BY <1>2, <1>3, <1>5, FinishType, ErrorStatusType DEF RefuseRequest, Status
<1>6. CASE SendRequest(r)
  BY <1>2, <1>3, <1>6 DEF SendRequest, Goto, Pc
<1>7. CASE ProviderStopped(r)
  BY <1>2, <1>3, <1>7, FinishType, ErrorStatusType DEF ProviderStopped
<1>8. CASE TurnOver(r)
  BY <1>2, <1>3, <1>8 DEF TurnOver, Goto, Pc
<1>9. CASE ProviderRetries(r)
  BY <1>2, <1>3, <1>9 DEF ProviderRetries, Goto, Pc
<1>10. CASE AnswerEmpty(r)
  BY <1>2, <1>3, <1>10, FinishType DEF AnswerEmpty, Status
<1>18. CASE ProviderFails(r)
  <2>1. PICK e \in PartyErrors \cup {"tool", "timedOut"} : Finish(r, ErrorStatus(e))
    BY <1>18 DEF ProviderFails
  <2>2. UNCHANGED <<modelCalls, retries, repairs, queue>> /\ OutOfBroker
    BY <1>18 DEF ProviderFails
  <2> QED BY <1>2, <1>3, <2>1, <2>2, FinishType, ErrorStatusType
<1>11. CASE AnswerTooLarge(r)
  BY <1>2, <1>3, <1>11, FinishType DEF AnswerTooLarge, Status
<1>12. CASE AnswerFinal(r)
  BY <1>2, <1>3, <1>12, FinishType DEF AnswerFinal, Status
<1>13. CASE AnswerInvalid(r)
  <2>1. status' \in [Runs -> Status] /\ pc' \in [Runs -> Pc]
    BY <1>3, <1>13, FinishType DEF AnswerInvalid, Status, Goto, Pc
  <2>2. repairs' \in [Runs -> Nat]
    <3>1. \/ repairs' = repairs
          \/ repairs' = [repairs EXCEPT ![r] = repairs[r] + 1]
      BY <1>13, Zenon DEF AnswerInvalid
    <3>2. CASE repairs' = repairs
      BY <3>2
    <3>3. CASE repairs' = [repairs EXCEPT ![r] = repairs[r] + 1]
      BY <3>3
    <3> QED BY <3>1, <3>2, <3>3
  <2>3. UNCHANGED <<modelCalls, retries, queue>>
    BY <1>13 DEF AnswerInvalid
  <2>4. BrokerTypeOK'
    BY <1>2, <2>1
  <2> QED BY <2>1, <2>2, <2>3, <2>4
<1>14. ASSUME NEW batch \in Batches, AnswerCalls(r, batch) PROVE TypeOK'
  <2>1. status' \in [Runs -> Status] /\ pc' \in [Runs -> Pc]
    BY <1>3, <1>14, FinishType DEF AnswerCalls, Status, Goto, Pc
  <2>2. queue' \in [Runs -> Seq(Sigs)]
    BY <1>14, BatchesAreSequences DEF AnswerCalls
  <2> QED BY <1>2, <1>14, <2>1, <2>2 DEF AnswerCalls
<1> QED
  BY <1>4, <1>5, <1>6, <1>7, <1>8, <1>9, <1>10, <1>11, <1>12, <1>13, <1>14, <1>18 DEF ProviderStep

\* A step that takes up, settles or abandons a call keeps the types.
LEMMA CallType ==
  ASSUME TypeOK, NEW r \in Runs,
         \/ TakeCall(r) \/ PushUnexecuted(r) \/ PushExecuted(r) \/ BreakOnLimit(r)
         \/ BreakOnPrepareError(r) \/ BreakOnExecuteError(r)
  PROVE  TypeOK'
<1> USE DirectAssumption DEF TypeOK
<1>1. CASE TakeCall(r)
  <2>1. Head(queue[r]) \in Sigs /\ Tail(queue[r]) \in Seq(Sigs)
    BY <1>1 DEF TakeCall
  <2>2. BrokerTypeOK'
    BY <1>1, <2>1, PrepareType DEF TakeCall
  <2> QED BY <1>1, <2>1, <2>2 DEF TakeCall
<1>2. ASSUME NEW st \in Status, Finish(r, st), queue' = [queue EXCEPT ![r] = << >>]
      PROVE  pc' \in [Runs -> Pc] /\ status' \in [Runs -> Status] /\ queue' \in [Runs -> Seq(Sigs)]
  <2>1. << >> \in Seq(Sigs)
    OBVIOUS
  <2>2. queue' \in [Runs -> Seq(Sigs)]
    BY <1>2, <2>1
  <2> QED BY <1>2, <2>2, FinishType DEF BrokerTypeOK
<1>3. ASSUME PushResult(r)
      PROVE  pc' \in [Runs -> Pc] /\ status' \in [Runs -> Status] /\ queue' \in [Runs -> Seq(Sigs)]
  BY <1>2, <1>3 DEF PushResult, Status, BrokerTypeOK
<1>4. ASSUME FreeSlot(r), usage' \in [Runs -> [Counters -> Nat]],
             effects' \in [Runs -> [Sigs -> Effect]], status' \in [Runs -> Status],
             UNCHANGED <<seen, stop, holder, starts, confirmed>>
      PROVE  BrokerTypeOK'
  BY <1>4, FreeSlotType DEF BrokerTypeOK
<1>5. CASE PushUnexecuted(r)
  BY <1>3, <1>4, <1>5 DEF PushUnexecuted, PushResult, ledgerVars, historyVars, BrokerTypeOK
<1>6. CASE PushExecuted(r)
  <2>1. usage' \in [Runs -> [Counters -> Nat]]
    BY <1>6, BumpType DEF PushExecuted, RecordExecution, BrokerTypeOK
  <2>2. effects' \in [Runs -> [Sigs -> Effect]]
    BY <1>6, EffectType DEF PushExecuted, RecordExecution, BrokerTypeOK, Effect
  <2> QED
    BY <1>3, <1>4, <1>6, <2>1, <2>2 DEF PushExecuted, PushResult, RecordExecution, historyVars
<1>7. CASE BreakOnLimit(r)
  <2>1. status[r] \in Status
    BY DEF BrokerTypeOK
  <2> QED
    BY <1>2, <1>4, <1>7, <2>1 DEF BreakOnLimit, Break, ledgerVars, historyVars, BrokerTypeOK
<1>8. CASE BreakOnPrepareError(r)
  <2>1. usage' \in [Runs -> [Counters -> Nat]]
    BY <1>8, BumpType DEF BreakOnPrepareError, RecordPreDispatchError, BrokerTypeOK
  <2> QED
    BY <1>2, <1>4, <1>8, <2>1, ErrorStatusType
       DEF BreakOnPrepareError, Break, RecordPreDispatchError, historyVars, BrokerTypeOK
<1>9. CASE BreakOnExecuteError(r)
  <2>1. usage' \in [Runs -> [Counters -> Nat]]
    BY <1>9, BumpType DEF BreakOnExecuteError, RecordExecutionError, BrokerTypeOK
  <2>2. effects' \in [Runs -> [Sigs -> Effect]]
    BY <1>9, EffectType DEF BreakOnExecuteError, RecordExecutionError, BrokerTypeOK, Effect
  <2> QED
    BY <1>2, <1>4, <1>9, <2>1, <2>2, ErrorStatusType
       DEF BreakOnExecuteError, Break, RecordExecutionError, historyVars
<1> QED
  BY <1>1, <1>5, <1>6, <1>7, <1>8, <1>9

(* The variables of every run keep their types, whatever the limits.       *)
THEOREM TypeCorrect == Safe => []TypeOK
<1>1. Init => TypeOK
  <2> SUFFICES ASSUME Init PROVE TypeOK
    OBVIOUS
  <2>1. BrokerTypeOK
    BY AnySigInSigs, DirectAssumption
       DEF Init, BrokerInit, BrokerTypeOK, Counters, Effect, Status, Phase, Errors
  <2> QED BY <2>1 DEF Init, TypeOK, Pc
<1>2. TypeOK /\ [Next]_vars => TypeOK'
  <2> SUFFICES ASSUME TypeOK, [Next]_vars PROVE TypeOK'
    OBVIOUS
  <2>1. CASE UNCHANGED vars
    BY <2>1 DEF vars, brokerVars, loopVars, TypeOK, BrokerTypeOK
  <2>2. ASSUME NEW r \in Runs, RunStep(r) \/ ProviderStep(r) \/ AnswerStep(r)
        PROVE  TypeOK'
    <3>1. CASE (SlotStep(r) \/ Answer(r)) /\ UNCHANGED loopVars
      BY <3>1, SlotType, DirectAssumption DEF TypeOK, loopVars
    <3> QED BY <2>2, <3>1, LoopType, CallType DEF RunStep, AnswerStep
  <2>3. ASSUME NEW r \in Runs, StopStep(r) PROVE TypeOK'
    BY <2>3 DEF StopStep, Cancel, Expire, loopVars, ledgerVars, slotVars, historyVars,
                TypeOK, BrokerTypeOK
  <2> QED BY <2>1, <2>2, <2>3 DEF Next
<1> QED BY <1>1, <1>2, PTL DEF Safe

-----------------------------------------------------------------------------
(* What a step of a run does to its one call.                              *)

RunMoves(r) == RunStep(r) \/ ProviderStep(r) \/ AnswerStep(r) \/ StopStep(r)

\* The call, if there is one, is not concerned.
LoopMove(r) ==
  /\ UNCHANGED <<ledgerVars, slotVars, holder, historyVars>>
  /\ pc[r] = "calls" /\ pc'[r] # "calls" => phase[r] = "idle"

CallMove(r) ==
  \/ LoopMove(r)
  \/ pc[r] = "calls" /\ UNCHANGED <<pc, modelCalls>> /\ \E s \in Sigs : PrepareMove(r, s)
  \/ UNCHANGED <<pc, modelCalls>> /\ SlotMove(r)
  \/ UNCHANGED modelCalls /\ RecordMove(r) /\ FreeSlot(r)

LEMMA RunMovesCall ==
  ASSUME TypeOK, NEW r \in Runs, RunMoves(r)
  PROVE  CallMove(r) /\ \A p \in Runs \ {r} : pc'[p] = pc[p]
<1> USE DirectAssumption
<1>0. pc \in [Runs -> Pc] /\ BrokerTypeOK /\ queue \in [Runs -> Seq(Sigs)]
  BY DEF TypeOK
<1>1. CASE \/ BeginTurn(r) \/ RefuseRequest(r) \/ SendRequest(r) \/ ProviderStopped(r)
           \/ TurnOver(r) \/ ProviderStep(r)
  <2>1. UNCHANGED <<ledgerVars, slotVars, holder, historyVars>>
    BY <1>1 DEF BeginTurn, RefuseRequest, SendRequest, ProviderStopped, TurnOver, ProviderStep,
       ProviderRetries, ProviderFails, AnswerTooLarge, AnswerFinal, AnswerEmpty, AnswerInvalid,
       AnswerCalls, OutOfBroker
  <2>2. pc[r] = "calls" => phase[r] = "idle"
    BY <1>1 DEF BeginTurn, RefuseRequest, SendRequest, ProviderStopped, TurnOver, ProviderStep,
       ProviderRetries, ProviderFails, AnswerTooLarge, AnswerFinal, AnswerEmpty, AnswerInvalid,
       AnswerCalls
  <2>3. \E l \in Pc : pc' = [pc EXCEPT ![r] = l]
    BY <1>1, Zenon DEF BeginTurn, RefuseRequest, SendRequest, ProviderStopped, TurnOver,
       ProviderStep, ProviderRetries, ProviderFails, AnswerTooLarge, AnswerFinal, AnswerEmpty,
       AnswerInvalid, AnswerCalls, Finish, Goto, Pc
  <2> QED BY <1>0, <2>1, <2>2, <2>3 DEF CallMove, LoopMove
<1>2. CASE TakeCall(r)
  <2>1. Head(queue[r]) \in Sigs
    BY <1>0, <1>2 DEF TakeCall
  <2>2. PrepareMove(r, Head(queue[r]))
    BY <1>0, <1>2, <2>1, PrepareMoves DEF TakeCall
  <2> QED BY <1>2, <2>1, <2>2 DEF TakeCall, CallMove
<1>3. ASSUME PushResult(r)
      PROVE  FreeSlot(r) /\ UNCHANGED modelCalls /\ \A p \in Runs \ {r} : pc'[p] = pc[p]
  <2>1. pc' = pc \/ pc' = [pc EXCEPT ![r] = "done"]
    BY <1>3, Zenon DEF PushResult, Finish, Goto
  <2> QED BY <1>0, <1>3, <2>1 DEF PushResult
<1>4. CASE PushUnexecuted(r) \/ PushExecuted(r)
  BY <1>3, <1>4 DEF PushUnexecuted, PushExecuted, CallMove, RecordMove
<1>5. CASE BreakOnLimit(r) \/ BreakOnPrepareError(r) \/ BreakOnExecuteError(r)
  BY <1>0, <1>5 DEF BreakOnLimit, BreakOnPrepareError, BreakOnExecuteError, Break, Finish, Goto,
     CallMove, RecordMove
<1>6. CASE (SlotStep(r) \/ Answer(r)) /\ UNCHANGED loopVars
  BY <1>0, <1>6, SlotMoves DEF CallMove, loopVars
<1>7. CASE StopStep(r)
  BY <1>7 DEF StopStep, Cancel, Expire, loopVars, CallMove, LoopMove
<1> QED
  BY <1>1, <1>2, <1>4, <1>5, <1>6, <1>7 DEF RunMoves, RunStep, AnswerStep

\* Nothing of another run is touched but the permits.
OwnRun(r) ==
  \A p \in Runs \ {r} :
    /\ usage'[p] = usage[p] /\ seen'[p] = seen[p] /\ effects'[p] = effects[p]
    /\ phase'[p] = phase[p] /\ call'[p] = call[p] /\ before'[p] = before[p]
    /\ starts'[p] = starts[p] /\ confirmed'[p] = confirmed[p]

LEMMA OnlyOwnRun ==
  ASSUME TypeOK, NEW r \in Runs, CallMove(r)
  PROVE  OwnRun(r)
<1> USE DirectAssumption DEF OwnRun
<1>1. BrokerTypeOK
  BY DEF TypeOK
<1>2. CASE LoopMove(r)
  BY <1>2 DEF LoopMove, ledgerVars, slotVars, historyVars
<1>3. ASSUME NEW s \in Sigs, PrepareMove(r, s) PROVE OwnRun(r)
  BY <1>1, <1>3, PrepareIsOwnRun DEF PrepareMove, OwnRunOnly
<1>4. CASE SlotMove(r)
  BY <1>1, <1>4, MoveIsOwnRun DEF SlotMove, OwnRunOnly
<1>5. CASE RecordMove(r) /\ FreeSlot(r)
  <2>1. \A p \in Runs \ {r} : phase'[p] = phase[p] /\ call'[p] = call[p] /\ before'[p] = before[p]
    BY <1>1, <1>5 DEF FreeSlot, BrokerTypeOK
  <2> QED BY <1>1, <1>5, <2>1, RecordIsOwnRun DEF OwnRunOnly
<1> QED BY <1>2, <1>3, <1>4, <1>5 DEF CallMove

\* What is true of a run by itself stays true when another one moves.
LEMMA FreeIsIdle ==
  ASSUME TypeOK, NEW r \in Runs, FreeSlot(r)
  PROVE  phase'[r] = "idle"
BY DirectAssumption DEF FreeSlot, TypeOK, BrokerTypeOK

-----------------------------------------------------------------------------
(* Classified once, settled once.                                          *)

LedgerAgrees(r) ==
  /\ pc[r] # "calls" => phase[r] = "idle"
  /\ CallLedger(r)

LedgerInv == \A r \in Runs : LedgerAgrees(r)

\* LedgerAgrees survives every step of its own run.
LEMMA LedgerStep ==
  ASSUME TypeOK, NEW r \in Runs, LedgerAgrees(r), RunMoves(r)
  PROVE  LedgerAgrees(r)'
<1> USE DirectAssumption DEF LedgerAgrees
<1>1. BrokerTypeOK /\ CallMove(r)
  BY RunMovesCall DEF TypeOK
<1>2. CASE LoopMove(r)
  BY <1>2 DEF LoopMove, CallLedger, ledgerVars, slotVars
<1>3. ASSUME NEW s \in Sigs, PrepareMove(r, s), pc[r] = "calls", UNCHANGED pc
      PROVE  LedgerAgrees(r)'
  BY <1>1, <1>3, PrepareKeepsLedger
<1>4. CASE SlotMove(r) /\ UNCHANGED pc
  <2>1. phase[r] # "idle"
    BY <1>4 DEF SlotMove, SlotAuthorizes, SlotDenied, SlotDispatches, SlotGivesUp, SlotWaits,
       SlotBegins, SlotGraces, SlotSucceeds, SlotFails, PrepPhases, AtTool
  <2> QED BY <1>1, <1>4, <2>1, MoveKeepsLedger
<1>5. CASE RecordMove(r) /\ FreeSlot(r)
  <2>1. Balanced(usage'[r])
    BY <1>1, <1>5, RecordBalances, ResolvedIsBalanced DEF RecordMove, ledgerVars
  <2>2. phase'[r] = "idle"
    BY <1>5, FreeIsIdle
  <2> QED BY <2>1, <2>2 DEF CallLedger, Balanced, Unclassified, Dispatched, PrepPhases, ExecPhases
<1> QED BY <1>1, <1>2, <1>3, <1>4, <1>5 DEF CallMove

(* Every admitted proposal is classified exactly once and every issued one *)
(* settled exactly once when the run is over: finalize_usage's assertions  *)
(* hold with nothing left for it to repair.                                *)
THEOREM EveryCallClassifiedOnce == Safe => []ClassifiedOnce
<1>1. Init => LedgerInv
  BY DirectAssumption DEF Init, BrokerInit, LedgerInv, LedgerAgrees, CallLedger, Unclassified,
     Dispatched, PrepPhases, ExecPhases, Classified, Settled, Counters
<1>2. TypeOK /\ LedgerInv /\ [Next]_vars => LedgerInv'
  <2> SUFFICES ASSUME TypeOK, LedgerInv, [Next]_vars, NEW p \in Runs PROVE LedgerAgrees(p)'
    BY DEF LedgerInv
  <2>1. LedgerAgrees(p)
    BY DEF LedgerInv
  <2>2. CASE UNCHANGED vars
    BY <2>1, <2>2 DEF LedgerAgrees, CallLedger, vars, brokerVars, loopVars
  <2>3. ASSUME NEW r \in Runs, RunMoves(r) PROVE LedgerAgrees(p)'
    <3>1. CASE p = r
      BY <2>1, <2>3, <3>1, LedgerStep
    <3>2. CASE p # r
      <4>1. usage'[p] = usage[p] /\ phase'[p] = phase[p] /\ before'[p] = before[p] /\ pc'[p] = pc[p]
        BY <2>3, <3>2, RunMovesCall, OnlyOwnRun DEF OwnRun
      <4> QED BY <2>1, <4>1, DirectAssumption DEF LedgerAgrees, CallLedger
    <3> QED BY <3>1, <3>2
  <2> QED BY <2>2, <2>3 DEF Next, RunMoves
<1>3. LedgerInv => ClassifiedOnce
  BY DirectAssumption DEF LedgerInv, LedgerAgrees, CallLedger, ClassifiedOnce, Unclassified,
     Dispatched, PrepPhases, ExecPhases
<1> QED BY <1>1, <1>2, <1>3, TypeCorrect, PTL DEF Safe

-----------------------------------------------------------------------------
(* Effects that happen at most once.                                       *)

EffectInv == \A r \in Reusing : \A s \in Sigs : Mutates(s) => EffectAgrees(r, s)

\* The effects of a run survive every step of its own.
LEMMA EffectStep ==
  ASSUME TypeOK, NEW r \in Reusing, NEW s \in Sigs, Mutates(s), EffectAgrees(r, s), RunMoves(r)
  PROVE  EffectAgrees(r, s)'
<1> USE DirectAssumption, ReusingAssumption
<1>1. BrokerTypeOK /\ CallMove(r) /\ r \in Slots /\ RunOf[r] = r
  BY RunMovesCall DEF TypeOK
<1>2. CASE LoopMove(r)
  BY <1>2 DEF LoopMove, EffectAgrees, EffectKnown, CallEffect, ledgerVars, slotVars, historyVars
<1>3. ASSUME NEW t \in Sigs, PrepareMove(r, t) PROVE EffectAgrees(r, s)'
  BY <1>1, <1>3, PrepareKeepsEffects
<1>4. CASE SlotMove(r)
  BY <1>1, <1>4, MoveKeepsEffects
<1>5. CASE RecordMove(r) /\ FreeSlot(r)
  BY <1>1, <1>5, FreeIsIdle, RecordKeepsEffects
<1> QED BY <1>1, <1>2, <1>3, <1>4, <1>5 DEF CallMove

\* The two sections below rest on this invariant.
THEOREM EffectsAgree == Safe => []EffectInv
<1>1. Init => EffectInv
  BY ReusingAssumption, DirectAssumption DEF Init, BrokerInit, EffectInv, EffectAgrees,
     EffectKnown, CallEffect, Unclassified, Dispatched, PrepPhases, ExecPhases, AtTool
<1>2. TypeOK /\ EffectInv /\ [Next]_vars => EffectInv'
  <2> SUFFICES ASSUME TypeOK, EffectInv, [Next]_vars,
                      NEW p \in Reusing, NEW s \in Sigs, Mutates(s)
               PROVE  EffectAgrees(p, s)'
    BY DEF EffectInv, Mutates
  <2>1. EffectAgrees(p, s) /\ p \in Runs
    BY ReusingAssumption DEF EffectInv
  <2>2. CASE UNCHANGED vars
    BY <2>1, <2>2 DEF EffectAgrees, EffectKnown, CallEffect, vars, brokerVars
  <2>3. ASSUME NEW r \in Runs, RunMoves(r) PROVE EffectAgrees(p, s)'
    <3>1. CASE p = r
      BY <2>1, <2>3, <3>1, EffectStep
    <3>2. CASE p # r
      <4>1. /\ effects'[p] = effects[p] /\ phase'[p] = phase[p] /\ call'[p] = call[p]
            /\ starts'[p] = starts[p] /\ confirmed'[p] = confirmed[p]
        BY <2>1, <2>3, <3>2, RunMovesCall, OnlyOwnRun DEF OwnRun
      <4> QED BY <2>1, <4>1, DirectAssumption DEF EffectAgrees, EffectKnown, CallEffect
    <3> QED BY <3>1, <3>2
  <2> QED BY <2>2, <2>3 DEF Next, RunMoves
<1> QED BY <1>1, <1>2, TypeCorrect, PTL DEF Safe

(* A run that reuses committed effects begins each state-changing          *)
(* signature at most once, for any number of runs, calls and limits.       *)
THEOREM EffectsHappenOnce == Safe => []EffectAtMostOnce
<1>1. EffectInv => EffectAtMostOnce
  BY DirectAssumption, ReusingAssumption DEF EffectInv, EffectAgrees, EffectKnown, EffectAtMostOnce
<1> QED BY <1>1, EffectsAgree, PTL

(* recovery_is_safe never says yes while a state-changing tool of the run  *)
(* is still running or has an unknown outcome.                             *)
THEOREM RecoveryOnlyWhenKnown == Safe => []RecoveryIsSound
<1>1. TypeOK /\ EffectInv => RecoveryIsSound
  <2> SUFFICES ASSUME TypeOK, EffectInv, NEW r \in Reusing, RecoveryIsSafe(r),
                      NEW s \in Sigs, Mutates(s)
               PROVE  starts[r][s] = confirmed[r][s]
    BY DEF RecoveryIsSound
  <2>1. EffectKnown(r, s)
    BY DirectAssumption, ReusingAssumption DEF EffectInv, EffectAgrees
  <2>2. confirmed[r][s] \in Nat /\ starts[r][s] \in Nat
    BY ReusingAssumption DEF TypeOK, BrokerTypeOK
  <2> QED BY <2>1, <2>2 DEF RecoveryIsSafe, EffectKnown
<1> QED BY <1>1, TypeCorrect, EffectsAgree, PTL

(* The ledger of a reusing run never misleads it, whatever fails, stops or  *)
(* comes too late: no effect is repeated beside a success, and no recovery  *)
(* begins beside an effect whose outcome is unknown.                        *)
THEOREM EffectsAreSound == Safe => []EffectsSound
BY EffectsHappenOnce, RecoveryOnlyWhenKnown, PTL DEF EffectsSound

-----------------------------------------------------------------------------
(* Keyed permits.                                                          *)

PermitsAgree == \A o \in Slots : CallPermit(o)

LEMMA PermitStep ==
  ASSUME TypeOK, PermitsAgree, NEW r \in Runs, RunMoves(r)
  PROVE  PermitsAgree'
<1> USE DirectAssumption
<1>1. BrokerTypeOK /\ CallMove(r) /\ OwnRun(r)
  BY RunMovesCall, OnlyOwnRun DEF TypeOK
<1>2. CASE UNCHANGED <<holder, phase, call>>
  BY <1>2 DEF PermitsAgree, CallPermit
<1>3. ASSUME UNCHANGED holder, phase[r] \notin AtTool, phase'[r] \notin AtTool \cup {"waiting"}
      PROVE  PermitsAgree'
  <2>1. CallPermit(r)'
    BY <1>3, IdleKeepsPermits DEF PermitsAgree
  <2>2. ASSUME NEW p \in Runs \ {r} PROVE CallPermit(p)'
    BY <1>1, <1>3 DEF PermitsAgree, CallPermit, OwnRun
  <2> QED BY <2>1, <2>2 DEF PermitsAgree
<1>4. ASSUME NEW s \in Sigs, PrepareMove(r, s) PROVE PermitsAgree'
  BY <1>3, <1>4 DEF PrepareMove, AdmittedCall, PrepareRefused, PrepareUnknown, PrepareResolved, AtTool
<1>5. CASE RecordMove(r) /\ FreeSlot(r)
  <2>1. phase'[r] = "idle"
    BY <1>5, FreeIsIdle
  <2>2. UNCHANGED holder /\ phase[r] \notin AtTool
    BY <1>5 DEF RecordMove, RecordPreDispatchError, RecordExecution, RecordExecutionError, AtTool
  <2> QED BY <1>3, <2>1, <2>2 DEF AtTool
<1>6. CASE SlotMove(r)
  BY <1>1, <1>6, MoveKeepsPermits, OthersKeepPermits DEF PermitsAgree
<1> QED BY <1>1, <1>2, <1>4, <1>5, <1>6 DEF CallMove, LoopMove, slotVars

\* The two theorems below rest on this invariant.
THEOREM PermitsAlwaysAgree == Safe => []PermitsAgree
<1>1. Init => PermitsAgree
  BY SlotAssumption DEF Init, BrokerInit, PermitsAgree, CallPermit, AtTool
<1>2. TypeOK /\ PermitsAgree /\ [Next]_vars => PermitsAgree'
  <2> SUFFICES ASSUME TypeOK, PermitsAgree, [Next]_vars PROVE PermitsAgree'
    OBVIOUS
  <2>1. CASE UNCHANGED vars
    BY <2>1 DEF PermitsAgree, CallPermit, vars, brokerVars
  <2>2. ASSUME NEW r \in Runs, RunMoves(r) PROVE PermitsAgree'
    BY <2>2, PermitStep
  <2> QED BY <2>1, <2>2 DEF Next, RunMoves
<1> QED BY <1>1, <1>2, TypeCorrect, PTL DEF Safe

(* Executions under one concurrency key never overlap, for any number of   *)
(* runs and keys.                                                          *)
THEOREM KeysExclude == Safe => []KeyExclusion
<1>1. PermitsAgree => KeyExclusion
  BY DEF PermitsAgree, CallPermit, KeyExclusion, Executing, AtTool
<1> QED BY <1>1, PermitsAlwaysAgree, PTL

(* No way out of execute keeps a permit.                                   *)
THEOREM PermitsDoNotLeak == Safe => []NoPermitLeak
<1>1. TypeOK /\ PermitsAgree => NoPermitLeak
  <2> SUFFICES ASSUME TypeOK, PermitsAgree, NEW k \in Keys, holder[k] # NoSlot
               PROVE  Executing(holder[k]) /\ KeyOf[call[holder[k]]] = k
    BY DEF NoPermitLeak
  <2>1. holder[k] \in Slots
    BY DEF TypeOK, BrokerTypeOK
  <2> QED BY <2>1 DEF PermitsAgree, CallPermit, Executing, AtTool
<1> QED BY <1>1, TypeCorrect, PermitsAlwaysAgree, PTL

(* For any number of runs and keys, the keyed permits of the limiter and    *)
(* the executing calls determine each other: no overlap and no leak.        *)
THEOREM PermitsAreSound == Safe => []PermitsSound
BY KeysExclude, PermitsDoNotLeak, PTL DEF PermitsSound

-----------------------------------------------------------------------------
(* Stopping, limits and the reported outcome.                              *)

\* Nothing but a call that begins, in a run that is live, starts a tool.
LEMMA OnlyLiveStarts ==
  ASSUME TypeOK, NEW r \in Runs, RunMoves(r), starts' # starts
  PROVE  SlotBegins(r)
<1>1. CallMove(r)
  BY RunMovesCall
<1> QED
  BY <1>1 DEF CallMove, LoopMove, PrepareMove, RecordMove, RecordPreDispatchError, RecordExecution,
     RecordExecutionError, SlotMove, SlotAuthorizes, SlotDenied, SlotDispatches, SlotGivesUp,
     SlotWaits, SlotGraces, SlotSucceeds, SlotFails, historyVars

(* Once a run is cancelled or expired, none of its tools starts any more,  *)
(* not even one that was waiting for a permit: execute checks the stop     *)
(* again once it holds it.                                                 *)
THEOREM StoppedRunsStartNothing == Safe => NoStartAfterStop
<1> DEFINE Quiet == \A r \in Runs : ~Live(r) => starts'[r] = starts[r]
<1>1. TypeOK /\ [Next]_vars => [Quiet]_vars
  <2> SUFFICES ASSUME TypeOK, NEW r \in Runs, RunMoves(r), NEW p \in Runs, ~Live(p)
               PROVE  starts'[p] = starts[p]
    BY DEF Next, RunMoves
  <2>1. CASE starts' = starts
    BY <2>1
  <2>2. CASE SlotBegins(r)
    BY <2>2, DirectAssumption DEF SlotBegins, TypeOK, BrokerTypeOK
  <2> QED BY <2>1, <2>2, OnlyLiveStarts
<1> QED BY <1>1, TypeCorrect, PTL DEF Safe, NoStartAfterStop

\* A run's counts stay within the limits, and so does each signature's: what
\* was started, and what prepare admitted and is yet to start, was all seen.
Pending == Unclassified \cup {"starting", "waiting"}

CountsAgree(r) ==
  /\ modelCalls[r] <= MaxModelCalls
  /\ usage[r]["calls"] <= MaxToolCalls
  /\ \A s \in Sigs :
       /\ starts[r][s] <= seen[r][s] /\ starts[r][s] <= MaxIdentical
       /\ call[r] = s /\ phase[r] \in Pending =>
            starts[r][s] + 1 <= seen[r][s] /\ starts[r][s] + 1 <= MaxIdentical

CountsInv == \A r \in Runs : CountsAgree(r)

\* The model-call budget is tested on every attempt.
LEMMA ModelCallsStep ==
  ASSUME TypeOK, NEW r \in Runs, RunMoves(r), NEW p \in Runs, modelCalls[p] <= MaxModelCalls
  PROVE  modelCalls'[p] <= MaxModelCalls
<1>0. modelCalls \in [Runs -> Nat] /\ MaxModelCalls \in Nat
  BY ModelLimitAssumption DEF TypeOK
<1>1. CASE SendRequest(r)
  BY <1>0, <1>1 DEF SendRequest
<1>2. CASE ~SendRequest(r)
  BY <1>2 DEF RunMoves, RunStep, ProviderStep, AnswerStep, StopStep, BeginTurn, RefuseRequest,
     ProviderStopped, TakeCall, TurnOver, PushUnexecuted, PushExecuted, BreakOnLimit,
     BreakOnPrepareError, BreakOnExecuteError, PushResult, Break, ProviderRetries, ProviderFails,
     AnswerTooLarge, AnswerFinal, AnswerEmpty, AnswerInvalid, AnswerCalls, loopVars
<1> QED BY <1>1, <1>2

LEMMA CountsStep ==
  ASSUME TypeOK, NEW r \in Runs, CountsAgree(r), RunMoves(r)
  PROVE  CountsAgree(r)'
<1> USE DirectAssumption DEF CountsAgree, Pending, Unclassified, PrepPhases
<1>1. /\ usage \in [Runs -> [Counters -> Nat]] /\ seen \in [Runs -> [Sigs -> Nat]]
      /\ starts \in [Runs -> [Sigs -> Nat]] /\ call \in [Runs -> Sigs]
      /\ BrokerTypeOK /\ CallMove(r) /\ RunOf[r] = r
  BY RunMovesCall DEF TypeOK, BrokerTypeOK
<1>2. /\ \A s \in Sigs : starts[r][s] \in Nat /\ seen[r][s] \in Nat
      /\ usage[r]["calls"] \in Nat /\ MaxToolCalls \in Nat /\ MaxIdentical \in Nat
  BY <1>1, LimitAssumption DEF Counters
<1>3. modelCalls'[r] <= MaxModelCalls
  BY ModelCallsStep
<1>4. CASE LoopMove(r)
  BY <1>3, <1>4 DEF LoopMove, ledgerVars, slotVars, historyVars
<1>5. ASSUME NEW t \in Sigs, PrepareMove(r, t) PROVE CountsAgree(r)'
  <2>1. starts' = starts /\ call'[r] = t
    BY <1>5 DEF PrepareMove, historyVars
  <2>2. usage'[r]["calls"] <= MaxToolCalls
    <3>1. CASE usage' = usage
      BY <3>1
    <3>2. CASE usage' # usage
      <4>1. usage[r]["calls"] < MaxToolCalls
        BY <1>1, <1>5, <3>2 DEF PrepareMove
      <4>2. usage'[r]["calls"] = usage[r]["calls"] + 1
        BY <1>1, <1>5, <3>2, BumpCounts
           DEF PrepareMove, AdmittedCall, PrepareRefused, PrepareUnknown, PrepareResolved, Counters
      <4> QED BY <1>2, <4>1, <4>2
    <3> QED BY <3>1, <3>2
  <2>3. CASE AdmittedCall(r, t)
    <3>1. /\ seen'[r][t] = seen[r][t] + 1 /\ seen[r][t] < MaxIdentical
          /\ \A s \in Sigs \ {t} : seen'[r][s] = seen[r][s]
      BY <1>1, <2>3 DEF AdmittedCall
    <3> QED BY <1>2, <1>3, <2>1, <2>2, <3>1
  <2>4. CASE ~AdmittedCall(r, t)
    <3>1. phase'[r] \notin Pending
      BY <1>5, <2>4 DEF PrepareMove, PrepareRefused, PrepareUnknown, PrepareResolved
    <3>2. \A s \in Sigs : seen'[r][s] = seen[r][s] \/ seen'[r][s] = seen[r][s] + 1
      BY <1>1, <1>5, <2>4 DEF PrepareMove
    <3> QED BY <1>2, <1>3, <2>1, <2>2, <3>1, <3>2
  <2> QED BY <2>3, <2>4
<1>6. ASSUME UNCHANGED <<seen, starts>>, call'[r] = call[r] \/ phase'[r] \notin Pending,
             phase'[r] \in Pending => phase[r] \in Pending,
             usage'[r]["calls"] = usage[r]["calls"]
      PROVE  CountsAgree(r)'
  BY <1>3, <1>6
<1>7. CASE RecordMove(r) /\ FreeSlot(r)
  <2>1. phase'[r] = "idle"
    BY <1>7, FreeIsIdle
  <2>2. UNCHANGED <<seen, starts>>
    BY <1>7 DEF RecordMove, RecordPreDispatchError, RecordExecution, RecordExecutionError,
       ledgerVars, historyVars
  <2>3. usage'[r]["calls"] = usage[r]["calls"]
    <3>1. \/ UNCHANGED usage
          \/ \E c \in {"aborted", "rejected", "completed", "failed", "cancelled"} : Bump(r, {c})
      BY <1>1, <1>7 DEF RecordMove, RecordPreDispatchError, RecordExecution, RecordExecutionError,
         ledgerVars
    <3> QED BY <1>1, <3>1, BumpCounts DEF Counters
  <2> QED BY <1>6, <2>1, <2>2, <2>3
<1>8. CASE SlotMove(r)
  <2>0. call' = call
    BY <1>8 DEF SlotMove
  <2>1. CASE SlotBegins(r)
    <3>1. /\ phase[r] \in {"starting", "waiting"} /\ phase'[r] = "running"
          /\ starts'[r][call[r]] = starts[r][call[r]] + 1
          /\ \A s \in Sigs \ {call[r]} : starts'[r][s] = starts[r][s]
          /\ UNCHANGED <<usage, seen>>
      BY <1>1, <2>1 DEF SlotBegins, ledgerVars
    <3> QED BY <1>2, <1>3, <2>0, <3>1
  <2>2. CASE SlotDenied(r) \/ SlotDispatches(r)
    <3>1. usage'[r]["calls"] = usage[r]["calls"]
      BY <1>1, <2>2, BumpCounts DEF SlotDenied, SlotDispatches, Counters
    <3> QED BY <1>6, <2>0, <2>2, <3>1 DEF SlotDenied, SlotDispatches, historyVars
  <2>3. CASE SlotAuthorizes(r) \/ SlotGivesUp(r) \/ SlotWaits(r) \/ SlotGraces(r)
             \/ SlotSucceeds(r) \/ SlotFails(r)
    BY <1>6, <2>0, <2>3 DEF SlotAuthorizes, SlotGivesUp, SlotWaits, SlotGraces, SlotSucceeds,
       SlotFails, AtTool, ledgerVars, historyVars
  <2> QED BY <1>8, <2>1, <2>2, <2>3 DEF SlotMove
<1> QED BY <1>1, <1>4, <1>5, <1>7, <1>8 DEF CallMove

(* The model-call, tool-call and identical-call limits hold together, over *)
(* retries, repairs and turns.                                             *)
THEOREM BudgetsHold == Safe => []Budgets
<1>1. Init => CountsInv
  BY DirectAssumption, LimitAssumption, ModelLimitAssumption
     DEF Init, BrokerInit, CountsInv, CountsAgree, Pending, Unclassified, PrepPhases, Counters
<1>2. TypeOK /\ CountsInv /\ [Next]_vars => CountsInv'
  <2> SUFFICES ASSUME TypeOK, CountsInv, [Next]_vars, NEW p \in Runs PROVE CountsAgree(p)'
    BY DEF CountsInv
  <2>1. CountsAgree(p)
    BY DEF CountsInv
  <2>2. CASE UNCHANGED vars
    BY <2>1, <2>2 DEF CountsAgree, vars, brokerVars, loopVars
  <2>3. ASSUME NEW r \in Runs, RunMoves(r) PROVE CountsAgree(p)'
    <3>1. CASE p = r
      BY <2>1, <2>3, <3>1, CountsStep
    <3>2. CASE p # r
      <4>1. /\ usage'[p] = usage[p] /\ seen'[p] = seen[p] /\ starts'[p] = starts[p]
            /\ phase'[p] = phase[p] /\ call'[p] = call[p]
        BY <2>3, <3>2, RunMovesCall, OnlyOwnRun DEF OwnRun
      <4>2. modelCalls'[p] <= MaxModelCalls
        BY <2>1, <2>3, ModelCallsStep DEF CountsAgree
      <4> QED BY <2>1, <4>1, <4>2 DEF CountsAgree
    <3> QED BY <3>1, <3>2
  <2> QED BY <2>2, <2>3 DEF Next, RunMoves
<1>3. CountsInv => Budgets
  BY DEF CountsInv, CountsAgree, Budgets
<1> QED BY <1>1, <1>2, <1>3, TypeCorrect, PTL DEF Safe

\* What a run's call, or the run itself, says of a cancellation is true.
Asked(r) == err[r] = "cancelled" \/ status[r] = "Cancelled" => stop[r] = "cancelled"

LEMMA AskedStep ==
  ASSUME TypeOK, "cancelled" \notin PartyErrors, \A p \in Runs : Asked(p),
         NEW r \in Runs, RunMoves(r), NEW p \in Runs
  PROVE  Asked(p)'
<1> USE DirectAssumption DEF Asked
<1>0. /\ err \in [Runs -> Errors] /\ status \in [Runs -> Status] /\ BrokerTypeOK
      /\ stop \in [Runs -> {"live", "expired", "cancelled"}] /\ RunOf[r] = r
  BY DEF TypeOK, BrokerTypeOK
<1>1. Asked(p)
  OBVIOUS
\* A status taken from an error that is truly a cancellation, if it is one.
<1>2. ASSUME NEW e, e = "cancelled" => stop[r] = "cancelled",
             status' = [status EXCEPT ![r] = ErrorStatus(e)]
      PROVE  status'[p] = "Cancelled" => stop[p] = "cancelled"
  BY <1>0, <1>1, <1>2, OnlyCancelledCancels
<1>3. StopError(r) = "cancelled" => stop[r] = "cancelled"
  BY DEF StopError
<1>4. ASSUME NEW st \in {"Failed", "Completed", "LimitReached"},
             status' = [status EXCEPT ![r] = st]
      PROVE  status'[p] = "Cancelled" => stop[p] = "cancelled"
  BY <1>0, <1>1, <1>4
<1>5. CASE \/ BeginTurn(r) \/ RefuseRequest(r) \/ SendRequest(r) \/ ProviderStopped(r)
           \/ TurnOver(r) \/ ProviderStep(r)
  <2>1. UNCHANGED <<err, stop>>
    BY <1>5 DEF BeginTurn, RefuseRequest, SendRequest, ProviderStopped, TurnOver, ProviderStep,
       ProviderRetries, ProviderFails, AnswerTooLarge, AnswerFinal, AnswerEmpty, AnswerInvalid,
       AnswerCalls, OutOfBroker, slotVars
  <2>2. \/ UNCHANGED status
        \/ status' = [status EXCEPT ![r] = ErrorStatus(StopError(r))]
        \/ \E e \in PartyErrors \cup {"tool", "timedOut"} :
             status' = [status EXCEPT ![r] = ErrorStatus(e)]
        \/ \E st \in {"Failed", "Completed", "LimitReached"} : status' = [status EXCEPT ![r] = st]
    BY <1>5, Zenon DEF BeginTurn, RefuseRequest, SendRequest, ProviderStopped, TurnOver,
       ProviderStep, ProviderRetries, ProviderFails, AnswerTooLarge, AnswerFinal, AnswerEmpty,
       AnswerInvalid, AnswerCalls, Finish
  <2> QED BY <1>1, <1>2, <1>3, <1>4, <2>1, <2>2
<1>6. CASE TakeCall(r)
  <2>1. Head(queue[r]) \in Sigs
    BY <1>6 DEF TakeCall, TypeOK
  <2>2. PrepareMove(r, Head(queue[r]))
    BY <1>0, <1>6, <2>1, PrepareMoves DEF TakeCall
  <2> QED BY <1>0, <1>1, <1>3, <1>4, <2>2 DEF PrepareMove, ErrorSources
<1>7. CASE (SlotStep(r) \/ Answer(r)) /\ UNCHANGED loopVars
  <2>1. SlotMove(r)
    BY <1>0, <1>7, SlotMoves
  <2> QED BY <1>0, <1>1, <1>3, <2>1 DEF SlotMove, ErrorSources
<1>8. ASSUME FreeSlot(r), UNCHANGED stop, status'[p] = "Cancelled" => stop[p] = "cancelled"
      PROVE  Asked(p)'
  BY <1>0, <1>1, <1>8 DEF FreeSlot
<1>9. CASE PushUnexecuted(r) \/ PushExecuted(r)
  <2>1. /\ UNCHANGED stop /\ FreeSlot(r)
        /\ UNCHANGED status \/ status' = [status EXCEPT ![r] = "LimitReached"]
    BY <1>9 DEF PushUnexecuted, PushExecuted, PushResult, RecordExecution, Finish
  <2> QED BY <1>1, <1>4, <1>8, <2>1
<1>10. CASE BreakOnLimit(r)
  <2>1. UNCHANGED stop /\ FreeSlot(r) /\ status' = [status EXCEPT ![r] = status[r]]
    BY <1>10 DEF BreakOnLimit, Break, Finish
  <2> QED BY <1>0, <1>1, <1>8, <2>1
<1>11. CASE BreakOnPrepareError(r) \/ BreakOnExecuteError(r)
  <2>1. UNCHANGED stop /\ FreeSlot(r) /\ status' = [status EXCEPT ![r] = ErrorStatus(err[r])]
    BY <1>11 DEF BreakOnPrepareError, BreakOnExecuteError, RecordPreDispatchError,
       RecordExecutionError, Break, Finish
  <2> QED BY <1>0, <1>1, <1>2, <1>8, <2>1
<1>12. CASE StopStep(r)
  BY <1>0, <1>1, <1>12 DEF StopStep, Cancel, Expire, Live, slotVars
<1> QED
  BY <1>5, <1>6, <1>7, <1>9, <1>10, <1>11, <1>12 DEF RunMoves, RunStep, AnswerStep

(* A deadline, a tool's own timeout, the cleanup grace or a late answer is *)
(* never reported as a cancellation the application did not ask for.       *)
THEOREM CancelledWasAsked == Safe => []CancelledOnlyIfAsked
<1> DEFINE AskedInv == "cancelled" \notin PartyErrors => \A r \in Runs : Asked(r)
<1>1. Init => AskedInv
  BY DirectAssumption DEF Init, BrokerInit, Asked
<1>2. TypeOK /\ AskedInv /\ [Next]_vars => AskedInv'
  <2> SUFFICES ASSUME TypeOK, "cancelled" \notin PartyErrors, \A p \in Runs : Asked(p),
                      [Next]_vars, NEW p \in Runs
               PROVE  Asked(p)'
    OBVIOUS
  <2>1. CASE UNCHANGED vars
    BY <2>1 DEF Asked, vars, brokerVars
  <2>2. ASSUME NEW r \in Runs, RunMoves(r) PROVE Asked(p)'
    BY <2>2, AskedStep
  <2> QED BY <2>1, <2>2 DEF Next, RunMoves
<1>3. AskedInv => CancelledOnlyIfAsked
  BY DEF Asked, CancelledOnlyIfAsked
<1> QED BY <1>1, <1>2, <1>3, TypeCorrect, PTL DEF Safe

(* A run stays within its limits and says truly why it stopped.            *)
THEOREM OutcomesAreSound == Safe => []OutcomeSound
BY BudgetsHold, CancelledWasAsked, PTL DEF OutcomeSound
=============================================================================
