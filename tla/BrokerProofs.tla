---------------------------- MODULE BrokerProofs ----------------------------
(***************************************************************************)
(* What the actions of Broker do to types, counters, slots and permits:    *)
(* the lemmas that the proofs about its strategies share.  Each speaks of  *)
(* one slot o and of RunOf[o], whatever else that run has in flight.       *)
(***************************************************************************)
EXTENDS Broker, TLAPS

Unclassified == PrepPhases \cup {"ready"}
Dispatched == ExecPhases \cup {"execOk", "execFail", "execErr"}
AtTool == {"running", "grace"}

LEMMA AnySigInSigs == AnySig \in Sigs
BY SigAssumption DEF AnySig

LEMMA SlotRuns == \A o \in Slots : RunOf[o] \in Runs /\ o # NoSlot
BY SlotAssumption

-----------------------------------------------------------------------------
(* Counters.                                                               *)

\* Counting keeps the counters natural numbers.
LEMMA BumpType ==
  ASSUME NEW r \in Runs, NEW cs, usage \in [Runs -> [Counters -> Nat]], Bump(r, cs)
  PROVE  usage' \in [Runs -> [Counters -> Nat]]
<1>1. [c \in Counters |-> IF c \in cs THEN usage[r][c] + 1 ELSE usage[r][c]]
        \in [Counters -> Nat]
  OBVIOUS
<1> QED BY <1>1 DEF Bump

LEMMA BumpCounts ==
  ASSUME NEW r \in Runs, NEW cs, usage \in [Runs -> [Counters -> Nat]], Bump(r, cs)
  PROVE  /\ \A c \in Counters : usage'[r][c] = IF c \in cs THEN usage[r][c] + 1 ELSE usage[r][c]
         /\ \A p \in Runs \ {r} : usage'[p] = usage[p]
BY DEF Bump

\* What the two sums of the ledger become when one more counter, or the call
\* itself and one more counter, go up.
LEMMA BumpSettles ==
  ASSUME NEW r \in Runs, NEW c \in {"completed", "failed", "cancelled"},
         usage \in [Runs -> [Counters -> Nat]], Bump(r, {c})
  PROVE  /\ usage'[r]["calls"] = usage[r]["calls"]
         /\ usage'[r]["issued"] = usage[r]["issued"]
         /\ Classified(usage'[r]) = Classified(usage[r])
         /\ Settled(usage'[r]) = Settled(usage[r]) + 1
<1>1. \A d \in Counters : usage'[r][d] = IF d = c THEN usage[r][d] + 1 ELSE usage[r][d]
  BY BumpCounts
<1>2. \A d \in Counters : usage[r][d] \in Nat
  OBVIOUS
<1>3. CASE c = "completed" BY <1>1, <1>2, <1>3 DEF Classified, Settled, Counters
<1>4. CASE c = "failed" BY <1>1, <1>2, <1>4 DEF Classified, Settled, Counters
<1>5. CASE c = "cancelled" BY <1>1, <1>2, <1>5 DEF Classified, Settled, Counters
<1> QED BY <1>3, <1>4, <1>5

LEMMA BumpClassifies ==
  ASSUME NEW r \in Runs, NEW c \in {"reused", "rejected", "aborted"},
         usage \in [Runs -> [Counters -> Nat]], Bump(r, {c})
  PROVE  /\ usage'[r]["calls"] = usage[r]["calls"]
         /\ usage'[r]["issued"] = usage[r]["issued"]
         /\ Classified(usage'[r]) = Classified(usage[r]) + 1
         /\ Settled(usage'[r]) = Settled(usage[r])
<1>1. \A d \in Counters : usage'[r][d] = IF d = c THEN usage[r][d] + 1 ELSE usage[r][d]
  BY BumpCounts
<1>2. \A d \in Counters : usage[r][d] \in Nat
  OBVIOUS
<1>3. CASE c = "reused" BY <1>1, <1>2, <1>3 DEF Classified, Settled, Counters
<1>4. CASE c = "rejected" BY <1>1, <1>2, <1>4 DEF Classified, Settled, Counters
<1>5. CASE c = "aborted" BY <1>1, <1>2, <1>5 DEF Classified, Settled, Counters
<1> QED BY <1>3, <1>4, <1>5

LEMMA BumpAdmits ==
  ASSUME NEW r \in Runs, NEW c \in {"reused", "rejected"},
         usage \in [Runs -> [Counters -> Nat]], Bump(r, {"calls", c})
  PROVE  /\ usage'[r]["calls"] = usage[r]["calls"] + 1
         /\ usage'[r]["issued"] = usage[r]["issued"]
         /\ Classified(usage'[r]) = Classified(usage[r]) + 1
         /\ Settled(usage'[r]) = Settled(usage[r])
<1>1. \A d \in Counters :
        usage'[r][d] = IF d = "calls" \/ d = c THEN usage[r][d] + 1 ELSE usage[r][d]
  BY BumpCounts
<1>2. \A d \in Counters : usage[r][d] \in Nat
  OBVIOUS
<1>3. CASE c = "reused"
  <2>1. /\ usage'[r]["calls"] = usage[r]["calls"] + 1
        /\ usage'[r]["reused"] = usage[r]["reused"] + 1
        /\ \A d \in Counters \ {"calls", "reused"} : usage'[r][d] = usage[r][d]
    BY <1>1, <1>3 DEF Counters
  <2> QED BY <1>2, <2>1 DEF Classified, Settled, Counters
<1>4. CASE c = "rejected"
  <2>1. /\ usage'[r]["calls"] = usage[r]["calls"] + 1
        /\ usage'[r]["rejected"] = usage[r]["rejected"] + 1
        /\ \A d \in Counters \ {"calls", "rejected"} : usage'[r][d] = usage[r][d]
    BY <1>1, <1>4 DEF Counters
  <2> QED BY <1>2, <2>1 DEF Classified, Settled, Counters
<1> QED BY <1>3, <1>4

LEMMA BumpOpens ==
  ASSUME NEW r \in Runs, usage \in [Runs -> [Counters -> Nat]], Bump(r, {"calls"})
  PROVE  /\ usage'[r]["calls"] = usage[r]["calls"] + 1
         /\ usage'[r]["issued"] = usage[r]["issued"]
         /\ Classified(usage'[r]) = Classified(usage[r])
         /\ Settled(usage'[r]) = Settled(usage[r])
BY BumpCounts DEF Classified, Settled, Counters

LEMMA BumpIssues ==
  ASSUME NEW r \in Runs, usage \in [Runs -> [Counters -> Nat]], Bump(r, {"issued"})
  PROVE  /\ usage'[r]["calls"] = usage[r]["calls"]
         /\ usage'[r]["issued"] = usage[r]["issued"] + 1
         /\ Classified(usage'[r]) = Classified(usage[r]) + 1
         /\ Settled(usage'[r]) = Settled(usage[r])
<1>1. /\ usage'[r]["issued"] = usage[r]["issued"] + 1
      /\ \A d \in Counters \ {"issued"} : usage'[r][d] = usage[r][d]
  BY BumpCounts DEF Counters
<1>2. \A d \in Counters : usage[r][d] \in Nat
  OBVIOUS
<1> QED BY <1>1, <1>2 DEF Classified, Settled, Counters

\* A ledger's sums are natural numbers.
LEMMA SumsAreNatural ==
  ASSUME NEW r \in Runs, usage \in [Runs -> [Counters -> Nat]]
  PROVE  /\ usage[r]["calls"] \in Nat /\ usage[r]["issued"] \in Nat
         /\ Classified(usage[r]) \in Nat /\ Settled(usage[r]) \in Nat
<1>1. \A d \in Counters : usage[r][d] \in Nat
  OBVIOUS
<1> QED BY <1>1 DEF Classified, Settled, Counters

-----------------------------------------------------------------------------
(* Types.                                                                  *)

LEMMA EffectType ==
  ASSUME NEW r \in Runs, NEW s \in Sigs, NEW e \in Effect,
         effects \in [Runs -> [Sigs -> Effect]], RecordEffect(r, s, e)
  PROVE  effects' \in [Runs -> [Sigs -> Effect]]
BY DEF RecordEffect

LEMMA ErrorStatusType == ASSUME NEW e PROVE ErrorStatus(e) \in Status
BY DEF ErrorStatus, Status

LEMMA OnlyCancelledCancels == ASSUME NEW e, ErrorStatus(e) = "Cancelled" PROVE e = "cancelled"
BY Zenon DEF ErrorStatus

LEMMA StopErrorType == ASSUME NEW r PROVE StopError(r) \in Errors
BY DEF StopError, Errors

\* A call taken up by prepare leaves the broker well typed.
LEMMA PrepareType ==
  ASSUME BrokerTypeOK, NEW o \in Slots, NEW s \in Sigs, Prepare(o, s)
  PROVE  BrokerTypeOK'
<1> DEFINE r == RunOf[o]
<1>0. r \in Runs
  BY SlotRuns
<1> HIDE DEF r
<1>1. <<usage[r]["calls"], Classified(usage[r])>> \in Nat \X Nat
  BY <1>0, SumsAreNatural DEF BrokerTypeOK
<1>2. Preparing(o, s)
  BY DEF Prepare, PrepareStopped, PrepareOverBudget, PrepareUnusable, PrepareReused,
       PrepareUncertain, PrepareRepeated, PrepareAdmitted, Admitting
<1>20. /\ call' \in [Slots -> Sigs]
       /\ before' \in [Slots -> Nat \X Nat]
       /\ UNCHANGED <<stop, holder, starts, confirmed>>
  BY <1>1, <1>2 DEF BrokerTypeOK, Preparing, historyVars, r
<1> USE DEF r
<1>4. CASE PrepareStopped(o, s)
  BY <1>20, <1>4, StopErrorType DEF BrokerTypeOK, PrepareStopped, ledgerVars, Phase
<1>5. CASE PrepareOverBudget(o, s)
  BY <1>0, <1>20, <1>5 DEF BrokerTypeOK, PrepareOverBudget, ledgerVars, Phase, Status
<1>6. CASE PrepareUnusable(o, s)
  BY <1>0, <1>20, <1>6, BumpType DEF BrokerTypeOK, PrepareUnusable, Phase
<1>7. CASE PrepareReused(o, s)
  BY <1>0, <1>20, <1>7, BumpType DEF BrokerTypeOK, PrepareReused, Phase
<1>8. CASE PrepareUncertain(o, s)
  BY <1>0, <1>20, <1>8, BumpType DEF BrokerTypeOK, PrepareUncertain, Phase, Errors
<1>9. CASE PrepareRepeated(o, s)
  BY <1>0, <1>20, <1>9, BumpType DEF BrokerTypeOK, PrepareRepeated, Phase, Status
<1>10. CASE PrepareAdmitted(o, s)
  BY <1>0, <1>20, <1>10, BumpType DEF BrokerTypeOK, PrepareAdmitted, Phase, PrepPhases
<1> QED
  BY <1>4, <1>5, <1>6, <1>7, <1>8, <1>9, <1>10 DEF Prepare

\* A slot moved by the runtime or by an answer leaves the broker well typed.
LEMMA SlotType ==
  ASSUME BrokerTypeOK, NEW o \in Slots, SlotStep(o) \/ Answer(o)
  PROVE  BrokerTypeOK'
<1>0. RunOf[o] \in Runs
  BY SlotRuns
<1> USE <1>0 DEF BrokerTypeOK, ledgerVars, historyVars, Phase, PrepPhases, ExecPhases
<1>2. CASE AuthorizeStopped(o) BY StopErrorType, <1>2 DEF AuthorizeStopped
<1>3. CASE MarkDispatched(o)
  BY <1>3, BumpType, EffectType DEF MarkDispatched, Effect
<1>4. CASE ExecuteStopped(o) BY StopErrorType, <1>4 DEF ExecuteStopped
<1>5. CASE AwaitPermit(o) BY <1>5 DEF AwaitPermit
<1>6. CASE InvokeUnkeyed(o) BY <1>6 DEF InvokeUnkeyed, Invoke
<1>7. CASE InvokeWithPermit(o)
  <2>1. holder' \in [Keys -> Slots \cup {NoSlot}]
    BY <1>7 DEF InvokeWithPermit
  <2>2. starts' \in [Runs -> [Sigs -> Nat]]
    BY <1>7 DEF InvokeWithPermit, Invoke
  <2> QED BY <1>7, <2>1, <2>2 DEF InvokeWithPermit, Invoke
<1>8. CASE BeginGrace(o) BY StopErrorType, <1>8 DEF BeginGrace
<1>9. CASE EndGrace(o) BY <1>9 DEF EndGrace, ReleasePermit
<1>10. CASE PolicyAllows(o) BY <1>10 DEF PolicyAllows
<1>11. CASE PolicyAsksApproval(o) BY <1>11 DEF PolicyAsksApproval
<1>12. CASE ApprovalGranted(o) BY <1>12 DEF ApprovalGranted
<1>13. CASE Denied(o) BY <1>13, BumpType DEF Denied
<1>14. ASSUME NEW e \in PartyErrors, AuthorizerFails(o, e) PROVE BrokerTypeOK'
  BY <1>14, PartyErrorAssumption DEF AuthorizerFails
<1>15. CASE ToolSucceeds(o) BY <1>15 DEF ToolSucceeds, ReleasePermit
<1>16. CASE ToolFails(o) BY <1>16 DEF ToolFails, ReleasePermit
<1>17. ASSUME NEW e \in PartyErrors \cup {"resource"}, ToolErrors(o, e) PROVE BrokerTypeOK'
  <2>1. e \in Errors
    BY PartyErrorAssumption DEF Errors
  <2> QED BY <1>17, <2>1 DEF ToolErrors, ReleasePermit
<1> QED
  BY <1>2, <1>3, <1>4, <1>5, <1>6, <1>7, <1>8, <1>9, <1>10, <1>11, <1>12, <1>13,
     <1>14, <1>15, <1>16, <1>17 DEF SlotStep, Answer

LEMMA FreeSlotType ==
  ASSUME NEW o \in Slots, FreeSlot(o), phase \in [Slots -> Phase], call \in [Slots -> Sigs],
         err \in [Slots -> Errors], before \in [Slots -> Nat \X Nat]
  PROVE  /\ phase' \in [Slots -> Phase] /\ call' \in [Slots -> Sigs]
         /\ err' \in [Slots -> Errors] /\ before' \in [Slots -> Nat \X Nat]
BY AnySigInSigs DEF FreeSlot, Phase, Errors

-----------------------------------------------------------------------------
(* The moves of a call, by its phases.                                     *)

SlotAuthorizes(o) ==
  /\ phase[o] \in PrepPhases
  /\ \/ phase[o] = "policy" /\ phase'[o] = "approval"
     \/ phase'[o] \in {"ready", "prepErr"}
  /\ UNCHANGED <<ledgerVars, holder, historyVars>>

SlotDenied(o) ==
  /\ phase[o] \in PrepPhases /\ phase'[o] = "rejected"
  /\ Bump(RunOf[o], {"rejected"})
  /\ UNCHANGED <<seen, effects, holder, historyVars>>

SlotDispatches(o) ==
  /\ phase[o] = "ready" /\ phase'[o] = "starting"
  /\ Bump(RunOf[o], {"issued"}) /\ RecordEffect(RunOf[o], call[o], "dispatched")
  /\ UNCHANGED <<seen, holder, historyVars>>

SlotGivesUp(o) ==
  /\ phase[o] \in {"starting", "waiting"} /\ phase'[o] = "execErr"
  /\ UNCHANGED <<ledgerVars, holder, historyVars>>

SlotWaits(o) ==
  /\ phase[o] = "starting" /\ phase'[o] = "waiting" /\ KeyOf[call[o]] # NoKey
  /\ UNCHANGED <<ledgerVars, holder, historyVars>>

SlotBegins(o) ==
  /\ \/ phase[o] = "starting" /\ KeyOf[call[o]] = NoKey /\ UNCHANGED holder
     \/ /\ phase[o] = "waiting" /\ holder[KeyOf[call[o]]] = NoSlot
        /\ holder' = [holder EXCEPT ![KeyOf[call[o]]] = o]
  /\ phase'[o] = "running" /\ Live(RunOf[o])
  /\ starts' = [starts EXCEPT ![RunOf[o]][call[o]] = @ + 1]
  /\ UNCHANGED <<ledgerVars, confirmed>>

SlotGraces(o) ==
  /\ phase[o] = "running" /\ phase'[o] = "grace"
  /\ UNCHANGED <<ledgerVars, holder, historyVars>>

SlotSucceeds(o) ==
  /\ phase[o] = "running" /\ phase'[o] = "execOk"
  /\ confirmed' = [confirmed EXCEPT ![RunOf[o]][call[o]] = @ + 1]
  /\ ReleasePermit(o)
  /\ UNCHANGED <<ledgerVars, starts>>

SlotFails(o) ==
  /\ phase[o] \in AtTool /\ phase'[o] \in {"execFail", "execErr"}
  /\ ReleasePermit(o)
  /\ UNCHANGED <<ledgerVars, historyVars>>

\* The error a call may carry: of its run's stop, or of a party.
ErrorSources(r) == {StopError(r), "tool", "resource"} \cup PartyErrors

SlotMove(o) ==
  /\ \A p \in Slots \ {o} : phase'[p] = phase[p] /\ err'[p] = err[p]
  /\ err'[o] \in {err[o]} \cup ErrorSources(RunOf[o])
  /\ UNCHANGED <<status, stop, call, before>>
  /\ \/ SlotAuthorizes(o) \/ SlotDenied(o) \/ SlotDispatches(o)
     \/ SlotGivesUp(o) \/ SlotWaits(o) \/ SlotBegins(o)
     \/ SlotGraces(o) \/ SlotSucceeds(o) \/ SlotFails(o)

\* Every step of a call is one of these moves, of its own slot only.
LEMMA SlotMoves ==
  ASSUME BrokerTypeOK, NEW o \in Slots, SlotStep(o) \/ Answer(o)
  PROVE  SlotMove(o)
<1>0. phase \in [Slots -> Phase] /\ err \in [Slots -> Errors]
  BY DEF BrokerTypeOK
<1> USE DEF SlotMove, ErrorSources, PrepPhases, AtTool
<1>1. CASE AuthorizeStopped(o) BY <1>0, <1>1 DEF AuthorizeStopped, SlotAuthorizes
<1>2. CASE MarkDispatched(o) BY <1>0, <1>2 DEF MarkDispatched, SlotDispatches
<1>3. CASE ExecuteStopped(o) BY <1>0, <1>3 DEF ExecuteStopped, SlotGivesUp
<1>4. CASE AwaitPermit(o) BY <1>0, <1>4 DEF AwaitPermit, SlotWaits
<1>5. CASE InvokeUnkeyed(o) BY <1>0, <1>5 DEF InvokeUnkeyed, Invoke, SlotBegins
<1>6. CASE InvokeWithPermit(o) BY <1>0, <1>6 DEF InvokeWithPermit, Invoke, SlotBegins
<1>7. CASE BeginGrace(o) BY <1>0, <1>7 DEF BeginGrace, SlotGraces
<1>8. CASE EndGrace(o) BY <1>0, <1>8 DEF EndGrace, SlotFails
<1>9. CASE PolicyAllows(o) BY <1>0, <1>9 DEF PolicyAllows, SlotAuthorizes
<1>10. CASE PolicyAsksApproval(o) BY <1>0, <1>10 DEF PolicyAsksApproval, SlotAuthorizes
<1>11. CASE ApprovalGranted(o) BY <1>0, <1>11 DEF ApprovalGranted, SlotAuthorizes
<1>12. CASE Denied(o) BY <1>0, <1>12 DEF Denied, SlotDenied
<1>13. ASSUME NEW e \in PartyErrors, AuthorizerFails(o, e) PROVE SlotMove(o)
  BY <1>0, <1>13 DEF AuthorizerFails, SlotAuthorizes
<1>14. CASE ToolSucceeds(o) BY <1>0, <1>14 DEF ToolSucceeds, SlotSucceeds
<1>15. CASE ToolFails(o) BY <1>0, <1>15 DEF ToolFails, SlotFails, historyVars
<1>16. ASSUME NEW e \in PartyErrors \cup {"resource"}, ToolErrors(o, e) PROVE SlotMove(o)
  BY <1>0, <1>16 DEF ToolErrors, SlotFails
<1> HIDE DEF SlotMove
<1> QED
  BY <1>1, <1>2, <1>3, <1>4, <1>5, <1>6, <1>7, <1>8, <1>9, <1>10, <1>11, <1>12, <1>13,
     <1>14, <1>15, <1>16 DEF SlotStep, Answer

\* What prepare did to the counters, by the phase it leaves the call in.
AdmittedCall(o, s) ==
  /\ phase'[o] = "policy"
  /\ Bump(RunOf[o], {"calls"})
  /\ ~KnownEffect(RunOf[o], s)
  /\ seen[RunOf[o]][s] < MaxIdentical
  /\ seen' = [seen EXCEPT ![RunOf[o]][s] = @ + 1]

PrepareRefused(o) == phase'[o] \in {"prepErr", "limit"} /\ UNCHANGED usage
PrepareUnknown(o) == phase'[o] = "prepErr" /\ Bump(RunOf[o], {"calls"})
PrepareResolved(o) ==
  /\ phase'[o] \in {"rejected", "reused", "limit"}
  /\ Bump(RunOf[o], {"calls", "rejected"}) \/ Bump(RunOf[o], {"calls", "reused"})

PrepareMove(o, s) ==
  /\ phase[o] = "idle" /\ call'[o] = s
  /\ before'[o] = <<usage[RunOf[o]]["calls"], Classified(usage[RunOf[o]])>>
  /\ \A p \in Slots \ {o} : /\ phase'[p] = phase[p] /\ call'[p] = call[p]
                            /\ err'[p] = err[p] /\ before'[p] = before[p]
  /\ err'[o] \in {err[o]} \cup ErrorSources(RunOf[o])
  /\ status' = status \/ status' = [status EXCEPT ![RunOf[o]] = "LimitReached"]
  /\ UNCHANGED <<effects, stop, holder, historyVars>>
  /\ usage' # usage => Live(RunOf[o]) /\ usage[RunOf[o]]["calls"] < MaxToolCalls
  /\ phase'[o] = "reused" => KnownEffect(RunOf[o], s)
  /\ \/ AdmittedCall(o, s)
     \/ UNCHANGED seen /\ (PrepareRefused(o) \/ PrepareUnknown(o) \/ PrepareResolved(o))
     \/ /\ PrepareResolved(o)
        /\ seen[RunOf[o]][s] >= MaxIdentical
        /\ seen' = [seen EXCEPT ![RunOf[o]][s] = @ + 1]

LEMMA PrepareMoves ==
  ASSUME BrokerTypeOK, NEW o \in Slots, NEW s \in Sigs, Prepare(o, s)
  PROVE  PrepareMove(o, s)
<1>0. phase \in [Slots -> Phase] /\ err \in [Slots -> Errors] /\ call \in [Slots -> Sigs]
      /\ before \in [Slots -> Nat \X Nat]
  BY DEF BrokerTypeOK
<1>1. Preparing(o, s)
  BY DEF Prepare, PrepareStopped, PrepareOverBudget, PrepareUnusable, PrepareReused,
       PrepareUncertain, PrepareRepeated, PrepareAdmitted, Admitting
<1>2. /\ phase[o] = "idle" /\ call'[o] = s
      /\ before'[o] = <<usage[RunOf[o]]["calls"], Classified(usage[RunOf[o]])>>
      /\ \A p \in Slots \ {o} : call'[p] = call[p] /\ before'[p] = before[p]
      /\ UNCHANGED <<stop, holder, historyVars>>
  BY <1>0, <1>1 DEF Preparing
<1>3. ASSUME Admitting(o, s) PROVE Live(RunOf[o]) /\ usage[RunOf[o]]["calls"] < MaxToolCalls
  BY <1>3 DEF Admitting
<1> USE DEF PrepareMove, ErrorSources
<1>4. CASE PrepareStopped(o, s) \/ PrepareOverBudget(o, s)
  <2>1. UNCHANGED <<usage, seen, effects>>
    BY <1>4 DEF PrepareStopped, PrepareOverBudget, ledgerVars
  <2>2. /\ phase'[o] \in {"prepErr", "limit"} /\ err'[o] \in {err[o], StopError(RunOf[o])}
        /\ \A p \in Slots \ {o} : phase'[p] = phase[p] /\ err'[p] = err[p]
        /\ status' = status \/ status' = [status EXCEPT ![RunOf[o]] = "LimitReached"]
    BY <1>0, <1>4 DEF PrepareStopped, PrepareOverBudget
  <2> QED BY <1>2, <2>1, <2>2 DEF PrepareRefused
<1>5. CASE PrepareUnusable(o, s) \/ PrepareReused(o, s)
  BY <1>0, <1>2, <1>3, <1>5 DEF PrepareUnusable, PrepareReused, PrepareResolved
<1>6. CASE PrepareUncertain(o, s)
  BY <1>0, <1>2, <1>3, <1>6 DEF PrepareUncertain, PrepareUnknown
<1>7. CASE PrepareRepeated(o, s)
  BY <1>0, <1>2, <1>3, <1>7 DEF PrepareRepeated, PrepareResolved
<1>8. CASE PrepareAdmitted(o, s)
  BY <1>0, <1>2, <1>3, <1>8 DEF PrepareAdmitted, AdmittedCall
<1> HIDE DEF PrepareMove
<1> QED BY <1>4, <1>5, <1>6, <1>7, <1>8 DEF Prepare

\* Neither touches the ledger or the history of another run.
OwnRunOnly(o) ==
  \A p \in Runs \ {RunOf[o]} :
    /\ usage'[p] = usage[p] /\ seen'[p] = seen[p] /\ effects'[p] = effects[p]
    /\ starts'[p] = starts[p] /\ confirmed'[p] = confirmed[p]

LEMMA MoveIsOwnRun ==
  ASSUME BrokerTypeOK, NEW o \in Slots, SlotMove(o)
  PROVE  OwnRunOnly(o)
BY SlotRuns DEF OwnRunOnly, BrokerTypeOK, SlotMove, SlotAuthorizes, SlotDenied, SlotDispatches,
   SlotGivesUp, SlotWaits, SlotBegins, SlotGraces, SlotSucceeds, SlotFails, Bump, RecordEffect,
   ledgerVars, historyVars

LEMMA PrepareIsOwnRun ==
  ASSUME BrokerTypeOK, NEW o \in Slots, NEW s \in Sigs, PrepareMove(o, s)
  PROVE  OwnRunOnly(o)
BY SlotRuns DEF OwnRunOnly, BrokerTypeOK, PrepareMove, AdmittedCall, PrepareRefused, PrepareUnknown,
   PrepareResolved, Bump, historyVars

\* How the strategy's record of a call that is over changes the run's ledger.
RecordMove(o) ==
  \/ phase[o] \in {"rejected", "reused", "limit"} /\ UNCHANGED <<ledgerVars, holder, historyVars>>
  \/ RecordPreDispatchError(o) \/ RecordExecution(o) \/ RecordExecutionError(o)

LEMMA RecordIsOwnRun ==
  ASSUME BrokerTypeOK, NEW o \in Slots, RecordMove(o)
  PROVE  OwnRunOnly(o)
<1> USE SlotRuns DEF OwnRunOnly, BrokerTypeOK, ledgerVars, historyVars, Bump, RecordEffect
<1>1. CASE RecordPreDispatchError(o)
  BY <1>1 DEF RecordPreDispatchError
<1>2. CASE RecordExecution(o) \/ RecordExecutionError(o)
  BY <1>2 DEF RecordExecution, RecordExecutionError
<1> QED BY <1>1, <1>2 DEF RecordMove

-----------------------------------------------------------------------------
(* The ledger of a run with one call in flight.                            *)

CallLedger(o) ==
  LET u == usage[RunOf[o]] IN
  /\ phase[o] \in Unclassified =>
       /\ u["calls"] = Classified(u) + 1
       /\ u["calls"] > before[o][1]
       /\ Classified(u) = before[o][2]
  /\ phase[o] = "prepErr" =>
       \/ u["calls"] = Classified(u) /\ u["calls"] = before[o][1]
       \/ /\ u["calls"] = Classified(u) + 1
          /\ u["calls"] > before[o][1]
          /\ Classified(u) = before[o][2]
  /\ phase[o] \notin Unclassified \cup {"prepErr"} => u["calls"] = Classified(u)
  /\ phase[o] \in Dispatched => u["issued"] = Settled(u) + 1
  /\ phase[o] \notin Dispatched => u["issued"] = Settled(u)

Balanced(u) == u["calls"] = Classified(u) /\ u["issued"] = Settled(u)

LEMMA PrepareKeepsLedger ==
  ASSUME BrokerTypeOK, NEW o \in Slots, NEW s \in Sigs, CallLedger(o), PrepareMove(o, s)
  PROVE  CallLedger(o)'
<1> DEFINE r == RunOf[o]
           n == usage[r]["calls"]
<1>0. r \in Runs /\ usage \in [Runs -> [Counters -> Nat]]
  BY SlotRuns DEF BrokerTypeOK
<1>2. n \in Nat /\ n = Classified(usage[r]) /\ usage[r]["issued"] = Settled(usage[r])
  BY <1>0, SumsAreNatural
     DEF PrepareMove, CallLedger, Unclassified, Dispatched, PrepPhases, ExecPhases
<1>3. before'[o] = <<n, n>>
  BY <1>2 DEF PrepareMove
<1> USE DEF CallLedger, Unclassified, Dispatched, PrepPhases, ExecPhases
<1>4. CASE PrepareRefused(o)
  BY <1>2, <1>3, <1>4 DEF PrepareRefused
<1>5. CASE PrepareUnknown(o) \/ AdmittedCall(o, s)
  <2>1. phase'[o] \in {"prepErr", "policy"} /\ Bump(r, {"calls"})
    BY <1>5 DEF PrepareUnknown, AdmittedCall
  <2>2. /\ usage'[r]["calls"] = n + 1
        /\ Classified(usage'[r]) = n
        /\ usage'[r]["issued"] = Settled(usage'[r])
    BY <1>0, <1>2, <2>1, BumpOpens
  <2> QED BY <1>2, <1>3, <2>1, <2>2
<1>6. CASE PrepareResolved(o)
  <2>1. usage'[r]["calls"] = Classified(usage'[r]) /\ usage'[r]["issued"] = Settled(usage'[r])
    BY <1>0, <1>2, <1>6, BumpAdmits DEF PrepareResolved
  <2> QED BY <1>6, <2>1 DEF PrepareResolved
<1> QED BY <1>4, <1>5, <1>6 DEF PrepareMove

LEMMA MoveKeepsLedger ==
  ASSUME BrokerTypeOK, NEW o \in Slots, CallLedger(o), SlotMove(o)
  PROVE  CallLedger(o)'
<1> DEFINE r == RunOf[o]
<1>0. r \in Runs /\ usage \in [Runs -> [Counters -> Nat]] /\ before' = before
  BY SlotRuns DEF BrokerTypeOK, SlotMove
<1>1. usage[r]["calls"] \in Nat /\ Classified(usage[r]) \in Nat /\ Settled(usage[r]) \in Nat
  BY <1>0, SumsAreNatural
<1> USE DEF CallLedger, Unclassified, Dispatched, PrepPhases, ExecPhases
<1>2. CASE SlotDispatches(o)
  <2>1. /\ usage'[r]["calls"] = Classified(usage'[r])
        /\ usage'[r]["issued"] = Settled(usage'[r]) + 1
    BY <1>0, <1>1, <1>2, BumpIssues DEF SlotDispatches
  <2> QED BY <1>2, <2>1 DEF SlotDispatches
<1>3. CASE SlotDenied(o)
  <2>1. /\ usage'[r]["calls"] = Classified(usage'[r])
        /\ usage'[r]["issued"] = Settled(usage'[r])
    BY <1>0, <1>1, <1>3, BumpClassifies DEF SlotDenied
  <2> QED BY <1>3, <2>1 DEF SlotDenied
<1>4. CASE SlotAuthorizes(o)
  BY <1>0, <1>4 DEF SlotAuthorizes, ledgerVars
<1>5. CASE SlotGivesUp(o) \/ SlotWaits(o) \/ SlotBegins(o) \/ SlotGraces(o) \/ SlotSucceeds(o)
           \/ SlotFails(o)
  <2>1. phase[o] \in Dispatched /\ phase'[o] \in Dispatched /\ UNCHANGED usage
    BY <1>5 DEF SlotGivesUp, SlotWaits, SlotBegins, SlotGraces, SlotSucceeds, SlotFails, AtTool,
       ledgerVars
  <2> QED BY <1>0, <2>1
<1> QED BY <1>2, <1>3, <1>4, <1>5 DEF SlotMove

\* A call that is resolved, or recorded, leaves a balanced ledger behind.
LEMMA ResolvedIsBalanced ==
  ASSUME NEW o \in Slots, CallLedger(o), phase[o] \in {"idle", "rejected", "reused", "limit"}
  PROVE  Balanced(usage[RunOf[o]])
BY DEF CallLedger, Balanced, Unclassified, Dispatched, PrepPhases, ExecPhases

LEMMA RecordBalances ==
  ASSUME BrokerTypeOK, NEW o \in Slots, CallLedger(o),
         RecordPreDispatchError(o) \/ RecordExecution(o) \/ RecordExecutionError(o)
  PROVE  Balanced(usage'[RunOf[o]])
<1> DEFINE r == RunOf[o]
<1>0. r \in Runs /\ usage \in [Runs -> [Counters -> Nat]]
  BY SlotRuns DEF BrokerTypeOK
<1>1. /\ usage[r]["calls"] \in Nat /\ Classified(usage[r]) \in Nat /\ Settled(usage[r]) \in Nat
      /\ usage[r]["issued"] \in Nat
  BY <1>0, SumsAreNatural
<1>2. CASE RecordPreDispatchError(o)
  <2>1. phase[o] = "prepErr"
    BY <1>2 DEF RecordPreDispatchError
  <2>2. usage[r]["issued"] = Settled(usage[r])
    BY <2>1 DEF CallLedger, Dispatched, ExecPhases
  <2>3. \/ usage[r]["calls"] = Classified(usage[r]) /\ usage[r]["calls"] = before[o][1]
        \/ /\ usage[r]["calls"] = Classified(usage[r]) + 1
           /\ usage[r]["calls"] > before[o][1]
           /\ Classified(usage[r]) = before[o][2]
    BY <2>1 DEF CallLedger
  <2>4. CASE PreDispatchErrorCounts(o)
    <3>1. usage[r]["calls"] = Classified(usage[r]) + 1
      BY <1>1, <2>3, <2>4 DEF PreDispatchErrorCounts
    <3>2. Bump(r, {"aborted"}) \/ Bump(r, {"rejected"})
      BY <1>2, <2>4 DEF RecordPreDispatchError
    <3> QED BY <1>0, <1>1, <2>2, <3>1, <3>2, BumpClassifies DEF Balanced
  <2>5. CASE ~PreDispatchErrorCounts(o)
    <3>1. UNCHANGED usage
      BY <1>2, <2>5 DEF RecordPreDispatchError
    <3>2. usage[r]["calls"] = Classified(usage[r])
      BY <2>3, <2>5 DEF PreDispatchErrorCounts
    <3> QED BY <2>2, <3>1, <3>2 DEF Balanced
  <2> QED BY <2>4, <2>5
<1>3. CASE RecordExecution(o) \/ RecordExecutionError(o)
  <2>1. phase[o] \in {"execOk", "execFail", "execErr"}
    BY <1>3 DEF RecordExecution, RecordExecutionError
  <2>2. usage[r]["calls"] = Classified(usage[r]) /\ usage[r]["issued"] = Settled(usage[r]) + 1
    BY <2>1 DEF CallLedger, Dispatched, Unclassified, PrepPhases, ExecPhases
  <2>3. Bump(r, {"completed"}) \/ Bump(r, {"failed"}) \/ Bump(r, {"cancelled"})
    BY <1>3 DEF RecordExecution, RecordExecutionError
  <2> QED BY <1>0, <1>1, <2>2, <2>3, BumpSettles DEF Balanced
<1> QED BY <1>2, <1>3

\* What is balanced is the ledger of a run with no call.
LEMMA BalancedIsIdle ==
  ASSUME NEW o \in Slots, Balanced(usage[RunOf[o]]), phase[o] = "idle"
  PROVE  CallLedger(o)
BY DEF CallLedger, Balanced, Unclassified, Dispatched, PrepPhases, ExecPhases

-----------------------------------------------------------------------------
(* What the ledger of a run knows of a state-changing signature.           *)

EffectKnown(r, s) ==
  /\ starts[r][s] <= 1
  /\ confirmed[r][s] <= starts[r][s]
  /\ effects[r][s] = "none" => starts[r][s] = 0
  /\ effects[r][s] = "completed" => starts[r][s] = confirmed[r][s]

\* And what it knows while a call with that signature is on its way.
CallEffect(o, s) ==
  LET r == RunOf[o] IN
  call[o] = s =>
    /\ phase[o] \in Unclassified => effects[r][s] = "none"
    /\ phase[o] \in Dispatched => effects[r][s] = "dispatched"
    /\ phase[o] \in {"starting", "waiting"} => starts[r][s] = 0
    /\ phase[o] \in AtTool => starts[r][s] = 1 /\ confirmed[r][s] = 0
    /\ phase[o] = "execOk" => starts[r][s] = confirmed[r][s]

EffectAgrees(o, s) == EffectKnown(RunOf[o], s) /\ CallEffect(o, s)

\* A reusing run admits a state-changing call only if nothing is known of it.
LEMMA PrepareKeepsEffects ==
  ASSUME BrokerTypeOK, NEW o \in Slots, RunOf[o] \in Reusing, NEW s \in Sigs, Mutates(s),
         EffectAgrees(o, s), NEW t \in Sigs, PrepareMove(o, t)
  PROVE  EffectAgrees(o, s)'
<1> DEFINE r == RunOf[o]
<1> USE DEF EffectAgrees, EffectKnown, CallEffect, Unclassified, Dispatched, PrepPhases, ExecPhases,
        AtTool
<1>1. UNCHANGED <<effects, starts, confirmed>> /\ call'[o] = t
  BY DEF PrepareMove, historyVars
<1>2. CASE AdmittedCall(o, t)
  <2>1. phase'[o] = "policy" /\ ~KnownEffect(r, t)
    BY <1>2 DEF AdmittedCall
  <2>2. t = s => effects[r][s] = "none"
    BY <2>1 DEF KnownEffect
  <2> QED BY <1>1, <2>1, <2>2
<1>3. CASE ~AdmittedCall(o, t)
  <2>1. phase'[o] \in {"prepErr", "limit", "rejected", "reused"}
    BY <1>3 DEF PrepareMove, PrepareRefused, PrepareUnknown, PrepareResolved
  <2> QED BY <1>1, <2>1
<1> QED BY <1>2, <1>3

LEMMA RecordKeepsEffects ==
  ASSUME BrokerTypeOK, NEW o \in Slots, NEW s \in Sigs, Mutates(s),
         EffectAgrees(o, s), RecordMove(o), phase'[o] = "idle"
  PROVE  EffectAgrees(o, s)'
<1> DEFINE r == RunOf[o]
<1> USE DEF EffectAgrees, EffectKnown, CallEffect, Unclassified, Dispatched, PrepPhases, ExecPhases,
        AtTool
<1>0. r \in Runs /\ effects \in [Runs -> [Sigs -> Effect]]
  BY SlotRuns DEF BrokerTypeOK
<1>1. UNCHANGED <<starts, confirmed>>
  BY DEF RecordMove, RecordPreDispatchError, RecordExecution, RecordExecutionError, historyVars
<1>2. CASE UNCHANGED effects
  BY <1>1, <1>2
<1>3. CASE RecordExecution(o) \/ RecordExecutionError(o)
  <2>1. CASE call[o] # s
    <3>1. effects'[r][s] = effects[r][s]
      BY <1>0, <1>3, <2>1 DEF RecordExecution, RecordExecutionError, RecordEffect
    <3> QED BY <1>1, <3>1
  <2>2. CASE call[o] = s
    <3>1. \/ effects'[r][s] = "uncertain"
          \/ effects'[r][s] = "completed" /\ phase[o] = "execOk"
      BY <1>0, <1>3, <2>2 DEF RecordExecution, RecordExecutionError, RecordEffect
    <3>2. phase[o] \in Dispatched
      BY <1>3 DEF RecordExecution, RecordExecutionError
    <3> QED BY <1>1, <2>2, <3>1, <3>2
  <2> QED BY <2>1, <2>2
<1> QED BY <1>2, <1>3 DEF RecordMove, RecordPreDispatchError, ledgerVars

LEMMA MoveKeepsEffects ==
  ASSUME BrokerTypeOK, NEW o \in Slots, NEW s \in Sigs, Mutates(s), EffectAgrees(o, s), SlotMove(o)
  PROVE  EffectAgrees(o, s)'
<1> DEFINE r == RunOf[o]
<1> USE DEF EffectAgrees, EffectKnown, CallEffect, Unclassified, Dispatched, PrepPhases, ExecPhases,
        AtTool, ledgerVars, historyVars
<1>0. /\ r \in Runs /\ call[o] \in Sigs /\ effects \in [Runs -> [Sigs -> Effect]]
      /\ starts \in [Runs -> [Sigs -> Nat]] /\ confirmed \in [Runs -> [Sigs -> Nat]]
      /\ starts[r][s] \in Nat /\ confirmed[r][s] \in Nat /\ UNCHANGED call
  BY SlotRuns DEF BrokerTypeOK, SlotMove
<1>1. CASE SlotDispatches(o)
  <2>1. CASE call[o] = s
    <3>1. effects'[r][s] = "dispatched"
      BY <1>0, <1>1, <2>1 DEF SlotDispatches, RecordEffect
    <3> QED BY <1>0, <1>1, <2>1, <3>1 DEF SlotDispatches
  <2>2. CASE call[o] # s
    <3>1. effects'[r][s] = effects[r][s]
      BY <1>0, <1>1, <2>2 DEF SlotDispatches, RecordEffect
    <3> QED BY <1>0, <1>1, <2>2, <3>1 DEF SlotDispatches
  <2> QED BY <2>1, <2>2
<1>2. CASE SlotBegins(o)
  <2>1. /\ phase[o] \in {"starting", "waiting"} /\ phase'[o] = "running"
        /\ UNCHANGED <<effects, confirmed>>
        /\ starts' = [starts EXCEPT ![r][call[o]] = @ + 1]
    BY <1>2 DEF SlotBegins
  <2>2. CASE call[o] = s
    <3>1. starts'[r][s] = 1 /\ starts[r][s] = 0
      BY <1>0, <2>1, <2>2
    <3>2. confirmed'[r][s] = 0
      BY <1>0, <2>1, <3>1
    <3> QED BY <1>0, <2>1, <2>2, <3>1, <3>2
  <2>3. CASE call[o] # s
    <3>1. starts'[r][s] = starts[r][s]
      BY <1>0, <2>1, <2>3
    <3> QED BY <1>0, <2>1, <2>3, <3>1
  <2> QED BY <2>2, <2>3
<1>3. CASE SlotSucceeds(o)
  <2>1. /\ phase[o] = "running" /\ phase'[o] = "execOk"
        /\ UNCHANGED <<effects, starts>>
        /\ confirmed' = [confirmed EXCEPT ![r][call[o]] = @ + 1]
    BY <1>3 DEF SlotSucceeds
  <2>2. CASE call[o] = s
    <3>1. confirmed'[r][s] = 1 /\ starts[r][s] = 1
      BY <1>0, <2>1, <2>2
    <3> QED BY <1>0, <2>1, <2>2, <3>1
  <2>3. CASE call[o] # s
    <3>1. confirmed'[r][s] = confirmed[r][s]
      BY <1>0, <2>1, <2>3
    <3> QED BY <1>0, <2>1, <2>3, <3>1
  <2> QED BY <2>2, <2>3
<1>4. CASE SlotAuthorizes(o) \/ SlotDenied(o)
  BY <1>0, <1>4 DEF SlotAuthorizes, SlotDenied
<1>5. CASE SlotGivesUp(o) \/ SlotWaits(o) \/ SlotGraces(o) \/ SlotFails(o)
  BY <1>0, <1>5 DEF SlotGivesUp, SlotWaits, SlotGraces, SlotFails
<1> QED BY <1>1, <1>2, <1>3, <1>4, <1>5 DEF SlotMove

-----------------------------------------------------------------------------
(* Keyed permits.                                                          *)

CallPermit(o) ==
  /\ phase[o] = "waiting" => KeyOf[call[o]] # NoKey
  /\ phase[o] \in AtTool /\ KeyOf[call[o]] # NoKey => holder[KeyOf[call[o]]] = o
  /\ \A k \in Keys : holder[k] = o => phase[o] \in AtTool /\ KeyOf[call[o]] = k

\* A call gains the permit of its own key when it begins and loses it when it
\* ends; nobody else's permits are touched.
LEMMA MoveKeepsPermits ==
  ASSUME BrokerTypeOK, NEW o \in Slots, CallPermit(o), SlotMove(o)
  PROVE  /\ CallPermit(o)'
         /\ \A k \in Keys, p \in Slots \ {o} : holder'[k] = p <=> holder[k] = p
<1>0. /\ holder \in [Keys -> Slots \cup {NoSlot}] /\ call \in [Slots -> Sigs] /\ call' = call
      /\ o # NoSlot /\ NoSlot \notin Slots
  BY SlotAssumption DEF BrokerTypeOK, SlotMove
<1>1. ASSUME UNCHANGED holder, phase[o] \in AtTool <=> phase'[o] \in AtTool,
             phase'[o] = "waiting" => KeyOf[call[o]] # NoKey
      PROVE  /\ CallPermit(o)'
             /\ \A k \in Keys, p \in Slots \ {o} : holder'[k] = p <=> holder[k] = p
  BY <1>0, <1>1 DEF CallPermit
<1>2. ASSUME ReleasePermit(o), phase'[o] \notin AtTool \cup {"waiting"}
      PROVE  /\ CallPermit(o)'
             /\ \A k \in Keys, p \in Slots \ {o} : holder'[k] = p <=> holder[k] = p
  <2>1. \A k \in Keys : holder'[k] = IF holder[k] = o THEN NoSlot ELSE holder[k]
    BY <1>2 DEF ReleasePermit
  <2> QED BY <1>0, <1>2, <2>1 DEF CallPermit
<1>3. CASE SlotAuthorizes(o) \/ SlotDenied(o) \/ SlotDispatches(o) \/ SlotGivesUp(o) \/ SlotWaits(o)
           \/ SlotGraces(o)
  BY <1>1, <1>3 DEF SlotAuthorizes, SlotDenied, SlotDispatches, SlotGivesUp, SlotWaits, SlotGraces,
     PrepPhases, AtTool
<1>4. CASE SlotSucceeds(o) \/ SlotFails(o)
  BY <1>2, <1>4 DEF SlotSucceeds, SlotFails, AtTool
<1>5. CASE SlotBegins(o)
  <2> DEFINE k == KeyOf[call[o]]
  <2>1. phase'[o] = "running" /\ phase[o] \notin AtTool
    BY <1>5 DEF SlotBegins, AtTool
  <2>2. \A j \in Keys : holder[j] # o
    BY <2>1 DEF CallPermit
  <2>3. CASE k = NoKey /\ UNCHANGED holder
    BY <1>0, <2>1, <2>2, <2>3 DEF CallPermit, AtTool
  <2>4. CASE phase[o] = "waiting" /\ holder[k] = NoSlot /\ holder' = [holder EXCEPT ![k] = o]
    <3>1. k \in Keys
      BY <1>0, <2>4, SigAssumption DEF CallPermit
    <3>2. holder'[k] = o /\ \A j \in Keys \ {k} : holder'[j] = holder[j]
      BY <1>0, <2>4, <3>1
    <3> QED BY <1>0, <2>1, <2>2, <2>4, <3>1, <3>2 DEF CallPermit, AtTool
  <2> QED BY <1>5, <2>3, <2>4 DEF SlotBegins
<1> QED BY <1>3, <1>4, <1>5 DEF SlotMove

\* So every call keeps its permit while another one moves.
LEMMA OthersKeepPermits ==
  ASSUME BrokerTypeOK, NEW o \in Slots, CallPermit(o), SlotMove(o),
         NEW p \in Slots \ {o}, CallPermit(p)
  PROVE  CallPermit(p)'
<1>1. phase'[p] = phase[p] /\ call' = call
  BY DEF SlotMove
<1>2. \A k \in Keys : holder'[k] = p <=> holder[k] = p
  BY MoveKeepsPermits
<1>3. KeyOf[call[p]] \in Keys \cup {NoKey}
  BY SigAssumption DEF BrokerTypeOK
<1> QED BY <1>1, <1>2, <1>3 DEF CallPermit

\* A call that is not executing holds nothing, and may be prepared or freed.
LEMMA IdleKeepsPermits ==
  ASSUME NEW o \in Slots, CallPermit(o), UNCHANGED holder, phase[o] \notin AtTool,
         phase'[o] \notin AtTool \cup {"waiting"}
  PROVE  CallPermit(o)'
BY DEF CallPermit
=============================================================================
