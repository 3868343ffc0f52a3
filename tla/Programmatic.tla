---------------------------- MODULE Programmatic ----------------------------
(***************************************************************************)
(* The programmatic strategy of llama-harness-core (programmatic.rs): the  *)
(* model writes a program, a sandboxed VM runs it and stops at every tool  *)
(* request, the batch it asks for crosses the broker as a whole, and a     *)
(* last model call turns what the program returns into the answer.  Runs   *)
(* share the keyed permits and the program admissions of one AgentRunner.  *)
(*                                                                         *)
(* What a program computes is left open here (module SandboxVm has it):    *)
(* the VM may yield any batch its instructions can form, return, or fail.  *)
(***************************************************************************)
EXTENDS Broker, Sequences

CONSTANTS
  SlotAt,         \* a run's slots, each once, in the order a batch fills them; a
                  \* bound of the model on the calls of a batch (none: a program
                  \* without tools)
  ToolOf,         \* the tool a signature calls: a fan-out calls one tool
  ParallelSafe,   \* read-only signatures whose tool is declared parallel-safe
  MaxFanOut,      \* the effective fan-out concurrency
  MaxVms,         \* max_active_vms
  MaxModelCalls,  \* limits.max_model_calls
  Adaptive        \* runs the adaptive planner routed here, one model call spent

ASSUME ProgrammaticAssumption ==
  /\ ParallelSafe \subseteq ReadOnly
  /\ MaxFanOut \in Nat \ {0} /\ MaxVms \in Nat \ {0}
  /\ MaxModelCalls \in Nat
  /\ Adaptive \subseteq Runs /\ (Adaptive # {} => MaxModelCalls >= 1)
  /\ SlotAt \in [Runs -> Seq(Slots)]
  /\ \A r \in Runs : \A i, j \in 1..Len(SlotAt[r]) :
       RunOf[SlotAt[r][i]] = r /\ (SlotAt[r][i] = SlotAt[r][j] => i = j)

VARIABLES
  pc,           \* where the run is
  modelCalls,   \* model_calls
  attempt,      \* program_attempt
  wanted,       \* the signatures of the batch the VM yielded
  taken,        \* how many of them prepare has been given
  dispatched,   \* dispatched
  admissions    \* programmatic_admission: free permits

engineVars == <<pc, modelCalls, attempt, wanted, taken, dispatched, admissions>>
vars == <<brokerVars, engineVars>>

Pc == {"start", "generate", "candidate", "vm", "batch", "exec",
       "synthesize", "synthesis", "direct", "done"}
Admitted(r) == pc[r] \notin {"start", "direct", "done"}

Init ==
  /\ BrokerInit
  /\ pc = [r \in Runs |-> "start"]
  /\ modelCalls = [r \in Runs |-> IF r \in Adaptive THEN 1 ELSE 0]
  /\ attempt = [r \in Runs |-> 0]
  /\ wanted = [r \in Runs |-> << >>]
  /\ taken = [r \in Runs |-> 0]
  /\ dispatched = [r \in Runs |-> FALSE]
  /\ admissions = MaxVms

-----------------------------------------------------------------------------
SlotsOf(r) == {o \in Slots : RunOf[o] = r}
Goto(r, l) == pc' = [pc EXCEPT ![r] = l]

\* The locals of the run's calls go out of scope.
FreeSlots(r) ==
  LET Freed(f, v) == [o \in Slots |-> IF RunOf[o] = r THEN v ELSE f[o]] IN
  /\ phase' = Freed(phase, "idle")
  /\ call' = Freed(call, AnySig)
  /\ err' = Freed(err, "none")
  /\ before' = Freed(before, <<0, 0>>)
  /\ wanted' = [wanted EXCEPT ![r] = << >>]
  /\ taken' = [taken EXCEPT ![r] = 0]

\* finalize_usage: what prepare counted and nothing classified was aborted.
Finalized(u) == [u EXCEPT !["aborted"] = @ + u["calls"] - Classified(u)]

\* The run is over; the block that holds its admission has ended.
EndRun(r, st, u) ==
  /\ Goto(r, "done")
  /\ status' = [status EXCEPT ![r] = st]
  /\ usage' = [usage EXCEPT ![r] = Finalized(u)]
  /\ admissions' = admissions + 1
  /\ FreeSlots(r)
  /\ UNCHANGED <<seen, stop, holder, historyVars, modelCalls, attempt, dispatched>>

\* MUTANT of FailureStatus: the error speaks, whatever was dispatched.
FailureStatusPlain(r, e) == ErrorStatus(e)

\* Once a call was dispatched, any failure is an uncertain outcome.
FailureStatus(r, e) == IF dispatched[r] THEN "Failed" ELSE ErrorStatus(e)

\* The terminal block returns Err(e).
Fail(r, e) == EndRun(r, FailureStatus(r, e), usage[r]) /\ UNCHANGED effects

OutOfBroker == UNCHANGED brokerVars
OutOfBatch == UNCHANGED <<wanted, taken, dispatched>>

-----------------------------------------------------------------------------
(* Admission.  Nothing awaits between the checks and the first request, so *)
(* a run is admitted, refused or handed back in one step.                  *)

Admit(r) ==
  /\ pc[r] = "start" /\ Live(r)
  /\ MaxModelCalls - modelCalls[r] >= 2
  /\ admissions > 0
  /\ admissions' = admissions - 1
  /\ Goto(r, "generate")
  /\ OutOfBroker /\ OutOfBatch
  /\ UNCHANGED <<modelCalls, attempt>>

\* Stopped already, or every admission taken: refused, never queued.
Refuse(r) ==
  /\ pc[r] = "start"
  /\ \E e \in Errors :
       /\ \/ ~Live(r) /\ e = StopError(r)
          \/ Live(r) /\ admissions = 0 /\ e = "resource"
       /\ status' = [status EXCEPT ![r] = ErrorStatus(e)]
  /\ Goto(r, "done")
  /\ OutOfBatch
  /\ UNCHANGED <<ledgerVars, stop, slotVars, holder, historyVars,
                 modelCalls, attempt, admissions>>

\* An adaptive run that the host, the provider or the model-call budget does not
\* allow here (tested before anything else), or whose scope or limits do not fit
\* (an admission was taken, and is dropped): it goes on reactively.
HandBack(r) ==
  /\ pc[r] = "start" /\ r \in Adaptive
  /\ Goto(r, "direct")
  /\ OutOfBroker /\ OutOfBatch
  /\ UNCHANGED <<modelCalls, attempt, admissions>>

-----------------------------------------------------------------------------
(* Writing the program: one plan, at most one repair.                      *)

\* programmatic_completion sends one request, for the phase next.
Request(r, next) ==
  /\ modelCalls[r] < MaxModelCalls
  /\ modelCalls' = [modelCalls EXCEPT ![r] = @ + 1]
  /\ Goto(r, next)
  /\ OutOfBroker /\ OutOfBatch
  /\ UNCHANGED <<attempt, admissions>>

RequestProgram(r) == pc[r] = "generate" /\ Live(r) /\ Request(r, "candidate")

\* Stopped at the top of the loop, a request too large, or no model call left.
RequestFails(r) ==
  /\ pc[r] \in {"generate", "synthesize"}
  /\ pc[r] = "synthesize" => modelCalls[r] >= MaxModelCalls
  /\ Fail(r, IF pc[r] = "generate" /\ ~Live(r) THEN StopError(r) ELSE "resource")

ProgramAccepted(r) ==
  /\ pc[r] = "candidate" /\ Live(r)
  /\ Goto(r, "vm")
  /\ OutOfBroker /\ OutOfBatch
  /\ UNCHANGED <<modelCalls, attempt, admissions>>

\* MUTANT of MayRepair: the last model call may go into a repair.
MayRepairWithLast(r) == attempt[r] = 0 /\ MaxModelCalls - modelCalls[r] > 0

\* A repair must leave a model call for the synthesis.
MayRepair(r) == attempt[r] = 0 /\ MaxModelCalls - modelCalls[r] > 1

RepairProgram(r) ==
  /\ pc[r] = "candidate" /\ Live(r)
  /\ MayRepair(r)
  /\ attempt' = [attempt EXCEPT ![r] = 1]
  /\ Goto(r, "generate")
  /\ OutOfBroker /\ OutOfBatch
  /\ UNCHANGED <<modelCalls, admissions>>

\* MUTANT of FallBack: the admission stays with the run.
FallBackAdmitted(r) ==
  /\ pc[r] = "candidate" /\ Live(r)
  /\ ~MayRepair(r)
  /\ ~dispatched[r] /\ usage[r]["issued"] = 0
  /\ Goto(r, "direct")
  /\ OutOfBroker /\ OutOfBatch
  /\ UNCHANGED <<modelCalls, attempt, admissions>>

\* No valid program: the same run continues with the direct loop.
FallBack(r) ==
  /\ pc[r] = "candidate" /\ Live(r)
  /\ ~MayRepair(r)
  /\ ~dispatched[r] /\ usage[r]["issued"] = 0
  /\ Goto(r, "direct")
  /\ admissions' = admissions + 1
  /\ OutOfBroker /\ OutOfBatch
  /\ UNCHANGED <<modelCalls, attempt>>

\* A model call that ends badly: stopped, the provider's error, its deadline, a
\* native tool call, a response or (for a program) a transcript over its limit.
CallFails(r) ==
  /\ pc[r] \in {"candidate", "synthesis"}
  /\ IF Live(r)
       THEN \E e \in PartyErrors \cup {"tool", "timedOut", "resource"} : Fail(r, e)
       ELSE Fail(r, StopError(r))

-----------------------------------------------------------------------------
(* The VM.  An invoke yields one call, a fan-out some calls of one tool.   *)

\* MUTANT of VmStopped: between two slices only the deadline is looked at.
VmStoppedByDeadline(r) ==
  pc[r] = "vm" /\ stop[r] # "cancelled" /\ ~Live(r) /\ Fail(r, StopError(r))

\* check_stopped before each slice.
VmStopped(r) == pc[r] = "vm" /\ ~Live(r) /\ Fail(r, StopError(r))

\* Fuel, memory and yield limits, or a type error.
VmFails(r) == pc[r] = "vm" /\ Live(r) /\ \E e \in {"tool", "resource"} : Fail(r, e)

VmReturns(r) ==
  /\ pc[r] = "vm" /\ Live(r)
  /\ Goto(r, "synthesize")
  /\ OutOfBroker /\ OutOfBatch
  /\ UNCHANGED <<modelCalls, attempt, admissions>>

Yield(r, batch) ==
  /\ pc[r] = "vm" /\ Live(r)
  /\ wanted' = [wanted EXCEPT ![r] = batch]
  /\ Goto(r, "batch")
  /\ OutOfBroker
  /\ UNCHANGED <<modelCalls, attempt, taken, dispatched, admissions>>

VmInvokes(r) == SlotAt[r] # << >> /\ \E s \in Sigs : Yield(r, <<s>>)

FanOuts(r) == {b \in UNION {[1..n -> Sigs] : n \in 1..Len(SlotAt[r])} :
                 \A i \in DOMAIN b : ToolOf[b[i]] = ToolOf[b[1]]}

\* MUTANT of FanOutAdmitted: the declaration parallel_safe is not required.
FanOutAdmittedUnsafe(batch) == Len(batch) <= MaxFanOut

\* The static admission of a fan-out, before any of its calls is prepared.
FanOutAdmitted(batch) ==
  /\ \A i \in DOMAIN batch : batch[i] \in ParallelSafe
  /\ Len(batch) <= MaxFanOut

VmFansOut(r) == \E b \in FanOuts(r) : FanOutAdmitted(b) /\ Yield(r, b)

FanOutRefused(r) ==
  /\ pc[r] = "vm" /\ Live(r)
  /\ \E b \in FanOuts(r) : ~FanOutAdmitted(b)
  /\ \E e \in {"tool", "resource"} : Fail(r, e)

-----------------------------------------------------------------------------
(* A batch: every call is prepared, in order, before the first is          *)
(* dispatched; then all run, and all are settled before the VM resumes.    *)

Batch(r) == {SlotAt[r][i] : i \in 1..Len(wanted[r])}
Taken(r) == {SlotAt[r][i] : i \in 1..taken[r]}
Decided(o) == phase[o] \in {"ready", "rejected", "reused"}

PrepareNext(r) ==
  /\ pc[r] = "batch" /\ Live(r)
  /\ taken[r] < Len(wanted[r])
  /\ \A o \in Taken(r) : Decided(o)
  /\ taken' = [taken EXCEPT ![r] = @ + 1]
  /\ Prepare(SlotAt[r][taken[r] + 1], wanted[r][taken[r] + 1])
  /\ UNCHANGED <<pc, modelCalls, attempt, wanted, dispatched, admissions>>

\* Stopped between two calls of the batch: those prepared are never dispatched.
BatchStopped(r) ==
  /\ pc[r] = "batch" /\ ~Live(r)
  /\ taken[r] < Len(wanted[r])
  /\ \A o \in Taken(r) : Decided(o)
  /\ Fail(r, StopError(r))

\* prepare says Stop or Err: so is the whole batch.
BatchRefused(r) ==
  /\ pc[r] = "batch"
  /\ \E o \in Batch(r) :
       \/ phase[o] = "limit" /\ Fail(r, "resource")
       \/ phase[o] = "prepErr" /\ Fail(r, err[o])

Ready(r) == {o \in Batch(r) : phase[o] = "ready"}

\* MUTANT of BatchPrepared: the calls run as soon as one of them may.
BatchPartlyPrepared(r) == Ready(r) # {}

BatchPrepared(r) == taken[r] = Len(wanted[r]) /\ \A o \in Batch(r) : Decided(o)

\* mark_dispatched for every prepared call, before anything runs.
DispatchBatch(r) ==
  /\ pc[r] = "batch" /\ BatchPrepared(r)
  /\ usage' = [usage EXCEPT ![r]["issued"] = @ + Cardinality(Ready(r))]
  /\ effects' = [effects EXCEPT ![r] = [s \in Sigs |->
       IF Mutates(s) /\ \E o \in Ready(r) : call[o] = s THEN "dispatched" ELSE @[s]]]
  /\ phase' = [o \in Slots |-> IF o \in Ready(r) THEN "starting" ELSE phase[o]]
  /\ dispatched' = [dispatched EXCEPT ![r] = @ \/ Ready(r) # {}]
  /\ Goto(r, "exec")
  /\ UNCHANGED <<seen, status, stop, call, err, before, holder, historyVars,
                 modelCalls, attempt, wanted, taken, admissions>>

Over(o) == phase[o] \in {"execOk", "execFail", "execErr"}
BatchOver(r) == \A o \in Batch(r) : Over(o) \/ phase[o] \in {"rejected", "reused"}

\* MUTANT of SettledUsage: only the first failure of a batch is recorded.
SettledUsageFirst(r, good) ==
  LET bad == {o \in Batch(r) : Over(o)} \ good IN
  [usage[r] EXCEPT !["completed"] = @ + Cardinality(good),
                   !["failed"] = @ + IF bad = {} THEN 0 ELSE 1]

SettledUsage(r, good) ==
  LET bad == {o \in Batch(r) : Over(o)} \ good
      cut == {o \in bad : phase[o] = "execErr" /\ Interrupted(err[o])} IN
  [usage[r] EXCEPT !["completed"] = @ + Cardinality(good),
                   !["cancelled"] = @ + Cardinality(cut),
                   !["failed"] = @ + Cardinality(bad \ cut)]

SettledEffects(r, good) ==
  [effects EXCEPT ![r] = [s \in Sigs |->
     LET here == {o \in Batch(r) : Over(o) /\ call[o] = s} IN
     IF ~Mutates(s) \/ here = {} THEN @[s]
     ELSE IF here \subseteq good THEN "completed" ELSE "uncertain"]]

\* MUTANT of ResumeVm: a failed call is given to the program like a refused one.
ResumeVmRegardless(r) ==
  LET good == {o \in Batch(r) : phase[o] = "execOk"} IN
  /\ pc[r] = "exec" /\ BatchOver(r)
  /\ usage' = [usage EXCEPT ![r] = SettledUsage(r, good)]
  /\ effects' = SettledEffects(r, good)
  /\ Goto(r, "vm")
  /\ FreeSlots(r)
  /\ UNCHANGED <<seen, status, stop, holder, historyVars,
                 modelCalls, attempt, dispatched, admissions>>

\* Every dispatched call succeeded and fits: the program goes on.
ResumeVm(r) ==
  LET good == {o \in Batch(r) : Over(o)} IN
  /\ pc[r] = "exec" /\ BatchOver(r)
  /\ \A o \in good : phase[o] = "execOk"
  /\ usage' = [usage EXCEPT ![r] = SettledUsage(r, good)]
  /\ effects' = SettledEffects(r, good)
  /\ Goto(r, "vm")
  /\ FreeSlots(r)
  /\ UNCHANGED <<seen, status, stop, holder, historyVars,
                 modelCalls, attempt, dispatched, admissions>>

\* What the engine makes of a call that did not end well.
CallError(o) ==
  CASE phase[o] = "execOk" -> "resource"   \* its result is too large to retain
    [] phase[o] = "execFail" -> "tool"
    [] OTHER -> err[o]

\* All calls are settled, the first error ends the run, and the program never
\* learns of it.
AbandonVm(r) ==
  /\ pc[r] = "exec" /\ BatchOver(r)
  /\ \E good \in SUBSET {o \in Batch(r) : phase[o] = "execOk"} :
       LET Bad(i) == Over(SlotAt[r][i]) /\ SlotAt[r][i] \notin good IN
       /\ \E i \in 1..Len(wanted[r]) :
            /\ Bad(i) /\ \A j \in 1..(i - 1) : ~Bad(j)
            /\ EndRun(r, FailureStatus(r, CallError(SlotAt[r][i])), SettledUsage(r, good))
       /\ effects' = SettledEffects(r, good)

-----------------------------------------------------------------------------
\* The input fits: it was reserved before the first effect.
RequestSynthesis(r) == pc[r] = "synthesize" /\ Request(r, "synthesis")

Synthesized(r) ==
  /\ pc[r] = "synthesis" /\ Live(r)
  /\ EndRun(r, "Completed", usage[r])
  /\ UNCHANGED effects

-----------------------------------------------------------------------------
\* What the runtime does for a run without another party's answer.
RunStep(r) ==
  \/ Admit(r) \/ Refuse(r)
  \/ HandBack(r)
  \/ RequestProgram(r) \/ RequestFails(r)
  \/ VmStopped(r) \/ VmFails(r) \/ VmReturns(r)
  \/ VmInvokes(r) \/ VmFansOut(r) \/ FanOutRefused(r)
  \/ PrepareNext(r) \/ BatchStopped(r) \/ BatchRefused(r)
  \/ DispatchBatch(r) \/ ResumeVm(r) \/ AbandonVm(r)
  \/ RequestSynthesis(r)
  \/ ~Live(r) /\ CallFails(r)

\* One call of a batch, inside the broker.
CallStep(o) ==
  /\ \/ AuthorizeStopped(o)
     \/ ExecuteStopped(o) \/ AwaitPermit(o)
     \/ InvokeUnkeyed(o) \/ InvokeWithPermit(o)
     \/ BeginGrace(o) \/ EndGrace(o)
  /\ UNCHANGED engineVars

ProviderStep(r) ==
  \/ ProgramAccepted(r) \/ RepairProgram(r) \/ FallBack(r) \/ Synthesized(r)
  \/ Live(r) /\ CallFails(r)

AnswerStep(o) == Answer(o) /\ UNCHANGED engineVars

StopStep(r) ==
  /\ pc[r] \notin {"direct", "done"}
  /\ Cancel(r) \/ Expire(r)
  /\ UNCHANGED engineVars

Next ==
  \/ \E r \in Runs : RunStep(r) \/ ProviderStep(r) \/ StopStep(r)
  \/ \E o \in Slots : CallStep(o) \/ AnswerStep(o)

\* The runtime keeps polling every run and every call of its batch.
Fairness ==
  /\ \A r \in Runs : WF_vars(RunStep(r))
  /\ \A o \in Slots : WF_vars(CallStep(o))

Spec == Init /\ [][Next]_vars /\ Fairness

-----------------------------------------------------------------------------
Executing(o) == phase[o] \in {"running", "grace"}

TypeOK ==
  /\ BrokerTypeOK
  /\ pc \in [Runs -> Pc]
  /\ modelCalls \in [Runs -> 0..MaxModelCalls]
  /\ attempt \in [Runs -> 0..1]
  /\ \A r \in Runs : wanted[r] \in Seq(Sigs) /\ taken[r] \in 0..Len(wanted[r])
  /\ dispatched \in [Runs -> BOOLEAN]
  /\ admissions \in 0..MaxVms

(* A run's ledger balances when it is over, whichever call of a batch was  *)
(* refused, stopped or failed, and after whichever of the others: the      *)
(* identities finalize_usage asserts.                                      *)
LedgerBalances ==
  \A r \in Runs : pc[r] = "done" =>
    /\ usage[r]["calls"] = Classified(usage[r])
    /\ usage[r]["issued"] = Settled(usage[r])

(* A run reported Completed has a valid success for every tool it began:   *)
(* no program resumes past a call that failed, timed out or was cut off.   *)
CompletedIsConfirmed ==
  \A r \in Runs : status[r] = "Completed" => starts[r] = confirmed[r]

(* A state-changing call whose outcome the ledger does not know makes the  *)
(* run Failed: it is never reported as cancelled or out of budget, which a *)
(* caller may take for a reason to try again.                              *)
UncertaintyIsTold ==
  \A r \in Runs : \A s \in Sigs :
    pc[r] = "done" /\ effects[r][s] \in {"dispatched", "uncertain"}
      => status[r] = "Failed"

(* What a run reports of its program is what happened: every call is in    *)
(* the ledger once, success is of confirmed calls only, and an unknown     *)
(* effect is never passed over.                                            *)
ReportsTruth == LedgerBalances /\ CompletedIsConfirmed /\ UncertaintyIsTold

(* A run that falls back to the direct loop has begun no tool, and it has  *)
(* a model call left to answer with; a program that returned has one left  *)
(* for its synthesis, so effects are never without their answer for lack   *)
(* of budget.                                                              *)
AnswerIsReserved ==
  \A r \in Runs :
    /\ pc[r] = "synthesize" => modelCalls[r] < MaxModelCalls
    /\ pc[r] = "direct" /\ MaxModelCalls - (IF r \in Adaptive THEN 1 ELSE 0) >= 2 =>
         modelCalls[r] < MaxModelCalls /\ \A s \in Sigs : starts[r][s] = 0

(* Admissions are neither leaked nor forged: what is not free is held by a *)
(* run inside its programmatic part, on every way out of it.               *)
AdmissionsBalance ==
  admissions + Cardinality({r \in Runs : Admitted(r)}) = MaxVms

(* A program keeps what its run needs to finish, and gives back what other *)
(* runs need to begin.                                                     *)
ReservesHold == AnswerIsReserved /\ AdmissionsBalance

(* Calls of one run overlap only in a fan-out of parallel-safe reads, and  *)
(* none of a batch begins while another is still being authorized.         *)
BatchDiscipline ==
  \A o, p \in Slots : RunOf[o] = RunOf[p] /\ o # p /\ Executing(o) =>
    /\ phase[p] \notin PrepPhases \cup {"ready"}
    /\ Executing(p) => {call[o], call[p]} \subseteq ParallelSafe

(* A stopped run ends (or has left for the direct loop) although the       *)
(* provider, the policy, the approver or a tool may never answer.          *)
StoppedRunEnds == <>[](\A r \in Runs : ~Live(r) => pc[r] \in {"direct", "done"})
=============================================================================
