------------------------------- MODULE Broker -------------------------------
(***************************************************************************)
(* The tool broker of llama-harness-core (broker.rs): the one boundary     *)
(* every tool proposal crosses, whichever strategy made it.  A proposal is *)
(* prepared (validated, counted, authorized), dispatched (its effect       *)
(* recorded before anything runs), executed under a runner-wide keyed      *)
(* permit, and settled back into the run's ledger.                         *)
(*                                                                         *)
(* A slot is one in-flight occurrence of a call; the strategy that owns it *)
(* (DirectRun: one slot per run) drives it through its phases.  The module *)
(* has no Next of its own: strategies compose its actions with theirs.     *)
(***************************************************************************)
EXTENDS Naturals, FiniteSets

CONSTANTS
  Runs,          \* runs sharing one AgentRunner
  Slots,         \* call occurrences that may be in flight
  RunOf,         \* the run a slot belongs to
  Sigs,          \* invocation signatures: a tool and its canonical arguments
  ReadOnly,      \* the signatures whose tool is declared read-only
  Keys,          \* concurrency keys
  KeyOf,         \* the concurrency key of a signature's tool, or NoKey
  NoKey,
  NoSlot,
  Reusing,       \* runs with reuse_committed_effects (those that ran a plan)
  PartyErrors,   \* error classes a provider, policy, approver or tool reports by itself
  MaxToolCalls,  \* limits.max_tool_calls
  MaxIdentical   \* limits.max_identical_tool_calls

ASSUME SlotAssumption == RunOf \in [Slots -> Runs] /\ NoSlot \notin Slots
ASSUME SigAssumption ==
  /\ Sigs # {}
  /\ ReadOnly \subseteq Sigs
  /\ NoKey \notin Keys
  /\ KeyOf \in [Sigs -> Keys \cup {NoKey}]
ASSUME ReusingAssumption == Reusing \subseteq Runs
ASSUME LimitAssumption == MaxToolCalls \in Nat /\ MaxIdentical \in Nat

VARIABLES
  usage,      \* the counters of BrokerState
  seen,       \* identical_calls
  effects,    \* effects: what the run knows of each state-changing signature
  status,     \* RunResult.status
  stop,       \* the run's cancellation token and deadline
  phase,      \* where a slot's call is
  call,       \* the signature a slot is working on
  err,        \* the error class a failed slot carries
  before,     \* the counters the strategy read before prepare
  holder,     \* who holds each keyed permit
  starts,     \* history: how often a run began executing a signature
  confirmed   \* history: how often such an execution returned a valid success

ledgerVars == <<usage, seen, effects>>
slotVars == <<phase, call, err, before>>
historyVars == <<starts, confirmed>>
brokerVars == <<usage, seen, effects, status, stop, phase, call, err, before,
                holder, starts, confirmed>>

\* HarnessError, by what run_direct and the broker do with it.
Errors == {"none", "cancelled", "timedOut", "resource", "tool"}
ASSUME PartyErrorAssumption == PartyErrors \subseteq Errors \ {"none"}

Counters == {"calls", "issued", "reused", "rejected", "aborted",
             "completed", "failed", "cancelled"}
Effect == {"none", "dispatched", "uncertain", "completed"}
Status == {"Failed", "Completed", "Cancelled", "LimitReached"}
PrepPhases == {"policy", "approval"}
ExecPhases == {"starting", "waiting", "running", "grace"}
Phase == {"idle", "ready", "rejected", "reused", "limit", "prepErr",
          "execOk", "execFail", "execErr"} \cup PrepPhases \cup ExecPhases

\* What the locals of a slot hold while no call occupies it.
AnySig == CHOOSE s \in Sigs : TRUE

BrokerInit ==
  /\ usage = [r \in Runs |-> [c \in Counters |-> 0]]
  /\ seen = [r \in Runs |-> [s \in Sigs |-> 0]]
  /\ effects = [r \in Runs |-> [s \in Sigs |-> "none"]]
  /\ status = [r \in Runs |-> "Failed"]
  /\ stop = [r \in Runs |-> "live"]
  /\ phase = [o \in Slots |-> "idle"]
  /\ call = [o \in Slots |-> AnySig]
  /\ err = [o \in Slots |-> "none"]
  /\ before = [o \in Slots |-> <<0, 0>>]
  /\ holder = [k \in Keys |-> NoSlot]
  /\ starts = [r \in Runs |-> [s \in Sigs |-> 0]]
  /\ confirmed = [r \in Runs |-> [s \in Sigs |-> 0]]

-----------------------------------------------------------------------------
(* Reading and counting.                                                   *)

Live(r) == stop[r] = "live"

\* check_stopped: cancellation is reported before an elapsed deadline.
StopError(r) == IF stop[r] = "cancelled" THEN "cancelled" ELSE "timedOut"

\* apply_terminal_error
ErrorStatus(e) ==
  CASE e = "cancelled" -> "Cancelled"
    [] e = "resource" -> "LimitReached"
    [] OTHER -> "Failed"

Classified(u) == u["issued"] + u["reused"] + u["rejected"] + u["aborted"]
Settled(u) == u["completed"] + u["failed"] + u["cancelled"]

Bump(r, cs) ==
  usage' = [usage EXCEPT ![r] = [c \in Counters |->
                                   IF c \in cs THEN usage[r][c] + 1 ELSE usage[r][c]]]

\* Cancelled and TimedOut count one way, every other error another.
Interrupted(e) == e \in {"cancelled", "timedOut"}

Mutates(s) == s \notin ReadOnly

RecordEffect(r, s, e) ==
  effects' = IF Mutates(s) THEN [effects EXCEPT ![r][s] = e] ELSE effects

RecoveryIsSafe(r) == \A s \in Sigs : effects[r][s] \in {"none", "completed"}

\* The call is over: its locals go out of scope.
FreeSlot(o) ==
  /\ phase' = [phase EXCEPT ![o] = "idle"]
  /\ call' = [call EXCEPT ![o] = AnySig]
  /\ err' = [err EXCEPT ![o] = "none"]
  /\ before' = [before EXCEPT ![o] = <<0, 0>>]

-----------------------------------------------------------------------------
(* prepare: everything up to the policy decision is one synchronous step.  *)

\* The strategy reads the counters, then calls prepare(s).
Preparing(o, s) ==
  /\ phase[o] = "idle"
  /\ call' = [call EXCEPT ![o] = s]
  /\ before' = [before EXCEPT ![o] = <<usage[RunOf[o]]["calls"], Classified(usage[RunOf[o]])>>]
  /\ UNCHANGED <<stop, holder, historyVars>>

PrepareStopped(o, s) ==
  /\ Preparing(o, s)
  /\ ~Live(RunOf[o])
  /\ phase' = [phase EXCEPT ![o] = "prepErr"]
  /\ err' = [err EXCEPT ![o] = StopError(RunOf[o])]
  /\ UNCHANGED <<ledgerVars, status>>

PrepareOverBudget(o, s) ==
  /\ Preparing(o, s)
  /\ Live(RunOf[o])
  /\ usage[RunOf[o]]["calls"] >= MaxToolCalls
  /\ status' = [status EXCEPT ![RunOf[o]] = "LimitReached"]
  /\ phase' = [phase EXCEPT ![o] = "limit"]
  /\ UNCHANGED <<ledgerVars, err>>

Admitting(o, s) ==
  /\ Preparing(o, s)
  /\ Live(RunOf[o])
  /\ usage[RunOf[o]]["calls"] < MaxToolCalls

\* Oversized, malformed or too deep arguments, an unknown or disallowed tool,
\* a caller or schema mismatch: counted, rejected, and reported to the model.
PrepareUnusable(o, s) ==
  /\ Admitting(o, s)
  /\ Bump(RunOf[o], {"calls", "rejected"})
  /\ phase' = [phase EXCEPT ![o] = "rejected"]
  /\ UNCHANGED <<seen, effects, status, err>>

\* MUTANT of KnownEffect: only confirmed effects are recalled.
KnownEffectIfCompleted(r, s) == r \in Reusing /\ Mutates(s) /\ effects[r][s] = "completed"

\* reusable_effect: what the ledger already knows of a state-changing call.
KnownEffect(r, s) == r \in Reusing /\ Mutates(s) /\ effects[r][s] # "none"

PrepareReused(o, s) ==
  /\ Admitting(o, s)
  /\ KnownEffect(RunOf[o], s)
  /\ effects[RunOf[o]][s] = "completed"
  /\ Bump(RunOf[o], {"calls", "reused"})
  /\ phase' = [phase EXCEPT ![o] = "reused"]
  /\ UNCHANGED <<seen, effects, status, err>>

PrepareUncertain(o, s) ==
  /\ Admitting(o, s)
  /\ KnownEffect(RunOf[o], s)
  /\ effects[RunOf[o]][s] # "completed"
  /\ Bump(RunOf[o], {"calls"})
  /\ phase' = [phase EXCEPT ![o] = "prepErr"]
  /\ err' = [err EXCEPT ![o] = "tool"]
  /\ UNCHANGED <<seen, effects, status>>

\* account_signature past the identical-call limit.
PrepareRepeated(o, s) ==
  /\ Admitting(o, s)
  /\ ~KnownEffect(RunOf[o], s)
  /\ seen[RunOf[o]][s] >= MaxIdentical
  /\ seen' = [seen EXCEPT ![RunOf[o]][s] = @ + 1]
  /\ Bump(RunOf[o], {"calls", "rejected"})
  /\ status' = [status EXCEPT ![RunOf[o]] = "LimitReached"]
  /\ phase' = [phase EXCEPT ![o] = "limit"]
  /\ UNCHANGED <<effects, err>>

\* MUTANT of PrepareAdmitted: off by one at the identical-call limit.
PrepareAdmittedOnceMore(o, s) ==
  /\ Admitting(o, s)
  /\ ~KnownEffect(RunOf[o], s)
  /\ seen[RunOf[o]][s] <= MaxIdentical
  /\ seen' = [seen EXCEPT ![RunOf[o]][s] = @ + 1]
  /\ Bump(RunOf[o], {"calls"})
  /\ phase' = [phase EXCEPT ![o] = "policy"]
  /\ UNCHANGED <<effects, status, err>>

PrepareAdmitted(o, s) ==
  /\ Admitting(o, s)
  /\ ~KnownEffect(RunOf[o], s)
  /\ seen[RunOf[o]][s] < MaxIdentical
  /\ seen' = [seen EXCEPT ![RunOf[o]][s] = @ + 1]
  /\ Bump(RunOf[o], {"calls"})
  /\ phase' = [phase EXCEPT ![o] = "policy"]
  /\ UNCHANGED <<effects, status, err>>

Prepare(o, s) ==
  \/ PrepareStopped(o, s)
  \/ PrepareOverBudget(o, s)
  \/ PrepareUnusable(o, s)
  \/ PrepareReused(o, s)
  \/ PrepareUncertain(o, s)
  \/ PrepareRepeated(o, s)
  \/ PrepareAdmitted(o, s)

-----------------------------------------------------------------------------
(* authorize: two guarded awaits.  await_guarded polls cancellation and    *)
(* the deadline first, so an answer only counts while the run is live.     *)

PolicyAllows(o) ==
  /\ phase[o] = "policy" /\ Live(RunOf[o])
  /\ phase' = [phase EXCEPT ![o] = "ready"]
  /\ UNCHANGED <<ledgerVars, status, stop, call, err, before, holder, historyVars>>

PolicyAsksApproval(o) ==
  /\ phase[o] = "policy" /\ Live(RunOf[o])
  /\ phase' = [phase EXCEPT ![o] = "approval"]
  /\ UNCHANGED <<ledgerVars, status, stop, call, err, before, holder, historyVars>>

ApprovalGranted(o) ==
  /\ phase[o] = "approval" /\ Live(RunOf[o])
  /\ phase' = [phase EXCEPT ![o] = "ready"]
  /\ UNCHANGED <<ledgerVars, status, stop, call, err, before, holder, historyVars>>

\* Policy denies, or the approver does.
Denied(o) ==
  /\ phase[o] \in PrepPhases /\ Live(RunOf[o])
  /\ Bump(RunOf[o], {"rejected"})
  /\ phase' = [phase EXCEPT ![o] = "rejected"]
  /\ UNCHANGED <<seen, effects, status, stop, call, err, before, holder, historyVars>>

\* The policy engine or the approval handler itself fails or times out.
AuthorizerFails(o, e) ==
  /\ phase[o] \in PrepPhases /\ Live(RunOf[o])
  /\ phase' = [phase EXCEPT ![o] = "prepErr"]
  /\ err' = [err EXCEPT ![o] = e]
  /\ UNCHANGED <<ledgerVars, status, stop, call, before, holder, historyVars>>

AuthorizeStopped(o) ==
  /\ phase[o] \in PrepPhases /\ ~Live(RunOf[o])
  /\ phase' = [phase EXCEPT ![o] = "prepErr"]
  /\ err' = [err EXCEPT ![o] = StopError(RunOf[o])]
  /\ UNCHANGED <<ledgerVars, status, stop, call, before, holder, historyVars>>

\* MUTANT of PreDispatchErrorCounts: a refusal before the call was counted counts.
PreDispatchErrorAlwaysCounts(o) == Classified(usage[RunOf[o]]) = before[o][2]

\* record_pre_dispatch_error, guarded as the strategies guard it: only when
\* prepare counted the call and nothing classified it.
PreDispatchErrorCounts(o) ==
  /\ usage[RunOf[o]]["calls"] > before[o][1]
  /\ Classified(usage[RunOf[o]]) = before[o][2]

RecordPreDispatchError(o) ==
  /\ phase[o] = "prepErr"
  /\ IF PreDispatchErrorCounts(o)
       THEN Bump(RunOf[o], IF Interrupted(err[o]) THEN {"aborted"} ELSE {"rejected"})
       ELSE UNCHANGED usage
  /\ UNCHANGED <<seen, effects, stop, holder, historyVars>>

-----------------------------------------------------------------------------
(* Dispatch and execute.                                                   *)

\* mark_dispatched: the effect is on record before anything runs.
MarkDispatched(o) ==
  /\ phase[o] = "ready"
  /\ Bump(RunOf[o], {"issued"})
  /\ RecordEffect(RunOf[o], call[o], "dispatched")
  /\ phase' = [phase EXCEPT ![o] = "starting"]
  /\ UNCHANGED <<seen, status, stop, call, err, before, holder, historyVars>>

\* MUTANT of ExecuteStopped: the wait for a permit is not guarded.
ExecuteStoppedAtStart(o) ==
  /\ phase[o] = "starting" /\ ~Live(RunOf[o])
  /\ phase' = [phase EXCEPT ![o] = "execErr"]
  /\ err' = [err EXCEPT ![o] = StopError(RunOf[o])]
  /\ UNCHANGED <<ledgerVars, status, stop, call, before, holder, historyVars>>

\* execute's check_stopped before the permit, in the permit wait, and after it.
ExecuteStopped(o) ==
  /\ phase[o] \in {"starting", "waiting"} /\ ~Live(RunOf[o])
  /\ phase' = [phase EXCEPT ![o] = "execErr"]
  /\ err' = [err EXCEPT ![o] = StopError(RunOf[o])]
  /\ UNCHANGED <<ledgerVars, status, stop, call, before, holder, historyVars>>

AwaitPermit(o) ==
  /\ phase[o] = "starting" /\ Live(RunOf[o])
  /\ KeyOf[call[o]] # NoKey
  /\ phase' = [phase EXCEPT ![o] = "waiting"]
  /\ UNCHANGED <<ledgerVars, status, stop, call, err, before, holder, historyVars>>

Invoke(o) ==
  /\ phase' = [phase EXCEPT ![o] = "running"]
  /\ starts' = [starts EXCEPT ![RunOf[o]][call[o]] = @ + 1]
  /\ UNCHANGED <<ledgerVars, status, stop, call, err, before, confirmed>>

InvokeUnkeyed(o) ==
  /\ phase[o] = "starting" /\ Live(RunOf[o])
  /\ KeyOf[call[o]] = NoKey
  /\ Invoke(o)
  /\ UNCHANGED holder

\* MUTANT of InvokeWithPermit: no stop check once the permit is there.
InvokeWithPermitUnchecked(o) ==
  /\ phase[o] = "waiting"
  /\ holder[KeyOf[call[o]]] = NoSlot
  /\ holder' = [holder EXCEPT ![KeyOf[call[o]]] = o]
  /\ Invoke(o)

InvokeWithPermit(o) ==
  /\ phase[o] = "waiting" /\ Live(RunOf[o])
  /\ holder[KeyOf[call[o]]] = NoSlot
  /\ holder' = [holder EXCEPT ![KeyOf[call[o]]] = o]
  /\ Invoke(o)

\* Leaving execute drops the OwnedSemaphorePermit.
ReleasePermit(o) == holder' = [k \in Keys |-> IF holder[k] = o THEN NoSlot ELSE holder[k]]

\* The tool's future resolves while the run is live: a valid success, a failure
\* (its own, or output that fails validation), or an error of execute (the tool
\* returned Err, or its result is too large or too deep).
ToolSucceeds(o) ==
  /\ phase[o] = "running" /\ Live(RunOf[o])
  /\ phase' = [phase EXCEPT ![o] = "execOk"]
  /\ confirmed' = [confirmed EXCEPT ![RunOf[o]][call[o]] = @ + 1]
  /\ ReleasePermit(o)
  /\ UNCHANGED <<ledgerVars, status, stop, call, err, before, starts>>

ToolFails(o) ==
  /\ phase[o] = "running" /\ Live(RunOf[o])
  /\ phase' = [phase EXCEPT ![o] = "execFail"]
  /\ ReleasePermit(o)
  /\ UNCHANGED <<ledgerVars, status, stop, call, err, before, historyVars>>

\* MUTANT of ToolErrors: the error path returns with the permit.
ToolErrorsKeepingPermit(o, e) ==
  /\ phase[o] = "running" /\ Live(RunOf[o])
  /\ phase' = [phase EXCEPT ![o] = "execErr"]
  /\ err' = [err EXCEPT ![o] = e]
  /\ UNCHANGED <<ledgerVars, status, stop, call, before, holder, historyVars>>

ToolErrors(o, e) ==
  /\ phase[o] = "running" /\ Live(RunOf[o])
  /\ phase' = [phase EXCEPT ![o] = "execErr"]
  /\ err' = [err EXCEPT ![o] = e]
  /\ ReleasePermit(o)
  /\ UNCHANGED <<ledgerVars, status, stop, call, before, historyVars>>

\* MUTANT of BeginGrace: the permit is released when the stop is seen.
BeginGraceReleasing(o) ==
  /\ phase[o] = "running" /\ ~Live(RunOf[o])
  /\ phase' = [phase EXCEPT ![o] = "grace"]
  /\ err' = [err EXCEPT ![o] = StopError(RunOf[o])]
  /\ ReleasePermit(o)
  /\ UNCHANGED <<ledgerVars, status, stop, call, before, historyVars>>

\* MUTANT of BeginGrace: a deadline during a tool is reported as a cancellation.
BeginGraceAsCancelled(o) ==
  /\ phase[o] = "running" /\ ~Live(RunOf[o])
  /\ phase' = [phase EXCEPT ![o] = "grace"]
  /\ err' = [err EXCEPT ![o] = "cancelled"]
  /\ UNCHANGED <<ledgerVars, status, stop, call, before, holder, historyVars>>

\* await_dispatched_tool: a stop signals the child token and keeps polling the
\* same future, permit still held, for TOOL_CLEANUP_GRACE.
BeginGrace(o) ==
  /\ phase[o] = "running" /\ ~Live(RunOf[o])
  /\ phase' = [phase EXCEPT ![o] = "grace"]
  /\ err' = [err EXCEPT ![o] = StopError(RunOf[o])]
  /\ UNCHANGED <<ledgerVars, status, stop, call, before, holder, historyVars>>

\* MUTANT of EndGrace: the permit stays with the abandoned call.
EndGraceKeepingPermit(o) ==
  /\ phase[o] = "grace"
  /\ phase' = [phase EXCEPT ![o] = "execErr"]
  /\ UNCHANGED <<ledgerVars, status, stop, call, err, before, holder, historyVars>>

\* The future resolved or was dropped; its outcome is discarded either way.
EndGrace(o) ==
  /\ phase[o] = "grace"
  /\ phase' = [phase EXCEPT ![o] = "execErr"]
  /\ ReleasePermit(o)
  /\ UNCHANGED <<ledgerVars, status, stop, call, err, before, historyVars>>

\* MUTANT of RecordExecution: a failed call is recorded as a completed effect.
RecordExecutionOptimistic(o) ==
  /\ phase[o] \in {"execOk", "execFail"}
  /\ Bump(RunOf[o], IF phase[o] = "execOk" THEN {"completed"} ELSE {"failed"})
  /\ RecordEffect(RunOf[o], call[o], "completed")
  /\ UNCHANGED <<seen, stop, holder, historyVars>>

\* record_execution
RecordExecution(o) ==
  /\ phase[o] \in {"execOk", "execFail"}
  /\ Bump(RunOf[o], IF phase[o] = "execOk" THEN {"completed"} ELSE {"failed"})
  /\ RecordEffect(RunOf[o], call[o], IF phase[o] = "execOk" THEN "completed" ELSE "uncertain")
  /\ UNCHANGED <<seen, stop, holder, historyVars>>

\* record_execution_error and mark_uncertain
RecordExecutionError(o) ==
  /\ phase[o] = "execErr"
  /\ Bump(RunOf[o], IF Interrupted(err[o]) THEN {"cancelled"} ELSE {"failed"})
  /\ RecordEffect(RunOf[o], call[o], "uncertain")
  /\ UNCHANGED <<seen, stop, holder, historyVars>>

-----------------------------------------------------------------------------
(* The application cancels a run; a configured deadline passes.            *)

Cancel(r) ==
  /\ stop[r] # "cancelled"
  /\ stop' = [stop EXCEPT ![r] = "cancelled"]
  /\ UNCHANGED <<ledgerVars, status, slotVars, holder, historyVars>>

Expire(r) ==
  /\ Live(r)
  /\ stop' = [stop EXCEPT ![r] = "expired"]
  /\ UNCHANGED <<ledgerVars, status, slotVars, holder, historyVars>>

\* What other parties decide for a slot: policy, approver, tool.
Answer(o) ==
  \/ PolicyAllows(o)
  \/ PolicyAsksApproval(o)
  \/ ApprovalGranted(o)
  \/ Denied(o)
  \/ \E e \in PartyErrors : AuthorizerFails(o, e)
  \/ ToolSucceeds(o)
  \/ ToolFails(o)
  \/ \E e \in PartyErrors \cup {"resource"} : ToolErrors(o, e)

\* What the runtime does for a slot without waiting for another party.
SlotStep(o) ==
  \/ AuthorizeStopped(o)
  \/ MarkDispatched(o)
  \/ ExecuteStopped(o)
  \/ AwaitPermit(o)
  \/ InvokeUnkeyed(o)
  \/ InvokeWithPermit(o)
  \/ BeginGrace(o)
  \/ EndGrace(o)

BrokerTypeOK ==
  /\ usage \in [Runs -> [Counters -> Nat]]
  /\ seen \in [Runs -> [Sigs -> Nat]]
  /\ effects \in [Runs -> [Sigs -> Effect]]
  /\ status \in [Runs -> Status]
  /\ stop \in [Runs -> {"live", "expired", "cancelled"}]
  /\ phase \in [Slots -> Phase]
  /\ call \in [Slots -> Sigs]
  /\ err \in [Slots -> Errors]
  /\ before \in [Slots -> Nat \X Nat]
  /\ holder \in [Keys -> Slots \cup {NoSlot}]
  /\ starts \in [Runs -> [Sigs -> Nat]]
  /\ confirmed \in [Runs -> [Sigs -> Nat]]
=============================================================================
