----------------------------- MODULE Speculation -----------------------------
(***************************************************************************)
(* Guarded speculation of llama-harness-core (speculation.rs, and its part *)
(* of broker.rs and runner.rs): while a run streams a response, the        *)
(* finalized call at index 0 becomes a candidate, which in Active mode     *)
(* executes before the stream ends and may then be committed in the place  *)
(* of the ordinary execution of that call.                                 *)
(*                                                                         *)
(* One turn per run: the stream, its candidate, and the call at index 0.   *)
(* Runs of one AgentRunner share the controller, its one slot, and the     *)
(* keyed permits of module Broker; a run's candidate is a slot of its own  *)
(* there.  What other turns do is module DirectRun.                        *)
(***************************************************************************)
EXTENDS Broker

CONSTANTS
  Eligible,    \* signatures whose tool satisfies every static safety gate
  Required,    \* required_shadow_observations
  Asks         \* the calls each run's model may finalize at index 0

ASSUME SpeculationAssumption ==
  /\ Eligible \subseteq ReadOnly
  /\ Required \in Nat
  /\ Asks \in [Runs -> SUBSET Sigs]
  /\ Slots = Runs \X {"direct", "candidate"}
  /\ RunOf = [o \in Slots |-> o[1]]

VARIABLES
  mode,        \* ToolState.mode
  exact,       \* ToolState.exact_shadow_observations
  meter,       \* ToolState.metrics: the counters the breaker and the balance read
  slot,        \* the runner-wide speculation slot
  pc,          \* where a run's turn is
  want,        \* the finalized call at index 0
  cand,        \* the run's candidate
  due,         \* the deadline that has passed: of the candidate, or of the call
  committed    \* history: runs whose candidate was committed

controllerVars == <<mode, exact, meter>>
turnVars == <<pc, want, cand, due, committed>>
vars == <<brokerVars, controllerVars, slot, turnVars>>

Meters == {"issued", "inFlight", "committed", "discarded", "cancelled", "failures"}
Pc == {"stream", "tail", "drainFailed", "drainStopped", "answered", "commit", "deciding",
       "direct", "done"}
Attempting == {"new", "ordinary", "dedicated", "issuing", "running", "grace"}
Leased == {"running", "grace", "ready"}
Candidate == {"open", "none", "shadow", "ready", "spent"} \cup Attempting

Direct(r) == <<r, "direct">>
CandidateOf(r) == <<r, "candidate">>

\* Earlier turns of the runner may have observed enough shadow matches.
Init ==
  /\ BrokerInit
  /\ mode = [t \in Eligible |-> "Shadow"]
  /\ exact \in [Eligible -> 0..Required]
  /\ meter = [t \in Eligible |-> [c \in Meters |-> 0]]
  /\ slot = NoSlot
  /\ pc = [r \in Runs |-> "stream"]
  /\ want = [r \in Runs |-> AnySig]
  /\ cand = [r \in Runs |-> "open"]
  /\ due = [r \in Runs |-> "none"]
  /\ committed = {}

-----------------------------------------------------------------------------
(* The controller: each operation is one critical section.                 *)

Incidents(t) == meter[t]["discarded"] + meter[t]["cancelled"] + meter[t]["failures"]

Active(t) == mode[t] = "Active"

Count(t, up, down) ==
  meter' = [meter EXCEPT ![t] = [c \in Meters |->
              CASE c \in up -> meter[t][c] + 1 [] c \in down -> meter[t][c] - 1 [] OTHER -> meter[t][c]]]

Trip(t) == mode' = [mode EXCEPT ![t] = "Shadow"] /\ exact' = [exact EXCEPT ![t] = 0]

\* MUTANT of Ready: incidents are forgotten once the streak is back.
ReadyAgain(t) == mode[t] = "Shadow" /\ exact[t] >= Required

\* state_is_ready
Ready(t) == mode[t] = "Shadow" /\ exact[t] >= Required /\ Incidents(t) = 0

\* activate_speculation and return_speculation_to_shadow, called by the host.
Activate(t) ==
  /\ Ready(t)
  /\ mode' = [mode EXCEPT ![t] = "Active"]
  /\ UNCHANGED <<brokerVars, exact, meter, slot, turnVars>>

ReturnToShadow(t) == Trip(t) /\ UNCHANGED <<brokerVars, meter, slot, turnVars>>

\* record_resolution, from SpeculativeLease's settle or drop; the permits follow.
Settle(r, resolution) ==
  /\ Count(want[r], {resolution}, {"inFlight"})
  /\ Trip(want[r])
  /\ cand' = [cand EXCEPT ![r] = "spent"]

\* A run gives its candidate up: only a ready one holds anything.
GiveUp(r, resolution) ==
  IF cand[r] = "ready"
    THEN Settle(r, resolution)
    ELSE cand' = [cand EXCEPT ![r] = "none"] /\ UNCHANGED controllerVars

-----------------------------------------------------------------------------
(* The candidate: the pinned future of ToolBroker::speculate, polled by    *)
(* the run's own task.                                                     *)

\* Not between two synchronous steps of the task.
Awaits(r) == cand[r] \notin {"issuing", "spent"}

\* The call's deadline or the run's token wins over everything else the stream
\* loop waits for; the candidate's own deadline ends the candidate.
StreamLive(r) == pc[r] = "stream" /\ stop[r] # "cancelled" /\ due[r] # "call"
CandidateLive(r) == (StreamLive(r) \/ pc[r] = "tail") /\ stop[r] # "cancelled" /\ due[r] = "none"
CandidateStopped(r) ==
  \/ pc[r] \in {"drainFailed", "drainStopped"}
  \/ (StreamLive(r) \/ pc[r] = "tail") /\ ~CandidateLive(r)

Move(r, c) == cand' = [cand EXCEPT ![r] = c]

OutOfTurn == UNCHANGED <<ledgerVars, status, stop, slotVars, historyVars, pc, want, due, committed>>

\* SpeculativeAttempt::NotIssued: the slot and the permit go with the future.
NotIssued(r) ==
  /\ Move(r, "none")
  /\ slot' = NoSlot
  /\ ReleasePermit(CandidateOf(r))
  /\ OutOfTurn /\ UNCHANGED controllerVars

CandidateStarts(r) ==
  /\ cand[r] = "new" /\ CandidateLive(r)
  /\ \/ ~Active(want[r]) /\ NotIssued(r)
     \/ Active(want[r]) /\ Move(r, "ordinary") /\ OutOfTurn /\ UNCHANGED <<controllerVars, slot, holder>>

OrdinaryAllows(r) ==
  /\ cand[r] = "ordinary" /\ CandidateLive(r)
  /\ Move(r, "dedicated")
  /\ OutOfTurn /\ UNCHANGED <<controllerVars, slot, holder>>

\* Either policy denies, fails or wants an approval; the limiter is contended.
PreIssueFails(r) ==
  /\ cand[r] \in {"ordinary", "dedicated"} /\ CandidateLive(r)
  /\ NotIssued(r)

\* MUTANT of KeyFree: the permit is not tried.
KeyFreeAssumed(s) == s \in Sigs

KeyFree(s) == KeyOf[s] = NoKey \/ holder[KeyOf[s]] = NoSlot

\* The keyed permit is tried without waiting, and every gate read once more.
DedicatedAllows(r) ==
  /\ cand[r] = "dedicated" /\ CandidateLive(r)
  /\ \/ ~(Active(want[r]) /\ KeyFree(want[r])) /\ NotIssued(r)
     \/ /\ Active(want[r]) /\ KeyFree(want[r])
        /\ Move(r, "issuing")
        /\ holder' = [k \in Keys |-> IF k = KeyOf[want[r]] THEN CandidateOf(r) ELSE holder[k]]
        /\ OutOfTurn /\ UNCHANGED <<controllerVars, slot>>

\* SpeculativeLease::new, and the tool is called.
Issue(r) ==
  /\ cand[r] = "issuing"
  /\ Count(want[r], {"issued", "inFlight"}, {})
  /\ Move(r, "running")
  /\ OutOfTurn /\ UNCHANGED <<mode, exact, slot, holder>>

CandidateSucceeds(r) ==
  /\ cand[r] = "running" /\ CandidateLive(r)
  /\ Move(r, "ready")
  /\ OutOfTurn /\ UNCHANGED <<controllerVars, slot, holder>>

\* The tool fails, or returns what cannot be reused.
CandidateFails(r) ==
  /\ cand[r] = "running" /\ CandidateLive(r)
  /\ \E resolution \in {"discarded", "cancelled"} : Settle(r, resolution)
  /\ OutOfTurn /\ UNCHANGED <<slot, holder>>

\* MUTANT of CandidateStops: the policy awaits of a candidate are not guarded.
CandidateStopsTool(r) ==
  /\ CandidateStopped(r)
  /\ cand[r] = "running"
  /\ Move(r, "grace") /\ OutOfTurn /\ UNCHANGED <<controllerVars, slot, holder>>

\* Every await of the candidate sees its token and its deadline; a tool that
\* was called gets its cleanup grace, the permits still held.
CandidateStops(r) ==
  /\ CandidateStopped(r)
  /\ \/ cand[r] \in {"new", "ordinary", "dedicated"} /\ NotIssued(r)
     \/ /\ cand[r] = "running"
        /\ Move(r, "grace")
        /\ OutOfTurn /\ UNCHANGED <<controllerVars, slot, holder>>

CandidateGraceEnds(r) ==
  /\ cand[r] = "grace"
  /\ Settle(r, "cancelled")
  /\ OutOfTurn /\ UNCHANGED <<slot, holder>>

\* MUTANT of Release: the keyed permit stays behind.
ReleaseSlotOnly(r) ==
  /\ cand[r] = "spent"
  /\ Move(r, "none")
  /\ slot' = NoSlot
  /\ OutOfTurn /\ UNCHANGED <<controllerVars, holder>>

\* The settled lease and its call are dropped, and with them their permits.
Release(r) ==
  /\ cand[r] = "spent"
  /\ Move(r, "none")
  /\ slot' = NoSlot
  /\ ReleasePermit(CandidateOf(r))
  /\ OutOfTurn /\ UNCHANGED controllerVars

-----------------------------------------------------------------------------
(* The stream: stream_reactive_response.                                   *)

Goto(r, l) == pc' = [pc EXCEPT ![r] = l]

OutOfBroker == UNCHANGED <<ledgerVars, stop, slotVars, holder, historyVars>>

Finish(r, st) == Goto(r, "done") /\ status' = [status EXCEPT ![r] = st]

\* The call at index 0 is finalized: a shadow candidate, an active one if the
\* slot is free, or none (ineligible, invalid, or the slot is taken).
Capture(r, s) ==
  /\ StreamLive(r) /\ cand[r] = "open"
  /\ want' = [want EXCEPT ![r] = s]
  /\ \/ Move(r, "none") /\ UNCHANGED slot
     \/ s \in Eligible /\ ~Active(s) /\ Move(r, "shadow") /\ UNCHANGED slot
     \/ s \in Eligible /\ Active(s) /\ slot = NoSlot /\ Move(r, "new") /\ slot' = CandidateOf(r)
  /\ OutOfBroker /\ UNCHANGED <<status, controllerVars, pc, due, committed>>

\* MUTANT of CandidateLate: the late candidate is dropped without its lease.
CandidateLateUnsettled(r) ==
  /\ StreamLive(r) /\ cand[r] = "ready" /\ due[r] # "none"
  /\ Move(r, "none")
  /\ slot' = NoSlot
  /\ ReleasePermit(CandidateOf(r))
  /\ OutOfTurn /\ UNCHANGED controllerVars

\* A ready candidate is late; the stream goes on.
CandidateLate(r) ==
  /\ StreamLive(r) /\ cand[r] = "ready" /\ due[r] # "none"
  /\ GiveUp(r, "discarded")
  /\ OutOfBroker /\ UNCHANGED <<status, slot, pc, want, due, committed>>

\* A provider error, a broken or too long stream.
StreamFails(r) ==
  /\ StreamLive(r) /\ Awaits(r)
  /\ \/ /\ cand[r] \in Attempting
        /\ Goto(r, "drainFailed")
        /\ UNCHANGED <<status, cand, controllerVars>>
     \/ /\ cand[r] \in {"open", "none"}
        /\ Finish(r, "Failed")
        /\ UNCHANGED <<cand, controllerVars>>
     \/ /\ cand[r] = "shadow"
        /\ Count(want[r], {"failures"}, {}) /\ Trip(want[r])
        /\ Finish(r, "Failed") /\ Move(r, "none")
     \/ /\ cand[r] = "ready"
        /\ Count(want[r], {"failures", "discarded"}, {"inFlight"}) /\ Trip(want[r])
        /\ Finish(r, "Failed") /\ Move(r, "spent")
  /\ OutOfBroker /\ UNCHANGED <<slot, want, due, committed>>

StreamStopped(r) ==
  /\ pc[r] = "stream" /\ ~StreamLive(r) /\ Awaits(r)
  /\ \/ /\ cand[r] \in Attempting
        /\ Goto(r, "drainStopped")
        /\ UNCHANGED <<status, cand, controllerVars>>
     \/ /\ cand[r] \notin Attempting
        /\ Finish(r, ErrorStatus(StopError(r)))
        /\ GiveUp(r, "cancelled")
  /\ OutOfBroker /\ UNCHANGED <<slot, want, due, committed>>

\* cancel_and_drain_attempt is over.
Drained(r) ==
  /\ cand[r] = "none"
  /\ \/ /\ pc[r] = "drainFailed"
        /\ Count(want[r], {"failures"}, {}) /\ Trip(want[r])
        /\ Finish(r, "Failed")
     \/ /\ pc[r] = "drainStopped"
        /\ Finish(r, ErrorStatus(StopError(r)))
        /\ UNCHANGED controllerVars
  /\ OutOfBroker /\ UNCHANGED <<slot, want, cand, due, committed>>

\* The stream completes: with text alone, or with the captured call.
StreamCompletes(r) ==
  /\ StreamLive(r) /\ Awaits(r)
  /\ \/ cand[r] = "open" /\ Finish(r, "Completed")
     \/ cand[r] # "open" /\ Goto(r, "tail") /\ UNCHANGED status
  /\ OutOfBroker /\ UNCHANGED <<controllerVars, slot, want, cand, due, committed>>

\* Nothing is pending any more: the authoritative call is the captured one.
ResponseReady(r) ==
  /\ pc[r] = "tail"
  /\ Goto(r, "answered")
  /\ \/ cand[r] = "none" /\ UNCHANGED <<cand, controllerVars>>
     \/ /\ cand[r] = "shadow"
        /\ exact' = [exact EXCEPT ![want[r]] = @ + 1]
        /\ Move(r, "none")
        /\ UNCHANGED <<mode, meter>>
     \/ cand[r] = "ready" /\ due[r] = "none" /\ UNCHANGED <<cand, controllerVars>>
     \/ cand[r] = "ready" /\ due[r] # "none" /\ GiveUp(r, "discarded")
  /\ OutOfBroker /\ UNCHANGED <<status, slot, want, due, committed>>

-----------------------------------------------------------------------------
(* The call at index 0: commit_speculative, and the ordinary path.         *)

\* The response is too large, final, or overflows the transcript.
AnswerUnused(r) ==
  /\ pc[r] = "answered" /\ Awaits(r)
  /\ \E st \in {"Completed", "Failed", "LimitReached"} : Finish(r, st)
  /\ GiveUp(r, "discarded")
  /\ OutOfBroker /\ UNCHANGED <<slot, want, due, committed>>

\* The candidate's deadline is the run's own when the run has expired with it.
CommitStopped(r) ==
  /\ pc[r] = "answered" /\ cand[r] = "ready" /\ ~Live(r)
  /\ Finish(r, ErrorStatus(StopError(r)))
  /\ GiveUp(r, "cancelled")
  /\ OutOfBroker /\ UNCHANGED <<slot, want, due, committed>>

CommitNotPossible(r) ==
  /\ pc[r] = "answered" /\ cand[r] = "ready" /\ stop[r] # "cancelled"
  /\ due[r] # "none" \/ ~Active(want[r])
  /\ Goto(r, "direct")
  /\ GiveUp(r, "discarded")
  /\ OutOfBroker /\ UNCHANGED <<status, slot, want, due, committed>>

CommitPrepares(r) ==
  /\ pc[r] = "answered" /\ cand[r] = "ready"
  /\ Live(r) /\ due[r] = "none" /\ Active(want[r])
  /\ Prepare(Direct(r), want[r])
  /\ Goto(r, "commit")
  /\ UNCHANGED <<controllerVars, slot, want, cand, due, committed>>

\* MUTANT of CommitLate: the deadline is not watched during prepare.
CommitLateReady(r) ==
  /\ pc[r] = "commit" /\ cand[r] = "ready" /\ due[r] # "none"
  /\ phase[Direct(r)] = "ready"
  /\ GiveUp(r, "discarded")
  /\ OutOfBroker /\ UNCHANGED <<status, slot, pc, want, due, committed>>

\* The candidate's deadline passes while its call is prepared: the candidate
\* goes, prepare continues.
CommitLate(r) ==
  /\ pc[r] = "commit" /\ cand[r] = "ready" /\ due[r] # "none"
  /\ GiveUp(r, "discarded")
  /\ OutOfBroker /\ UNCHANGED <<status, slot, pc, want, due, committed>>

\* prepare resolved the call without an execution, or stopped the run.
CommitResolved(r) ==
  /\ pc[r] = "commit" /\ Awaits(r)
  /\ phase[Direct(r)] \in {"rejected", "reused", "limit"}
  /\ FreeSlot(Direct(r))
  /\ Goto(r, "done")
  /\ GiveUp(r, "discarded")
  /\ UNCHANGED <<ledgerVars, status, stop, holder, historyVars, slot, want, due, committed>>

CommitErrs(r) ==
  /\ pc[r] = "commit" /\ Awaits(r)
  /\ RecordPreDispatchError(Direct(r))
  /\ FreeSlot(Direct(r))
  /\ Finish(r, ErrorStatus(err[Direct(r)]))
  /\ GiveUp(r, IF Interrupted(err[Direct(r)]) /\ due[r] = "none" THEN "cancelled" ELSE "discarded")
  /\ UNCHANGED <<slot, want, due, committed>>

\* The call is authorized: decide_speculative is asked a second time, unless the
\* candidate is gone, late, or no longer active.
CommitAsks(r) ==
  /\ pc[r] = "commit" /\ Awaits(r) /\ phase[Direct(r)] = "ready"
  /\ IF cand[r] = "ready" /\ due[r] = "none" /\ Active(want[r])
       THEN Goto(r, "deciding") /\ UNCHANGED <<cand, controllerVars>>
       ELSE Goto(r, "direct") /\ GiveUp(r, "discarded")
  /\ OutOfBroker /\ UNCHANGED <<status, slot, want, due, committed>>

\* The prepared call is dropped with neither classification nor execution.
DecisionStopped(r) ==
  /\ pc[r] = "deciding" /\ Awaits(r) /\ ~Live(r)
  /\ FreeSlot(Direct(r))
  /\ Finish(r, ErrorStatus(StopError(r)))
  /\ \E resolution \in {"discarded", "cancelled"} : GiveUp(r, resolution)
  /\ UNCHANGED <<ledgerVars, stop, holder, historyVars, slot, want, due, committed>>

\* The decision is late, a denial, or an error, or the controller refuses the
\* commit: the authorized call executes, and finds a stop there.
DecisionFails(r) ==
  /\ pc[r] = "deciding" /\ Awaits(r)
  /\ Goto(r, "direct")
  /\ GiveUp(r, "discarded")
  /\ OutOfBroker /\ UNCHANGED <<status, slot, want, due, committed>>

\* MUTANT of Commit: the mode is not read again under the controller's lock.
CommitUnchecked(r) ==
  /\ pc[r] = "deciding" /\ Awaits(r) /\ Live(r)
  /\ due[r] = "none"
  /\ Count(want[r], {"committed"}, {"inFlight"})
  /\ Bump(r, {"issued", "completed"})
  /\ FreeSlot(Direct(r))
  /\ Goto(r, "done") /\ Move(r, "spent")
  /\ committed' = committed \cup {r}
  /\ UNCHANGED <<seen, effects, status, stop, holder, historyVars, mode, exact, slot, want, due>>

\* MUTANT of Commit: the committed call is executed as well.
CommitAndExecute(r) ==
  /\ pc[r] = "deciding" /\ Awaits(r) /\ Live(r)
  /\ due[r] = "none" /\ Active(want[r])
  /\ Count(want[r], {"committed"}, {"inFlight"})
  /\ Goto(r, "direct") /\ Move(r, "spent")
  /\ committed' = committed \cup {r}
  /\ OutOfBroker /\ UNCHANGED <<status, mode, exact, slot, want, due>>

\* record_commit_if_active checks everything under its lock; then the call is
\* marked dispatched and recorded as completed, and pushed.
Commit(r) ==
  /\ pc[r] = "deciding" /\ Awaits(r) /\ Live(r)
  /\ due[r] = "none" /\ Active(want[r])
  /\ Count(want[r], {"committed"}, {"inFlight"})
  /\ Bump(r, {"issued", "completed"})
  /\ FreeSlot(Direct(r))
  /\ Goto(r, "done") /\ Move(r, "spent")
  /\ committed' = committed \cup {r}
  /\ UNCHANGED <<seen, effects, status, stop, holder, historyVars, mode, exact, slot, want, due>>

\* The ordinary path, without a candidate or after one.
TakeCall(r) ==
  /\ pc[r] \in {"answered", "direct"} /\ cand[r] = "none" /\ phase[Direct(r)] = "idle"
  /\ Prepare(Direct(r), want[r])
  /\ Goto(r, "direct")
  /\ UNCHANGED <<controllerVars, slot, want, cand, due, committed>>

CallEnds(r) ==
  /\ pc[r] = "direct" /\ Awaits(r)
  /\ FreeSlot(Direct(r))
  /\ \/ /\ phase[Direct(r)] \in {"rejected", "reused", "limit"}
        /\ Goto(r, "done")
        /\ UNCHANGED <<ledgerVars, status, stop, holder, historyVars>>
     \/ RecordPreDispatchError(Direct(r)) /\ Finish(r, ErrorStatus(err[Direct(r)]))
     \/ RecordExecution(Direct(r)) /\ Goto(r, "done") /\ UNCHANGED status
     \/ RecordExecutionError(Direct(r)) /\ Finish(r, ErrorStatus(err[Direct(r)]))
  /\ UNCHANGED <<controllerVars, slot, want, cand, due, committed>>

-----------------------------------------------------------------------------
\* The candidate's own deadline; it never exceeds the call's, nor that the run's.
CandidateDue(r) ==
  /\ due[r] = "none" /\ cand[r] \in Attempting \cup {"ready"}
  /\ due' = [due EXCEPT ![r] = "candidate"]
  /\ UNCHANGED <<brokerVars, controllerVars, slot, pc, want, cand, committed>>

CallDue(r) ==
  /\ due[r] # "call" /\ pc[r] = "stream"
  /\ due' = [due EXCEPT ![r] = "call"]
  /\ UNCHANGED <<brokerVars, controllerVars, slot, pc, want, cand, committed>>

StopStep(r) ==
  /\ pc[r] # "done"
  /\ \/ Cancel(r) /\ UNCHANGED due
     \/ Expire(r) /\ due' = [due EXCEPT ![r] = "call"]
  /\ UNCHANGED <<controllerVars, slot, pc, want, cand, committed>>

\* What the task of run r does without waiting for another party.
RunStep(r) ==
  \/ CandidateStarts(r)
  \/ Issue(r)
  \/ CandidateStops(r)
  \/ CandidateGraceEnds(r)
  \/ Release(r)
  \/ CandidateLate(r)
  \/ StreamStopped(r)
  \/ Drained(r)
  \/ ResponseReady(r)
  \/ AnswerUnused(r)
  \/ CommitStopped(r)
  \/ CommitNotPossible(r)
  \/ CommitPrepares(r)
  \/ CommitLate(r)
  \/ CommitResolved(r)
  \/ CommitErrs(r)
  \/ CommitAsks(r)
  \/ DecisionStopped(r)
  \/ due[r] # "none" /\ DecisionFails(r)
  \/ TakeCall(r)
  \/ CallEnds(r)
  \/ /\ Awaits(r) /\ (phase[Direct(r)] = "ready" => pc[r] = "direct")
     /\ SlotStep(Direct(r))
     /\ UNCHANGED <<controllerVars, slot, turnVars>>

\* What the provider, the policies, the approver and the tool answer.
AnswerStep(r) ==
  \/ \E s \in Asks[r] : Capture(r, s)
  \/ StreamFails(r)
  \/ StreamCompletes(r)
  \/ OrdinaryAllows(r)
  \/ PreIssueFails(r)
  \/ DedicatedAllows(r)
  \/ CandidateSucceeds(r)
  \/ CandidateFails(r)
  \/ DecisionFails(r)
  \/ Commit(r)
  \/ Awaits(r) /\ Answer(Direct(r)) /\ UNCHANGED <<controllerVars, slot, turnVars>>

HostStep == \E t \in Eligible : Activate(t) \/ ReturnToShadow(t)

Next ==
  \/ HostStep
  \/ \E r \in Runs : RunStep(r) \/ AnswerStep(r) \/ CandidateDue(r) \/ CallDue(r) \/ StopStep(r)

Safe == Init /\ [][Next]_vars

(* The runtime polls every run, and the candidate deadline, which is always *)
(* configured, passes.  Nobody has to answer.                               *)
Spec == Safe /\ \A r \in Runs : WF_vars(RunStep(r)) /\ WF_vars(CandidateDue(r))

-----------------------------------------------------------------------------
TypeOK ==
  /\ BrokerTypeOK
  /\ mode \in [Eligible -> {"Shadow", "Active"}]
  /\ exact \in [Eligible -> Nat]
  /\ meter \in [Eligible -> [Meters -> Nat]]
  /\ slot \in Slots \cup {NoSlot}
  /\ pc \in [Runs -> Pc]
  /\ want \in [Runs -> Sigs]
  /\ cand \in [Runs -> Candidate]
  /\ due \in [Runs -> {"none", "candidate", "call"}]
  /\ committed \subseteq Runs

(* docs/speculative-tool-calling.md: issued = in_flight + committed +      *)
(* discarded + cancelled, and in_flight is the one lease that is open: on  *)
(* every way a candidate can end it is settled, once, before its slot goes.*)
MetersBalance ==
  \A t \in Eligible :
    /\ meter[t]["issued"] = meter[t]["inFlight"] + meter[t]["committed"]
                            + meter[t]["discarded"] + meter[t]["cancelled"]
    /\ meter[t]["inFlight"] =
         IF \E r \in Runs : slot = CandidateOf(r) /\ want[r] = t /\ cand[r] \in Leased THEN 1 ELSE 0
    /\ \A r \in Runs : want[r] = t /\ cand[r] \in Leased => slot = CandidateOf(r)

(* The runner-wide slot and a keyed permit belong to a candidate exactly   *)
(* as long as its future or its lease lives: no outcome of the stream, the *)
(* policies, the tool, the deadlines or the commit leaves one behind.      *)
NoSlotLeak ==
  /\ \A r \in Runs : slot = CandidateOf(r) <=> cand[r] \in Attempting \cup {"ready", "spent"}
  /\ \A r \in Runs, k \in Keys : holder[k] = CandidateOf(r) =>
       cand[r] \in {"issuing", "running", "grace", "ready", "spent"} /\ KeyOf[want[r]] = k

(* Nothing executes beside a running candidate under its concurrency key.  *)
Executing(r, s) ==
  \/ phase[Direct(r)] \in {"running", "grace"} /\ call[Direct(r)] = s
  \/ cand[r] \in {"running", "grace"} /\ want[r] = s
KeyExclusion ==
  /\ \A r, p \in Runs, s, u \in Sigs :
       r # p /\ Executing(r, s) /\ Executing(p, u) /\ KeyOf[s] # NoKey => KeyOf[s] # KeyOf[u]
  /\ \A r \in Runs : ~(phase[Direct(r)] \in {"running", "grace"} /\ cand[r] \in {"running", "grace"})

(* Active mode is earned by the shadow streak and lost for good by the     *)
(* first incident, whichever run it happens in.                            *)
ActiveIsEarned == \A t \in Eligible : Active(t) => exact[t] >= Required /\ Incidents(t) = 0

(* Once a tool has had an incident none of its candidates is committed,    *)
(* not even one that was ready before.                                     *)
NoCommitAfterIncident ==
  [][\A t \in Eligible : Incidents(t) > 0 => meter'[t]["committed"] = meter[t]["committed"]]_vars

(* The authoritative call is answered by at most one execution, its own or *)
(* the committed one, and a turn that was not stopped leaves the ledger    *)
(* balanced, however its candidate ended.                                  *)
AnsweredOnce ==
  \A r \in Runs :
    /\ starts[r][want[r]] + (IF r \in committed THEN 1 ELSE 0) <= 1
    /\ pc[r] = "done" /\ Live(r) =>
         /\ usage[r]["calls"] = Classified(usage[r])
         /\ usage[r]["issued"] = Settled(usage[r])

(* The controller's ledger and the runs' ledgers balance together: what a  *)
(* candidate did is counted once, in one of them.                          *)
LedgersBalance == AnsweredOnce /\ MetersBalance

(* The breaker: Active mode is earned, and lost before another commit.     *)
BreakerHolds == []ActiveIsEarned /\ NoCommitAfterIncident

(* A stopped turn ends although nobody answers: neither the candidate's    *)
(* policies nor its tool can keep it.  And no candidate keeps a keyed      *)
(* permit from ordinary work for ever, be its run waiting for the stream,  *)
(* the policy or the approver.                                             *)
TurnsComeToRest ==
  <>[](\A r \in Runs : (Live(r) \/ pc[r] = "done") /\ \A k \in Keys : holder[k] # CandidateOf(r))

(* speculation.rs: in Shadow mode candidates are compared with the         *)
(* authoritative response but never executed.                              *)
ShadowNeverIssues ==
  [][\A t \in Eligible : meter'[t]["issued"] > meter[t]["issued"] => Active(t)]_vars
=============================================================================
