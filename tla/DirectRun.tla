------------------------------ MODULE DirectRun ------------------------------
(***************************************************************************)
(* The model-tool loop of llama-harness-core: run_direct_internal          *)
(* (runner.rs), and run_reactive (adaptive.rs), which repeats it after a   *)
(* plan with effect reuse on (the runs in Reusing).  A run asks the model  *)
(* for a turn, retries the provider, repairs invalid output, and walks the *)
(* tool calls of a turn one at a time through the broker.  Several runs    *)
(* share the keyed permits of one AgentRunner.                             *)
(***************************************************************************)
EXTENDS Broker, Sequences

CONSTANTS
  MaxModelCalls,     \* limits.max_model_calls
  MaxRetries,        \* limits.max_provider_retries
  MaxRepairs,        \* limits.max_output_repairs
  MaxCallsPerTurn    \* bound of the model: tool calls in one response

ASSUME DirectAssumption == Slots = Runs /\ RunOf = [r \in Runs |-> r]
ASSUME ModelLimitAssumption ==
  /\ MaxModelCalls \in Nat /\ MaxRetries \in Nat
  /\ MaxRepairs \in Nat /\ MaxCallsPerTurn \in Nat

VARIABLES
  pc,           \* where the run's loop is
  modelCalls,   \* model_calls
  retries,      \* provider_retries of the current turn
  repairs,      \* output_repairs
  queue         \* tool calls of the current response not yet taken up

loopVars == <<pc, modelCalls, retries, repairs, queue>>
vars == <<brokerVars, loopVars>>

Pc == {"top", "request", "provider", "calls", "done"}
Batches == UNION {[1..n -> Sigs] : n \in 1..MaxCallsPerTurn}

Init ==
  /\ BrokerInit
  /\ pc = [r \in Runs |-> "top"]
  /\ modelCalls = [r \in Runs |-> 0]
  /\ retries = [r \in Runs |-> 0]
  /\ repairs = [r \in Runs |-> 0]
  /\ queue = [r \in Runs |-> << >>]

-----------------------------------------------------------------------------
Goto(r, l) == pc' = [pc EXCEPT ![r] = l]

\* break 'run with a result status: the loop is over.
Finish(r, st) ==
  /\ Goto(r, "done")
  /\ status' = [status EXCEPT ![r] = st]

OutOfBroker == UNCHANGED <<ledgerVars, stop, slotVars, holder, historyVars>>

\* The check at the top of the loop, before retries are reset.
BeginTurn(r) ==
  /\ pc[r] = "top"
  /\ OutOfBroker
  /\ \/ /\ ~Live(r)
        /\ Finish(r, ErrorStatus(StopError(r)))
        /\ UNCHANGED retries
     \/ /\ Live(r)
        /\ Goto(r, "request")
        /\ retries' = [retries EXCEPT ![r] = 0]
        /\ UNCHANGED status
  /\ UNCHANGED <<modelCalls, repairs, queue>>

\* The model-call limit is tested before the stop check, on every attempt.
RefuseRequest(r) ==
  /\ pc[r] = "request"
  /\ OutOfBroker
  /\ \/ modelCalls[r] >= MaxModelCalls /\ Finish(r, "LimitReached")
     \/ modelCalls[r] < MaxModelCalls /\ ~Live(r) /\ Finish(r, ErrorStatus(StopError(r)))
     \/ modelCalls[r] < MaxModelCalls /\ Live(r) /\ Finish(r, "LimitReached")  \* request too large
  /\ UNCHANGED <<modelCalls, retries, repairs, queue>>

SendRequest(r) ==
  /\ pc[r] = "request"
  /\ modelCalls[r] < MaxModelCalls
  /\ Live(r)
  /\ modelCalls' = [modelCalls EXCEPT ![r] = @ + 1]
  /\ Goto(r, "provider")
  /\ OutOfBroker
  /\ UNCHANGED <<status, retries, repairs, queue>>

ProviderStopped(r) ==
  /\ pc[r] = "provider" /\ ~Live(r)
  /\ Finish(r, ErrorStatus(StopError(r)))
  /\ OutOfBroker
  /\ UNCHANGED <<modelCalls, retries, repairs, queue>>

ProviderRetries(r) ==
  /\ pc[r] = "provider" /\ Live(r)
  /\ retries[r] < MaxRetries
  /\ retries' = [retries EXCEPT ![r] = @ + 1]
  /\ Goto(r, "request")
  /\ OutOfBroker
  /\ UNCHANGED <<status, modelCalls, repairs, queue>>

\* A permanent error, or a retryable one with no retry left ("tool": Failed),
\* the per-call timeout or any error class the provider reports.
ProviderFails(r) ==
  /\ pc[r] = "provider" /\ Live(r)
  /\ \E e \in PartyErrors \cup {"tool", "timedOut"} : Finish(r, ErrorStatus(e))
  /\ OutOfBroker
  /\ UNCHANGED <<modelCalls, retries, repairs, queue>>

\* A response larger than the limit, or an answer too deep to validate.
AnswerTooLarge(r) ==
  /\ pc[r] = "provider" /\ Live(r)
  /\ Finish(r, "LimitReached")
  /\ OutOfBroker
  /\ UNCHANGED <<modelCalls, retries, repairs, queue>>

AnswerFinal(r) ==
  /\ pc[r] = "provider" /\ Live(r)
  /\ Finish(r, "Completed")
  /\ OutOfBroker
  /\ UNCHANGED <<modelCalls, retries, repairs, queue>>

\* Neither output nor calls, or a blank output.
AnswerEmpty(r) ==
  /\ pc[r] = "provider" /\ Live(r)
  /\ Finish(r, "Failed")
  /\ OutOfBroker
  /\ UNCHANGED <<modelCalls, retries, repairs, queue>>

\* Output that fails the schema: repaired while repairs remain and the two
\* repair messages fit the transcript.
AnswerInvalid(r) ==
  /\ pc[r] = "provider" /\ Live(r)
  /\ OutOfBroker
  /\ \/ /\ repairs[r] >= MaxRepairs
        /\ Finish(r, "Failed")
        /\ UNCHANGED repairs
     \/ /\ repairs[r] < MaxRepairs
        /\ repairs' = [repairs EXCEPT ![r] = @ + 1]
        /\ \/ Goto(r, "top") /\ UNCHANGED status
           \/ Finish(r, "LimitReached")
  /\ UNCHANGED <<modelCalls, retries, queue>>

\* Tool calls: recorded in the transcript, which may overflow, then walked.
AnswerCalls(r, batch) ==
  /\ pc[r] = "provider" /\ Live(r)
  /\ OutOfBroker
  /\ \/ Finish(r, "LimitReached") /\ UNCHANGED queue
     \/ /\ Goto(r, "calls")
        /\ queue' = [queue EXCEPT ![r] = batch]
        /\ UNCHANGED status
  /\ UNCHANGED <<modelCalls, retries, repairs>>

-----------------------------------------------------------------------------
(* The calls of one turn.                                                  *)

TakeCall(r) ==
  /\ pc[r] = "calls" /\ phase[r] = "idle"
  /\ queue[r] # << >>
  /\ Prepare(r, Head(queue[r]))
  /\ queue' = [queue EXCEPT ![r] = Tail(@)]
  /\ UNCHANGED <<pc, modelCalls, retries, repairs>>

TurnOver(r) ==
  /\ pc[r] = "calls" /\ phase[r] = "idle"
  /\ queue[r] = << >>
  /\ Goto(r, "top")
  /\ OutOfBroker
  /\ UNCHANGED <<status, modelCalls, retries, repairs, queue>>

\* push_tool_message: the call's result joins the transcript, or overflows it.
PushResult(r) ==
  /\ FreeSlot(r)
  /\ \/ UNCHANGED <<pc, status, queue>>
     \/ Finish(r, "LimitReached") /\ queue' = [queue EXCEPT ![r] = << >>]
  /\ UNCHANGED <<modelCalls, retries, repairs>>

\* break 'run from inside the calls.
Break(r, st) ==
  /\ FreeSlot(r)
  /\ Finish(r, st)
  /\ queue' = [queue EXCEPT ![r] = << >>]
  /\ UNCHANGED <<modelCalls, retries, repairs>>

PushUnexecuted(r) ==
  /\ phase[r] \in {"rejected", "reused"}
  /\ PushResult(r)
  /\ UNCHANGED <<ledgerVars, stop, holder, historyVars>>

PushExecuted(r) == RecordExecution(r) /\ PushResult(r)

BreakOnLimit(r) ==
  /\ phase[r] = "limit"
  /\ Break(r, status[r])
  /\ UNCHANGED <<ledgerVars, stop, holder, historyVars>>

BreakOnPrepareError(r) == RecordPreDispatchError(r) /\ Break(r, ErrorStatus(err[r]))

BreakOnExecuteError(r) == RecordExecutionError(r) /\ Break(r, ErrorStatus(err[r]))

-----------------------------------------------------------------------------
\* What run r does on its own, without an answer from another party.
RunStep(r) ==
  \/ BeginTurn(r)
  \/ RefuseRequest(r)
  \/ SendRequest(r)
  \/ ProviderStopped(r)
  \/ TakeCall(r)
  \/ TurnOver(r)
  \/ SlotStep(r) /\ UNCHANGED loopVars
  \/ PushUnexecuted(r)
  \/ PushExecuted(r)
  \/ BreakOnLimit(r)
  \/ BreakOnPrepareError(r)
  \/ BreakOnExecuteError(r)

\* What the model provider answers.
ProviderStep(r) ==
  \/ ProviderRetries(r)
  \/ ProviderFails(r)
  \/ AnswerTooLarge(r)
  \/ AnswerFinal(r)
  \/ AnswerEmpty(r)
  \/ AnswerInvalid(r)
  \/ \E batch \in Batches : AnswerCalls(r, batch)

\* What the policy engine, the approver and the tool answer.
AnswerStep(r) == Answer(r) /\ UNCHANGED loopVars

StopStep(r) == pc[r] # "done" /\ (Cancel(r) \/ Expire(r)) /\ UNCHANGED loopVars

Next == \E r \in Runs : RunStep(r) \/ ProviderStep(r) \/ AnswerStep(r) \/ StopStep(r)

Safe == Init /\ [][Next]_vars

\* The runtime keeps polling every run.
RunFairness == \A r \in Runs : WF_vars(RunStep(r))

\* Providers, policies, approvers and tools that always answer.
AnswerFairness == \A r \in Runs : WF_vars(ProviderStep(r)) /\ WF_vars(AnswerStep(r))

Spec == Safe /\ RunFairness

-----------------------------------------------------------------------------
TypeOK ==
  /\ BrokerTypeOK
  /\ pc \in [Runs -> Pc]
  /\ modelCalls \in [Runs -> Nat]
  /\ retries \in [Runs -> Nat]
  /\ repairs \in [Runs -> Nat]
  /\ queue \in [Runs -> Seq(Sigs)]

Executing(o) == phase[o] \in {"running", "grace"}

(* Every proposal a run admitted is classified exactly once, and every     *)
(* issued one is settled exactly once, by the time the run is over: the    *)
(* identities finalize_usage asserts hold before it repairs anything.      *)
ClassifiedOnce ==
  \A r \in Runs : pc[r] = "done" =>
    /\ usage[r]["calls"] = Classified(usage[r])
    /\ usage[r]["issued"] = Settled(usage[r])

(* A run that reuses committed effects begins a state-changing signature   *)
(* at most once, whatever the model proposes afterwards.                   *)
EffectAtMostOnce ==
  \A r \in Reusing : \A s \in Sigs : Mutates(s) => starts[r][s] <= 1

(* When such a run's ledger says recovery is safe, every state-changing    *)
(* tool it ever began has returned a valid success: nothing may still be   *)
(* running, and nothing has an unknown outcome.                            *)
RecoveryIsSound ==
  \A r \in Reusing : RecoveryIsSafe(r) =>
    \A s \in Sigs : Mutates(s) => starts[r][s] = confirmed[r][s]

(* The ledger of a reusing run never misleads it about the world: neither  *)
(* into repeating an effect nor into recovering beside an unknown one.     *)
EffectsSound == EffectAtMostOnce /\ RecoveryIsSound

(* Two executions under one concurrency key never overlap, the cleanup     *)
(* grace of a stopped run included.                                        *)
KeyExclusion ==
  \A o, p \in Slots :
    Executing(o) /\ Executing(p) /\ o # p /\ KeyOf[call[o]] # NoKey
      => KeyOf[call[o]] # KeyOf[call[p]]

(* A permit is held by an executing call of its key and by nothing else:   *)
(* no way out of execute, and no way out of the run, keeps one.            *)
NoPermitLeak ==
  \A k \in Keys : holder[k] # NoSlot =>
    Executing(holder[k]) /\ KeyOf[call[holder[k]]] = k

(* Keyed permits and executing calls determine each other.                 *)
PermitsSound == KeyExclusion /\ NoPermitLeak

(* Retries, repairs and turns together never exceed the model-call budget, *)
(* and a signature never starts more often than the identical-call limit.  *)
Budgets ==
  \A r \in Runs :
    /\ modelCalls[r] <= MaxModelCalls
    /\ usage[r]["calls"] <= MaxToolCalls
    /\ \A s \in Sigs : starts[r][s] <= MaxIdentical

(* Unless a party reports Cancelled by itself, a run ends Cancelled only   *)
(* if the application cancelled it: a deadline, a tool's own timeout, the  *)
(* cleanup grace or a late answer is never mistaken for a cancellation.    *)
CancelledOnlyIfAsked ==
  "cancelled" \notin PartyErrors =>
    \A r \in Runs : status[r] = "Cancelled" => stop[r] = "cancelled"

(* A run stays within its limits, and says truly why it stopped.           *)
OutcomeSound == Budgets /\ CancelledOnlyIfAsked

(* Once a run is stopped no further tool of it starts.                     *)
NoStartAfterStop ==
  [][\A r \in Runs : ~Live(r) => starts'[r] = starts[r]]_vars

(* A stopped run ends although the provider, the policy, the approver, the *)
(* tool or the holder of a permit it waits for may never answer.           *)
StoppedRunEnds == \A r \in Runs : ~Live(r) ~> pc[r] = "done"

(* If providers, policies, approvers and tools always answer, every run    *)
(* ends: the budgets bound the loop and the keyed permits cannot deadlock. *)
EveryRunEnds == AnswerFairness => \A r \in Runs : <>(pc[r] = "done")
=============================================================================
