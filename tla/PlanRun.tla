------------------------------ MODULE PlanRun ------------------------------
(***************************************************************************)
(* Declarative and adaptive runs of llama-harness-core (adaptive.rs): the  *)
(* model is asked for a plan, every node of it is preflighted through the  *)
(* broker, ready nodes execute in waves, all state-changing nodes being    *)
(* authorized at one gate before the first of them, a failed execution may *)
(* be recovered by one more plan, and a reactive loop answers.             *)
(*                                                                         *)
(* A node is a slot of module Broker, and <<r, 0>> is the one call of the  *)
(* reactive loop.  A run that turns Direct before it accepted a plan goes  *)
(* on as a run of module DirectRun: "direct" is where it leaves this one.  *)
(***************************************************************************)
EXTENDS Broker

CONSTANTS
  MaxNodes,        \* nodes in a plan
  Plans,           \* the plans a planner may propose
  Forced,          \* runs with the DeclarativePlan strategy; the others are Adaptive
  MaxModelCalls,   \* limits.max_model_calls
  MaxRetries,      \* limits.max_provider_retries
  MaxParallel      \* the scheduler's parallelism

Nodes == 1..MaxNodes

\* A node has one signature, or, with result bindings, one of several; deps is
\* depends_on, from the nodes its result bindings read; serial nodes are those their tool or the plan keeps from sharing
\* a wave (not parallel_safe, Serial, or a commit boundary).
PlanShape == [nodes : SUBSET Nodes, sigs : [Nodes -> SUBSET Sigs], deps : [Nodes -> SUBSET Nodes],
              from : [Nodes -> SUBSET Nodes], barrier : SUBSET Nodes, serial : SUBSET Nodes]

ASSUME PlanAssumption ==
  /\ MaxNodes \in Nat
  /\ Plans # {} /\ Plans \subseteq PlanShape
  /\ Forced \subseteq Runs
  /\ Slots = Runs \X (0..MaxNodes)
  /\ RunOf = [o \in Slots |-> o[1]]
  /\ Reusing = Runs
  \* whatever its arguments, a node calls one tool
  /\ \A p \in Plans : \A i \in p.nodes : \A s, t \in p.sigs[i] :
       KeyOf[s] = KeyOf[t] /\ (Mutates(s) <=> Mutates(t))
ASSUME PlanLimitAssumption ==
  /\ MaxModelCalls \in Nat /\ MaxModelCalls >= 2     \* or the strategy is downgraded
  /\ MaxRetries \in Nat
  /\ MaxParallel \in Nat \ {0}

VARIABLES
  pc,           \* where the run is
  ask,          \* the phase its model call is for
  modelCalls,   \* model_calls
  retries,      \* provider_retries of this completion
  plan,         \* the accepted plan
  attempt,      \* plan_attempt
  done,         \* nodes done
  todo,         \* nodes the current loop (preflight, gate or wave) still has to take up
  exec,         \* executable: nodes of the wave that passed, then those in flight
  gateOpen,     \* mutation_gate_open
  resolved,     \* nodes whose signature is accounted for (signature_accounted)
  started,      \* effects_started
  failure,      \* wave_failure
  dropped       \* history: prepared calls given up with their plan

askVars == <<ask, modelCalls, retries>>
planVars == <<plan, attempt, done, todo, exec, gateOpen, resolved, started, failure, dropped>>
vars == <<brokerVars, pc, askVars, planVars>>

Pc == {"ask", "model", "preflight", "schedule", "gate", "wave", "execute", "turn", "calls",
       "direct", "done"}
Planning == {"preflight", "schedule", "gate", "wave", "execute"}
Ask == {"plan", "repair", "recovery", "synthesis", "reactive"}
Optional == {"plan", "repair", "recovery"}   \* reserve_final_synthesis

AnyPlan == CHOOSE p \in Plans : TRUE
Node(r, i) == <<r, i>>
Direct(r) == <<r, 0>>
First(S) == CHOOSE i \in S : \A j \in S : i <= j

Init ==
  /\ BrokerInit
  /\ pc = [r \in Runs |-> "ask"]
  /\ ask = [r \in Runs |-> "plan"]
  /\ modelCalls = [r \in Runs |-> 0]
  /\ retries = [r \in Runs |-> 0]
  /\ plan = [r \in Runs |-> AnyPlan]
  /\ attempt = [r \in Runs |-> 0]
  /\ done = [r \in Runs |-> {}]
  /\ todo = [r \in Runs |-> {}]
  /\ exec = [r \in Runs |-> {}]
  /\ gateOpen = [r \in Runs |-> FALSE]
  /\ resolved = [r \in Runs |-> {}]
  /\ started = [r \in Runs |-> FALSE]
  /\ failure = [r \in Runs |-> "none"]
  /\ dropped = [r \in Runs |-> 0]

-----------------------------------------------------------------------------
(* Plans.                                                                  *)

NodeMutates(p, i) == \E s \in p.sigs[i] : Mutates(s)
NodeKey(p, i) == KeyOf[CHOOSE s \in p.sigs[i] : TRUE]

\* compute_ancestors: the least set that holds the dependencies and theirs.
Ancestors(p, i) ==
  {j \in p.nodes : \A S \in SUBSET p.nodes :
     p.deps[i] \subseteq S /\ (\A k \in S : p.deps[k] \subseteq S) => j \in S}

Bound(p) == {i \in p.nodes : p.from[i] # {}}

\* MUTANT of ValidGraph: a binding may read any node of the plan.
ValidGraphAnySource(p) ==
  /\ \A i \in p.nodes : p.deps[i] \subseteq p.nodes /\ i \notin Ancestors(p, i)
  /\ \A i \in p.nodes : p.from[i] \subseteq p.nodes

\* ExecutionPlan::validate: dependencies are nodes of the plan and acyclic, and
\* a binding reads the result of a node that is done before.
ValidGraph(p) ==
  /\ \A i \in p.nodes : p.deps[i] \subseteq p.nodes /\ i \notin Ancestors(p, i)
  /\ \A i \in p.nodes : p.from[i] \subseteq Ancestors(p, i)

\* MUTANT of StaticallyValid: bound nodes may depend on mutations.
StaticallyValidUnbound(p) ==
  /\ p.nodes # {} /\ Cardinality(p.nodes) <= MaxToolCalls
  /\ ValidGraph(p)
  /\ \A i \in p.nodes \ Bound(p) :
       Cardinality({j \in p.nodes \ Bound(p) : p.sigs[j] = p.sigs[i]}) <= MaxIdentical

\* static_plan_preflight: a valid graph, nothing bound behind a mutation, no
\* more equal calls than a run may make.
StaticallyValid(p) ==
  /\ p.nodes # {} /\ Cardinality(p.nodes) <= MaxToolCalls
  /\ ValidGraph(p)
  /\ \A i \in Bound(p) : \A j \in Ancestors(p, i) : ~NodeMutates(p, j)
  /\ \A i \in p.nodes \ Bound(p) :
       Cardinality({j \in p.nodes \ Bound(p) : p.sigs[j] = p.sigs[i]}) <= MaxIdentical

-----------------------------------------------------------------------------
(* Asking the model: StrategyRun::complete.                                *)

Goto(r, l) == pc' = [pc EXCEPT ![r] = l]
Finish(r, st) == Goto(r, "done") /\ status' = [status EXCEPT ![r] = st]
OutOfBroker == UNCHANGED <<ledgerVars, stop, slotVars, holder, historyVars>>

AskFor(r, why) ==
  /\ Goto(r, "ask")
  /\ ask' = [ask EXCEPT ![r] = why]
  /\ retries' = [retries EXCEPT ![r] = 0]
  /\ UNCHANGED modelCalls

\* Ask again after the transcript grew (ensure_transcript), unless it overflows.
GoOn(r, why) ==
  \/ AskFor(r, why) /\ UNCHANGED status
  \/ Finish(r, "LimitReached") /\ UNCHANGED askVars

CanSpend(r) == MaxModelCalls - modelCalls[r] > 1     \* can_spend_optional_model_call
HasCapacity(r) == modelCalls[r] < MaxModelCalls      \* has_model_call_capacity

\* The limit is reached, or the request is too large.
RefuseRequest(r) ==
  /\ pc[r] = "ask"
  /\ Finish(r, "LimitReached")
  /\ OutOfBroker /\ UNCHANGED <<askVars, planVars>>

\* A stop is noticed by the await, not before the call is counted.
SendRequest(r) ==
  /\ pc[r] = "ask" /\ HasCapacity(r)
  /\ modelCalls' = [modelCalls EXCEPT ![r] = @ + 1]
  /\ Goto(r, "model")
  /\ OutOfBroker /\ UNCHANGED <<status, ask, retries, planVars>>

\* MUTANT of ModelStopped: the await watches the deadline only.
ModelExpired(r) ==
  /\ pc[r] = "model" /\ stop[r] = "expired"
  /\ Finish(r, ErrorStatus(StopError(r)))
  /\ OutOfBroker /\ UNCHANGED <<askVars, planVars>>

ModelStopped(r) ==
  /\ pc[r] = "model" /\ ~Live(r)
  /\ Finish(r, ErrorStatus(StopError(r)))
  /\ OutOfBroker /\ UNCHANGED <<askVars, planVars>>

\* MUTANT of ModelRetries: no call is kept for the synthesis.
ModelRetriesUnreserved(r) ==
  /\ pc[r] = "model" /\ Live(r)
  /\ retries[r] < MaxRetries
  /\ retries' = [retries EXCEPT ![r] = @ + 1]
  /\ Goto(r, "ask")
  /\ OutOfBroker /\ UNCHANGED <<status, ask, modelCalls, planVars>>

\* A retryable error, while retries remain and, for an optional call, one more
\* call is left for the synthesis.
ModelRetries(r) ==
  /\ pc[r] = "model" /\ Live(r)
  /\ retries[r] < MaxRetries
  /\ ask[r] \in Optional => CanSpend(r)
  /\ retries' = [retries EXCEPT ![r] = @ + 1]
  /\ Goto(r, "ask")
  /\ OutOfBroker /\ UNCHANGED <<status, ask, modelCalls, planVars>>

\* is_terminal_failure
IsTerminal(e) == e \in {"cancelled", "timedOut", "resource"}

\* An error of the provider ("tool": not a terminal one), a response or a plan
\* that exceeds a limit: an adaptive planner falls back while it can.
ModelFails(r) ==
  /\ pc[r] = "model" /\ Live(r)
  /\ \E e \in PartyErrors \cup {"tool", "timedOut", "resource"} :
       IF ask[r] \in {"plan", "repair"} /\ r \notin Forced /\ ~IsTerminal(e) /\ HasCapacity(r)
         THEN Goto(r, "direct") /\ UNCHANGED status
         ELSE Finish(r, ErrorStatus(e))
  /\ OutOfBroker /\ UNCHANGED <<askVars, planVars>>

\* The planner selects Direct, or a programmatic run.
PlannerDeclines(r) ==
  /\ pc[r] = "model" /\ Live(r)
  /\ ask[r] \in {"plan", "repair"} /\ r \notin Forced
  /\ Goto(r, "direct")
  /\ OutOfBroker /\ UNCHANGED <<status, askVars, planVars>>

\* No valid envelope: repaired once (unless the repair prompt overflows the
\* transcript), then an adaptive run falls back and a forced one fails.
PlannerInvalid(r) ==
  /\ pc[r] = "model" /\ Live(r) /\ ask[r] \in Optional
  /\ LET repairable == ask[r] = "plan" /\ CanSpend(r)
         fallsBack == ~repairable /\ ask[r] # "recovery" /\ r \notin Forced
     IN \/ /\ repairable
           /\ GoOn(r, "repair")
        \/ /\ fallsBack
           /\ IF HasCapacity(r) THEN Goto(r, "direct") /\ UNCHANGED status
                               ELSE Finish(r, "LimitReached")
           /\ UNCHANGED askVars
        \/ /\ ~repairable /\ ~fallsBack
           /\ Finish(r, "Failed")
           /\ UNCHANGED askVars
  /\ OutOfBroker /\ UNCHANGED planVars

\* A plan is accepted, and execute_plan begins with its preflight.
PlannerPlans(r, p) ==
  /\ pc[r] = "model" /\ Live(r) /\ ask[r] \in Optional
  /\ StaticallyValid(p)
  /\ plan' = [plan EXCEPT ![r] = p]
  /\ attempt' = [attempt EXCEPT ![r] = @ + 1]
  /\ todo' = [todo EXCEPT ![r] = p.nodes]
  /\ Goto(r, "preflight")
  /\ OutOfBroker
  /\ UNCHANGED <<status, askVars, done, exec, gateOpen, resolved, started, failure, dropped>>

-----------------------------------------------------------------------------
(* How an execution of a plan ends.                                        *)

\* MUTANT of MayRecover: the ledger is not asked.
MayRecoverAlways(r) == attempt[r] = 1 /\ started[r] /\ CanSpend(r)

MayRecover(r) == attempt[r] = 1 /\ started[r] /\ RecoveryIsSafe(r) /\ CanSpend(r)

\* The PlanExecution and its PreparedNodes go out of scope.
DropPlan(r) ==
  /\ phase' = [o \in Slots |-> IF o[1] = r THEN "idle" ELSE phase[o]]
  /\ call' = [o \in Slots |-> IF o[1] = r THEN AnySig ELSE call[o]]
  /\ err' = [o \in Slots |-> IF o[1] = r THEN "none" ELSE err[o]]
  /\ before' = [o \in Slots |-> IF o[1] = r THEN <<0, 0>> ELSE before[o]]
  /\ dropped' = [dropped EXCEPT ![r] = @ + Cardinality({i \in Nodes : phase[Node(r, i)] = "ready"})]
  /\ plan' = [plan EXCEPT ![r] = AnyPlan]
  /\ done' = [done EXCEPT ![r] = {}]
  /\ todo' = [todo EXCEPT ![r] = {}]
  /\ exec' = [exec EXCEPT ![r] = {}]
  /\ gateOpen' = [gateOpen EXCEPT ![r] = FALSE]
  /\ resolved' = [resolved EXCEPT ![r] = {}]
  /\ started' = [started EXCEPT ![r] = FALSE]
  /\ failure' = [failure EXCEPT ![r] = "none"]
  /\ UNCHANGED attempt

\* Ended by a terminal failure, with the status it gave the run.
PlanTerminates(r, st) == DropPlan(r) /\ Finish(r, st) /\ UNCHANGED askVars

\* Nothing has executed: an adaptive run falls back to the reactive loop.
PreflightFailed(r) ==
  /\ DropPlan(r)
  /\ IF attempt[r] = 1 /\ r \notin Forced /\ HasCapacity(r)
       THEN AskFor(r, "reactive") /\ UNCHANGED status
       ELSE Finish(r, "Failed") /\ UNCHANGED askVars

\* PlanFailureKind::Recoverable
PlanFailed(r) ==
  /\ DropPlan(r)
  /\ IF MayRecover(r) THEN GoOn(r, "recovery") ELSE Finish(r, "Failed") /\ UNCHANGED askVars

\* What a node that did not pass the broker does to its plan.
Fails(r, Otherwise) ==
  \E i \in Nodes :
    LET o == Node(r, i) IN
    \/ /\ phase[o] = "limit"
       /\ PlanTerminates(r, status[r])
       /\ UNCHANGED <<ledgerVars, stop, holder, historyVars>>
    \/ /\ phase[o] = "rejected"
       /\ Otherwise
       /\ UNCHANGED <<ledgerVars, stop, holder, historyVars>>
    \/ /\ RecordPreDispatchError(o)
       /\ IF IsTerminal(err[o]) THEN PlanTerminates(r, ErrorStatus(err[o])) ELSE Otherwise

-----------------------------------------------------------------------------
(* Preflight: preflight_plan.                                              *)

\* Nothing of the run is at the broker, and nothing failed there.
Passed(r) == \A i \in Nodes : phase[Node(r, i)] \in {"idle", "ready", "reused"}

\* defer_signature_checks: only the proposal is counted and validated.
PrepareDeferred(o) ==
  \/ PrepareStopped(o, AnySig)
  \/ PrepareOverBudget(o, AnySig)
  \/ PrepareUnusable(o, AnySig)
  \/ /\ Admitting(o, AnySig)
     /\ Bump(RunOf[o], {"calls"})
     /\ phase' = [phase EXCEPT ![o] = "ready"]
     /\ UNCHANGED <<seen, effects, status, err>>

PreflightNode(r) ==
  /\ pc[r] = "preflight" /\ Passed(r) /\ todo[r] # {}
  /\ LET i == First(todo[r]) IN
       /\ IF i \in Bound(plan[r])
            THEN PrepareDeferred(Node(r, i)) /\ UNCHANGED resolved
            ELSE /\ \E s \in plan[r].sigs[i] : Prepare(Node(r, i), s)
                 /\ resolved' = [resolved EXCEPT ![r] = @ \cup {i}]
       /\ todo' = [todo EXCEPT ![r] = @ \ {i}]
  /\ UNCHANGED <<pc, askVars, plan, attempt, done, exec, gateOpen, started, failure, dropped>>

PreflightFails(r) == pc[r] = "preflight" /\ Fails(r, PreflightFailed(r))

\* All nodes are prepared; what the transcript already holds may leave no budget.
PreflightPasses(r) ==
  /\ pc[r] = "preflight" /\ Passed(r) /\ todo[r] = {}
  /\ UNCHANGED <<ledgerVars, stop, holder, historyVars>>
  /\ \/ Goto(r, "schedule") /\ UNCHANGED <<status, slotVars, askVars, planVars>>
     \/ PlanTerminates(r, "LimitReached")

-----------------------------------------------------------------------------
(* Scheduling: execute_plan.                                               *)

Ready(r) == {i \in plan[r].nodes \ done[r] : plan[r].deps[i] \subseteq done[r]}
ReadReady(r) == {i \in Ready(r) : phase[Node(r, i)] = "ready" /\ ~NodeMutates(plan[r], i)}

\* MUTANT of ParallelEligible: mutations join a wave.
ParallelEligibleAll(r, i) ==
  \/ phase[Node(r, i)] = "reused"
  \/ i \notin plan[r].serial \cup plan[r].barrier

\* parallel_eligible
ParallelEligible(r, i) ==
  \/ phase[Node(r, i)] = "reused"
  \/ i \notin plan[r].serial \cup plan[r].barrier /\ ~NodeMutates(plan[r], i)

\* build_wave: the first node alone, or with every other eligible one whose key
\* is not taken, in order, up to the parallelism.
Wave(r, S) ==
  LET eligible == {i \in S : ParallelEligible(r, i)}
      key(i) == IF phase[Node(r, i)] = "reused" THEN NoKey ELSE NodeKey(plan[r], i)
      free == {i \in eligible : \A j \in eligible : j < i => key(i) = NoKey \/ key(j) # key(i)}
  IN IF First(S) \in eligible
       THEN {i \in free : Cardinality({j \in free : j < i}) < MaxParallel}
       ELSE {First(S)}

\* MUTANT of GateMembers: only what can already be bound is asked about.
GateMembersUnbound(r) ==
  {i \in plan[r].nodes \ done[r] :
     phase[Node(r, i)] = "ready" /\ i \notin Bound(plan[r])
     /\ (NodeMutates(plan[r], i) \/ i \in plan[r].barrier)}

\* Every remaining mutation and approval barrier.
GateMembers(r) ==
  {i \in plan[r].nodes \ done[r] :
     phase[Node(r, i)] = "ready" /\ (NodeMutates(plan[r], i) \/ i \in plan[r].barrier)}

Schedule(r) ==
  /\ pc[r] = "schedule" /\ done[r] # plan[r].nodes
  /\ IF ~gateOpen[r] /\ ReadReady(r) = {}
       THEN Goto(r, "gate") /\ todo' = [todo EXCEPT ![r] = GateMembers(r)]
       ELSE /\ Goto(r, "wave")
            /\ todo' = [todo EXCEPT ![r] = Wave(r, IF gateOpen[r] THEN Ready(r) ELSE ReadReady(r))]
  /\ OutOfBroker
  /\ UNCHANGED <<status, askVars, plan, attempt, done, exec, gateOpen, resolved, started, failure, dropped>>

PlanSucceeds(r) ==
  /\ pc[r] = "schedule" /\ done[r] = plan[r].nodes
  /\ DropPlan(r) /\ GoOn(r, "synthesis")
  /\ UNCHANGED <<ledgerVars, stop, holder, historyVars>>

\* MUTANT of KnownAtRevalidation: the ledger was consulted at preflight.
KnownOnlyAtPreflight(r, s) == s \notin Sigs

KnownAtRevalidation(r, s) == KnownEffect(r, s)

\* revalidate_bound_arguments of node i with the signature s its arguments now
\* have: a step up to the policy decision, which only a bound node still needs.
Revalidate(r, i, s) ==
  LET o == Node(r, i) IN
  /\ call' = [call EXCEPT ![o] = s]
  /\ before' = [before EXCEPT ![o] = <<0, Classified(usage[r])>>]
  /\ resolved' = [resolved EXCEPT ![r] = @ \cup {i}]
  /\ UNCHANGED <<stop, holder, historyVars>>
  /\ \/ /\ ~Live(r)
        /\ phase' = [phase EXCEPT ![o] = "prepErr"]
        /\ err' = [err EXCEPT ![o] = StopError(r)]
        /\ UNCHANGED <<ledgerVars, status>>
     \/ /\ i \in Bound(plan[r]) \ resolved[r]   \* they do not resolve, fit or validate
        /\ phase' = [phase EXCEPT ![o] = "prepErr"]
        /\ \E e \in {"tool", "resource"} : err' = [err EXCEPT ![o] = e]
        /\ UNCHANGED <<ledgerVars, status>>
     \/ /\ Live(r) /\ KnownAtRevalidation(r, s)
        /\ IF effects[r][s] = "completed"
             THEN /\ Bump(r, {"reused"})
                  /\ phase' = [phase EXCEPT ![o] = "reused"]
                  /\ UNCHANGED err
             ELSE /\ phase' = [phase EXCEPT ![o] = "prepErr"]
                  /\ err' = [err EXCEPT ![o] = "tool"]
                  /\ UNCHANGED usage
        /\ UNCHANGED <<seen, effects, status>>
     \/ /\ Live(r) /\ ~KnownAtRevalidation(r, s) /\ i \notin resolved[r]
        /\ seen' = [seen EXCEPT ![r][s] = @ + 1]
        /\ IF seen[r][s] < MaxIdentical
             THEN phase' = [phase EXCEPT ![o] = "policy"] /\ UNCHANGED <<usage, status>>
             ELSE /\ phase' = [phase EXCEPT ![o] = "limit"]
                  /\ Bump(r, {"rejected"})
                  /\ status' = [status EXCEPT ![r] = "LimitReached"]
        /\ UNCHANGED <<effects, err>>
     \/ /\ Live(r) /\ ~KnownAtRevalidation(r, s) /\ i \in resolved[r]
        /\ UNCHANGED <<ledgerVars, status, phase, err>>

\* The signatures node i may turn out to have.
BoundTo(r, i) == IF i \in resolved[r] THEN {call[Node(r, i)]} ELSE plan[r].sigs[i]

GateNode(r) ==
  /\ pc[r] = "gate" /\ Passed(r) /\ todo[r] # {}
  /\ LET i == First(todo[r]) IN
       /\ \E s \in BoundTo(r, i) : Revalidate(r, i, s)
       /\ todo' = [todo EXCEPT ![r] = @ \ {i}]
  /\ UNCHANGED <<pc, askVars, plan, attempt, done, exec, gateOpen, started, failure, dropped>>

GateOpens(r) ==
  /\ pc[r] = "gate" /\ Passed(r) /\ todo[r] = {}
  /\ Goto(r, "schedule")
  /\ gateOpen' = [gateOpen EXCEPT ![r] = TRUE]
  /\ OutOfBroker
  /\ UNCHANGED <<status, askVars, plan, attempt, done, todo, exec, resolved, started, failure, dropped>>

GateFails(r) == pc[r] = "gate" /\ Fails(r, PlanFailed(r))

WaveNode(r) ==
  /\ pc[r] = "wave" /\ Passed(r) /\ todo[r] # {}
  /\ LET i == First(todo[r]) IN
       /\ phase[Node(r, i)] = "ready"
       /\ \E s \in BoundTo(r, i) : Revalidate(r, i, s)
       /\ \/ phase'[Node(r, i)] = "reused" /\ UNCHANGED <<todo, exec>>
          \/ /\ phase'[Node(r, i)] # "reused"
             /\ todo' = [todo EXCEPT ![r] = @ \ {i}]
             /\ exec' = [exec EXCEPT ![r] = @ \cup {i}]
  /\ UNCHANGED <<pc, askVars, plan, attempt, done, gateOpen, started, failure, dropped>>

\* record_reused_plan_node
WaveNodeReused(r) ==
  /\ pc[r] = "wave" /\ Passed(r) /\ todo[r] # {}
  /\ LET i == First(todo[r]) IN
       /\ phase[Node(r, i)] = "reused"
       /\ UNCHANGED <<ledgerVars, stop, holder, historyVars>>
       /\ \/ /\ FreeSlot(Node(r, i))
             /\ done' = [done EXCEPT ![r] = @ \cup {i}]
             /\ todo' = [todo EXCEPT ![r] = @ \ {i}]
             /\ UNCHANGED <<pc, status, askVars, plan, attempt, exec, gateOpen, resolved, started,
                            failure, dropped>>
          \/ PlanTerminates(r, "LimitReached")

WaveFails(r) == pc[r] = "wave" /\ Fails(r, PlanFailed(r))

\* Only as many of the wave as the result budget has room for, or none and the
\* run ends.
Dispatch(r) ==
  /\ pc[r] = "wave" /\ Passed(r) /\ todo[r] = {}
  /\ \E n \in 0..Cardinality(exec[r]) :
       IF n = 0 /\ exec[r] # {}
         THEN PlanTerminates(r, "LimitReached")
         ELSE /\ exec' = [exec EXCEPT ![r] = {i \in @ : Cardinality({j \in @ : j < i}) < n}]
              /\ started' = [started EXCEPT ![r] = @ \/ exec[r] # {}]
              /\ Goto(r, "execute")
              /\ UNCHANGED <<slotVars, status, askVars, plan, attempt, done, todo, gateOpen,
                             resolved, failure, dropped>>
  /\ UNCHANGED <<ledgerVars, stop, holder, historyVars>>

\* All are marked dispatched, then all are polled together (join_all).
InFlight(r, i) ==
  /\ pc[r] = "execute" /\ i \in exec[r]
  /\ phase[Node(r, i)] = "ready" \/ \A j \in exec[r] : phase[Node(r, j)] # "ready"

Joined(r) == \A i \in exec[r] : phase[Node(r, i)] \in {"execOk", "execFail", "execErr"}

\* Once all have ended they are recorded in order; the first terminal error
\* gives the run its status.
Terminates(r, st) ==
  /\ failure' = [failure EXCEPT ![r] = "Terminal"]
  /\ status' = IF failure[r] = "Terminal" THEN status ELSE [status EXCEPT ![r] = st]

RecordNode(r) ==
  /\ pc[r] = "execute" /\ exec[r] # {} /\ Joined(r)
  /\ LET i == First(exec[r]) IN LET o == Node(r, i) IN
       /\ FreeSlot(o)
       /\ exec' = [exec EXCEPT ![r] = @ \ {i}]
       /\ \/ /\ phase[o] = "execOk" /\ RecordExecution(o)
             /\ \/ done' = [done EXCEPT ![r] = @ \cup {i}] /\ UNCHANGED <<failure, status>>
                \/ Terminates(r, "LimitReached") /\ UNCHANGED done   \* reserve_plan_entry
          \/ /\ \/ phase[o] = "execFail" /\ RecordExecution(o)
                \/ ~IsTerminal(err[o]) /\ RecordExecutionError(o)
             /\ failure' = [failure EXCEPT ![r] = IF @ = "none" THEN "Recoverable" ELSE @]
             /\ UNCHANGED <<done, status>>
          \/ /\ IsTerminal(err[o]) /\ RecordExecutionError(o)
             /\ Terminates(r, ErrorStatus(err[o]))
             /\ UNCHANGED done
  /\ UNCHANGED <<pc, askVars, plan, attempt, todo, gateOpen, resolved, started, dropped>>

\* MUTANT of WaveEnds: the first failure ends the wave (try_join_all).
WaveEndsEarly(r) ==
  /\ pc[r] = "execute" /\ (exec[r] = {} \/ failure[r] # "none")
  /\ UNCHANGED <<ledgerVars, stop, holder, historyVars>>
  /\ \/ /\ failure[r] = "none" /\ Goto(r, "schedule")
        /\ UNCHANGED <<slotVars, status, askVars, planVars>>
     \/ failure[r] = "Recoverable" /\ PlanFailed(r)
     \/ failure[r] = "Terminal" /\ PlanTerminates(r, status[r])

WaveEnds(r) ==
  /\ pc[r] = "execute" /\ exec[r] = {}
  /\ UNCHANGED <<ledgerVars, stop, holder, historyVars>>
  /\ \/ /\ failure[r] = "none" /\ Goto(r, "schedule")
        /\ UNCHANGED <<slotVars, status, askVars, planVars>>
     \/ failure[r] = "Recoverable" /\ PlanFailed(r)
     \/ failure[r] = "Terminal" /\ PlanTerminates(r, status[r])

-----------------------------------------------------------------------------
(* The reactive loop after a plan: run_reactive, with effect reuse on.     *)

Reactive(r) == pc[r] = "model" /\ Live(r) /\ ask[r] \in {"synthesis", "reactive"}

AnswerEnds(r) ==
  /\ Reactive(r)
  /\ \E st \in {"Completed", "Failed", "LimitReached"} : Finish(r, st)
  /\ OutOfBroker /\ UNCHANGED <<askVars, planVars>>

\* An output to repair (module DirectRun counts repairs).
AnswerInvalid(r) ==
  /\ Reactive(r)
  /\ AskFor(r, "reactive")
  /\ OutOfBroker /\ UNCHANGED <<status, planVars>>

AnswerCalls(r) ==
  /\ Reactive(r)
  /\ Goto(r, "turn")
  /\ OutOfBroker /\ UNCHANGED <<status, askVars, planVars>>

TakeCall(r, s) ==
  /\ pc[r] \in {"turn", "calls"} /\ phase[Direct(r)] = "idle"
  /\ Prepare(Direct(r), s)
  /\ Goto(r, "calls")
  /\ UNCHANGED <<askVars, planVars>>

\* The result joins the transcript, unless it overflows it; or the run ends.
CallEnds(r) ==
  LET o == Direct(r)
      unexecuted == UNCHANGED <<ledgerVars, stop, holder, historyVars>>
  IN /\ FreeSlot(o)
     /\ \/ /\ \/ phase[o] \in {"rejected", "reused"} /\ unexecuted
              \/ RecordExecution(o)
           /\ \/ UNCHANGED <<pc, status>>
              \/ Finish(r, "LimitReached")
        \/ phase[o] = "limit" /\ unexecuted /\ Finish(r, status[r])
        \/ RecordPreDispatchError(o) /\ Finish(r, ErrorStatus(err[o]))
        \/ RecordExecutionError(o) /\ Finish(r, ErrorStatus(err[o]))
     /\ UNCHANGED <<askVars, planVars>>

TurnOver(r) ==
  /\ pc[r] = "calls" /\ phase[Direct(r)] = "idle"
  /\ AskFor(r, "reactive")
  /\ OutOfBroker /\ UNCHANGED <<status, planVars>>

-----------------------------------------------------------------------------
\* The slots of a run that are at the broker, in its current loop.
AtBroker(r) == {Direct(r)} \cup {Node(r, i) : i \in {j \in Nodes : pc[r] # "execute" \/ InFlight(r, j)}}

\* Dispatching is a step of the scheduler, or of the reactive loop.
MayDispatch(r, o) == phase[o] = "ready" => o = Direct(r) \/ pc[r] = "execute"

RunStep(r) ==
  \/ RefuseRequest(r)
  \/ SendRequest(r)
  \/ ModelStopped(r)
  \/ PreflightNode(r)
  \/ PreflightFails(r)
  \/ PreflightPasses(r)
  \/ Schedule(r)
  \/ PlanSucceeds(r)
  \/ GateNode(r)
  \/ GateOpens(r)
  \/ GateFails(r)
  \/ WaveNode(r)
  \/ WaveNodeReused(r)
  \/ WaveFails(r)
  \/ Dispatch(r)
  \/ RecordNode(r)
  \/ WaveEnds(r)
  \/ \E s \in Sigs : TakeCall(r, s)
  \/ CallEnds(r)
  \/ TurnOver(r)
  \/ /\ \E o \in AtBroker(r) : MayDispatch(r, o) /\ SlotStep(o)
     /\ UNCHANGED <<pc, askVars, planVars>>

ModelStep(r) ==
  \/ ModelRetries(r)
  \/ ModelFails(r)
  \/ PlannerDeclines(r)
  \/ PlannerInvalid(r)
  \/ \E p \in Plans : PlannerPlans(r, p)
  \/ AnswerEnds(r)
  \/ AnswerInvalid(r)
  \/ AnswerCalls(r)

\* An approval barrier asks for an approval whatever the policy says.
MayAnswer(r, o) ==
  phase[o] = "policy" /\ o[2] \in plan[r].barrier /\ o # Direct(r) => phase'[o] # "ready"

AnswerStep(r) ==
  /\ \E o \in AtBroker(r) : Answer(o) /\ MayAnswer(r, o)
  /\ UNCHANGED <<pc, askVars, planVars>>

Over(r) == pc[r] \in {"direct", "done"}

StopStep(r) == ~Over(r) /\ (Cancel(r) \/ Expire(r)) /\ UNCHANGED <<pc, askVars, planVars>>

Next == \E r \in Runs : RunStep(r) \/ ModelStep(r) \/ AnswerStep(r) \/ StopStep(r)

Safe == Init /\ [][Next]_vars

RunFairness == \A r \in Runs : WF_vars(RunStep(r))

Spec == Safe /\ RunFairness

-----------------------------------------------------------------------------
TypeOK ==
  /\ BrokerTypeOK
  /\ pc \in [Runs -> Pc]
  /\ ask \in [Runs -> Ask]
  /\ modelCalls \in [Runs -> 0..MaxModelCalls]
  /\ retries \in [Runs -> 0..MaxRetries]
  /\ plan \in [Runs -> Plans]
  /\ attempt \in [Runs -> 0..2]
  /\ \A f \in {done, todo, exec, resolved} : f \in [Runs -> SUBSET Nodes]
  /\ gateOpen \in [Runs -> BOOLEAN]
  /\ started \in [Runs -> BOOLEAN]
  /\ failure \in [Runs -> {"none", "Recoverable", "Terminal"}]
  /\ dropped \in [Runs -> Nat]

(* When a run is over, what finalize_usage adds to the aborted calls is    *)
(* exactly the prepared nodes its plans gave up before dispatching them,   *)
(* and every call that was issued, by any wave, is settled.                *)
LedgerBalances ==
  \A r \in Runs : pc[r] = "done" =>
    /\ usage[r]["calls"] = Classified(usage[r]) + dropped[r]
    /\ usage[r]["issued"] = Settled(usage[r])

(* A state-changing signature begins at most once in a run: not again by   *)
(* an equal node of the plan, by a node whose bindings resolve to it, by   *)
(* the recovery plan, nor by the reactive loop that answers.               *)
EffectAtMostOnce ==
  \A r \in Runs : \A s \in Sigs : Mutates(s) => starts[r][s] <= 1

(* A recovery plan is only asked for when every state-changing tool the    *)
(* failed plan began is known to have succeeded.                           *)
RecoveryAfterKnownEffects ==
  \A r \in Runs : pc[r] \in {"ask", "model"} /\ ask[r] = "recovery" =>
    \A s \in Sigs : Mutates(s) => starts[r][s] = confirmed[r][s]

(* No effect of a plan is repeated, and none is left unknown behind a      *)
(* second plan.                                                            *)
EffectsSound == EffectAtMostOnce /\ RecoveryAfterKnownEffects

InFlightNodes(r) == {i \in Nodes : phase[Node(r, i)] \in ExecPhases}

(* No state-changing node of a plan begins before the gate is open, and    *)
(* from then on nothing of the plan is left to authorize: no state change  *)
(* happens before all of them have been allowed.                           *)
AuthorizedAsOneGate ==
  \A r \in Runs : pc[r] \in Planning =>
    /\ \A i \in InFlightNodes(r) : NodeMutates(plan[r], i) => gateOpen[r]
    /\ gateOpen[r] => \A i \in plan[r].nodes \ done[r] :
         i \in resolved[r] /\ phase[Node(r, i)] \notin PrepPhases

(* A bound node is only bound once every node it reads or follows is done, although  *)
(* the gate takes up nodes that are not ready.                             *)
BindingsResolve ==
  \A r \in Runs : pc[r] \in {"gate", "wave"} /\ todo[r] # {} /\ Passed(r) =>
    LET i == First(todo[r]) IN
    i \in Bound(plan[r]) => Ancestors(plan[r], i) \cup plan[r].from[i] \subseteq done[r]

(* A state-changing node shares its wave with no other node, and waves     *)
(* never wait for a permit one of their own nodes holds.                   *)
MutationsRunAlone ==
  \A r \in Runs : \A i, j \in InFlightNodes(r) : i # j =>
    /\ ~NodeMutates(plan[r], i)
    /\ NodeKey(plan[r], i) = NoKey \/ NodeKey(plan[r], i) # NodeKey(plan[r], j)

(* The schedule of a plan: what runs was allowed as a whole, has its       *)
(* bindings, and has nothing beside it that it could disturb.              *)
ScheduleSound == AuthorizedAsOneGate /\ BindingsResolve /\ MutationsRunAlone

(* Retries, repair and recovery leave a model call for the answer: a plan  *)
(* is never executed that nothing could report on.                         *)
SynthesisReserved == \A r \in Runs : pc[r] \in Planning => HasCapacity(r)

(* A stopped run ends, whatever the model, the policy, the approver or a   *)
(* tool does not answer.                                                   *)
StoppedRunEnds == \A r \in Runs : ~Live(r) ~> Over(r)
=============================================================================
