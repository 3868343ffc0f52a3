---------------------------- MODULE PlanRunProofs ----------------------------
(***************************************************************************)
(* Theorems about PlanRun for every set of plans, runs and signatures and  *)
(* every value of the limits.                                              *)
(*                                                                         *)
(* A step of a run is first classified by what it does to the plan and the *)
(* calls (a "move"): the invariants are proved over the moves, of which    *)
(* there are a dozen, and not over the actions.  Three of them follow.     *)
(*                                                                         *)
(*   ShapeInv   where a run stands in its loops fixes where its nodes are: *)
(*              what is authorized, what is bound, what may be in flight.  *)
(*   EffectsInv what the run knows of each state change agrees with what   *)
(*              its calls did, once the calls in hand are counted.         *)
(*   LedgerInv  calls counted are calls classified, given up or in hand,   *)
(*              and while one call is decided no other of its run is.      *)
(*                                                                         *)
(* The last section proves apart that an executing plan keeps a model call *)
(* for the report: two are reserved before the plan is asked for.          *)
(***************************************************************************)
EXTENDS PlanRun, BrokerProofs, WellFoundedInduction, FiniteSetTheorems, Integers
-----------------------------------------------------------------------------
(* Slots, plans and types.                                                 *)

\* A run has one slot per node and one for the call of its reactive loop.
LEMMA NodeSlots ==
  ASSUME NEW r \in Runs
  PROVE  /\ Direct(r) \in Slots /\ RunOf[Direct(r)] = r
         /\ \A i \in Nodes : Node(r, i) \in Slots /\ RunOf[Node(r, i)] = r /\ Node(r, i) # Direct(r)
         /\ \A i, j \in Nodes : Node(r, i) = Node(r, j) => i = j
         /\ \A o \in Slots : RunOf[o] = r => o = Direct(r) \/ \E i \in Nodes : o = Node(r, i)
<1> USE PlanAssumption DEF Node, Direct, Nodes
<1>1. \A i \in Nodes : i \in 0..MaxNodes /\ i # 0
  OBVIOUS
<1>2. ASSUME NEW o \in Slots, RunOf[o] = r PROVE o = Direct(r) \/ \E i \in Nodes : o = Node(r, i)
  <2>1. PICK i \in 0..MaxNodes : o = <<r, i>>
    BY <1>2
  <2> QED BY <2>1
<1> QED BY <1>1, <1>2

LEMMA SlotPairs == \A o \in Slots : o[1] = RunOf[o]
BY PlanAssumption

LEMMA PlanParts ==
  ASSUME NEW p \in Plans
  PROVE  /\ p.nodes \subseteq Nodes /\ p.barrier \subseteq Nodes /\ p.serial \subseteq Nodes
         /\ \A i \in Nodes : p.sigs[i] \subseteq Sigs /\ p.deps[i] \subseteq Nodes
         /\ \A i \in p.nodes : \A s, t \in p.sigs[i] :
              KeyOf[s] = KeyOf[t] /\ (Mutates(s) <=> Mutates(t))
BY PlanAssumption DEF PlanShape

\* A nonempty set of nodes has a first one.
LEMMA LeastNat ==
  ASSUME NEW S \in SUBSET Nat, S # {}
  PROVE  \E n \in S : \A m \in S : n <= m
<1> DEFINE R == {ss \in Nat \X Nat : ss[1] < ss[2]}
<1>1. IsWellFoundedOn(R, Nat)
  BY NatLessThanWellFounded, Zenon DEF OpToRel
<1> HIDE DEF R
<1>2. PICK x \in S : \A y \in S : ~(<<y, x>> \in R)
  BY <1>1, WFMin, Zenon
<1>3. \A x1, y \in Nat : <<y, x1>> \in R <=> y < x1
  BY DEF R
<1>4. \A y \in S : ~(y < x)
  BY <1>2, <1>3
<1>5. \A y \in S : x <= y
  BY <1>4
<1> QED BY <1>5

LEMMA FirstOfNodes ==
  ASSUME NEW S \in SUBSET Nodes, S # {}
  PROVE  First(S) \in S /\ \A j \in S : First(S) <= j
<1>1. S \in SUBSET Nat
  BY PlanAssumption DEF Nodes
<1> QED BY <1>1, LeastNat DEF First

Domains ==
  /\ BrokerTypeOK
  /\ pc \in [Runs -> Pc] /\ ask \in [Runs -> Ask]
  /\ modelCalls \in [Runs -> 0..MaxModelCalls] /\ retries \in [Runs -> 0..MaxRetries]
  /\ plan \in [Runs -> Plans] /\ attempt \in [Runs -> Nat]
  /\ done \in [Runs -> SUBSET Nodes] /\ todo \in [Runs -> SUBSET Nodes]
  /\ exec \in [Runs -> SUBSET Nodes] /\ resolved \in [Runs -> SUBSET Nodes]
  /\ gateOpen \in [Runs -> BOOLEAN] /\ started \in [Runs -> BOOLEAN]
  /\ failure \in [Runs -> {"none", "Recoverable", "Terminal"}]
  /\ dropped \in [Runs -> Nat]

AskDomains ==
  /\ pc \in [Runs -> Pc] /\ ask \in [Runs -> Ask] /\ status \in [Runs -> Status]
  /\ modelCalls \in [Runs -> 0..MaxModelCalls] /\ retries \in [Runs -> 0..MaxRetries]

PlanDomains ==
  /\ plan \in [Runs -> Plans] /\ attempt \in [Runs -> Nat]
  /\ done \in [Runs -> SUBSET Nodes] /\ todo \in [Runs -> SUBSET Nodes]
  /\ exec \in [Runs -> SUBSET Nodes] /\ resolved \in [Runs -> SUBSET Nodes]
  /\ gateOpen \in [Runs -> BOOLEAN] /\ started \in [Runs -> BOOLEAN]
  /\ failure \in [Runs -> {"none", "Recoverable", "Terminal"}]
  /\ dropped \in [Runs -> Nat]

LEMMA DomainParts == Domains <=> BrokerTypeOK /\ AskDomains /\ PlanDomains
BY DEF Domains, AskDomains, PlanDomains, BrokerTypeOK

\* The control of a run: where it goes, what it asks for, how it ends.
LEMMA GoDomains ==
  ASSUME AskDomains, NEW r \in Runs, NEW l \in Pc, Goto(r, l)
  PROVE  pc' \in [Runs -> Pc]
BY DEF AskDomains, Goto

LEMMA FinishDomains ==
  ASSUME AskDomains, NEW r \in Runs, NEW st \in Status, Finish(r, st), UNCHANGED askVars
  PROVE  AskDomains'
BY DEF AskDomains, Finish, Goto, Pc, askVars

LEMMA AskForDomains ==
  ASSUME AskDomains, NEW r \in Runs, NEW why \in Ask, AskFor(r, why), status' \in [Runs -> Status]
  PROVE  AskDomains'
<1>1. 0 \in 0..MaxRetries /\ "ask" \in Pc
  BY PlanLimitAssumption DEF Pc
<1> QED BY <1>1 DEF AskDomains, AskFor, Goto

LEMMA GoOnDomains ==
  ASSUME AskDomains, NEW r \in Runs, NEW why \in Ask, GoOn(r, why)
  PROVE  AskDomains'
<1>1. "LimitReached" \in Status
  BY DEF Status
<1> QED BY <1>1, AskForDomains, FinishDomains DEF GoOn, AskDomains

\* A request and its answer.
LEMMA ModelDomains ==
  ASSUME AskDomains, NEW r \in Runs,
         \/ RefuseRequest(r) \/ SendRequest(r) \/ ModelStopped(r) \/ TurnOver(r)
         \/ ModelRetries(r) \/ ModelFails(r) \/ PlannerDeclines(r) \/ PlannerInvalid(r)
         \/ AnswerEnds(r) \/ AnswerInvalid(r) \/ AnswerCalls(r)
  PROVE  AskDomains'
<1> USE ErrorStatusType
<1>0. {"LimitReached", "Failed", "Completed"} \subseteq Status /\ {"repair", "reactive"} \subseteq Ask
      /\ {"model", "direct", "turn", "ask"} \subseteq Pc
  BY DEF Status, Ask, Pc
<1>1. CASE RefuseRequest(r) \/ ModelStopped(r) \/ AnswerEnds(r)
  BY <1>0, <1>1, FinishDomains DEF RefuseRequest, ModelStopped, AnswerEnds
<1>2. CASE SendRequest(r)
  BY <1>0, <1>2, PlanLimitAssumption DEF SendRequest, HasCapacity, Goto, AskDomains
<1>3. CASE ModelRetries(r)
  BY <1>0, <1>3, PlanLimitAssumption DEF ModelRetries, Goto, AskDomains
<1>4. ASSUME NEW l \in Pc, Goto(r, l), UNCHANGED <<status, askVars>> PROVE AskDomains'
  BY <1>4, GoDomains DEF AskDomains, askVars
<1>5. CASE ModelFails(r)
  BY <1>0, <1>4, <1>5, FinishDomains DEF ModelFails
<1>6. CASE PlannerDeclines(r) \/ AnswerCalls(r)
  BY <1>0, <1>4, <1>6 DEF PlannerDeclines, AnswerCalls
<1>7. CASE PlannerInvalid(r)
  BY <1>0, <1>4, <1>7, GoOnDomains, FinishDomains DEF PlannerInvalid
<1>8. CASE AnswerInvalid(r) \/ TurnOver(r)
  BY <1>0, <1>8, AskForDomains DEF AnswerInvalid, TurnOver, AskDomains
<1> QED BY <1>1, <1>2, <1>3, <1>5, <1>6, <1>7, <1>8

\* A set of nodes is finite.
LEMMA NodesAreFinite ==
  ASSUME NEW S \in SUBSET Nodes
  PROVE  IsFiniteSet(S) /\ Cardinality(S) \in Nat
<1>1. IsFiniteSet(Nodes)
  BY PlanAssumption, FS_Interval DEF Nodes
<1> QED BY <1>1, FS_Subset, FS_CardinalityType

LEMMA DropDomains ==
  ASSUME Domains, NEW r \in Runs, DropPlan(r)
  PROVE  /\ PlanDomains'
         /\ phase' \in [Slots -> Phase] /\ call' \in [Slots -> Sigs]
         /\ err' \in [Slots -> Errors] /\ before' \in [Slots -> Nat \X Nat]
<1>1. Cardinality({i \in Nodes : phase[Node(r, i)] = "ready"}) \in Nat
  BY NodesAreFinite
<1>2. AnyPlan \in Plans
  BY PlanAssumption DEF AnyPlan
<1>3. dropped' \in [Runs -> Nat]
  BY <1>1 DEF Domains, DropPlan
<1>4. PlanDomains'
  BY <1>2, <1>3 DEF Domains, PlanDomains, DropPlan
<1>5. phase' \in [Slots -> Phase] /\ call' \in [Slots -> Sigs]
  BY AnySigInSigs DEF Domains, BrokerTypeOK, DropPlan, Phase
<1>6. err' \in [Slots -> Errors] /\ before' \in [Slots -> Nat \X Nat]
  BY DEF Domains, BrokerTypeOK, DropPlan, Errors
<1> QED BY <1>4, <1>5, <1>6

-----------------------------------------------------------------------------
(* The moves of a run.                                                     *)

RunMoves(r) == RunStep(r) \/ ModelStep(r) \/ AnswerStep(r) \/ StopStep(r)

\* A request, or its answer: no plan is being executed and no call made.
ControlMove(r) ==
  /\ pc[r] \in {"ask", "model", "calls"} /\ (pc[r] = "calls" => phase[Direct(r)] = "idle")
  /\ \E l \in {"ask", "model", "direct", "turn", "done"} : pc' = [pc EXCEPT ![r] = l]
  /\ ask' = ask \/ \E why \in {"repair", "reactive"} : ask' = [ask EXCEPT ![r] = why]
  /\ ask'[r] = "repair" => ask[r] \in {"plan", "repair"}
  /\ pc[r] = "calls" => pc'[r] = "ask" /\ ask'[r] = "reactive"
  /\ UNCHANGED <<ledgerVars, stop, slotVars, holder, historyVars, planVars>>

LEMMA ControlMoves ==
  ASSUME Domains, NEW r \in Runs,
         \/ RefuseRequest(r) \/ SendRequest(r) \/ ModelStopped(r) \/ TurnOver(r)
         \/ ModelRetries(r) \/ ModelFails(r) \/ PlannerDeclines(r) \/ PlannerInvalid(r)
         \/ AnswerEnds(r) \/ AnswerInvalid(r) \/ AnswerCalls(r)
  PROVE  Domains' /\ ControlMove(r)
<1> USE DEF ControlMove
<1>0. ask \in [Runs -> Ask] /\ pc \in [Runs -> Pc] /\ AskDomains'
  BY DomainParts, ModelDomains DEF AskDomains
<1>1. UNCHANGED <<ledgerVars, stop, slotVars, holder, historyVars, planVars>>
  BY DEF RefuseRequest, SendRequest, ModelStopped, TurnOver, ModelRetries, ModelFails,
     PlannerDeclines, PlannerInvalid, AnswerEnds, AnswerInvalid, AnswerCalls, OutOfBroker
<1>2. Domains'
  BY <1>0, <1>1 DEF Domains, BrokerTypeOK, AskDomains, ledgerVars, slotVars, historyVars, planVars
<1>3. CASE \/ RefuseRequest(r) \/ SendRequest(r) \/ ModelStopped(r) \/ ModelRetries(r)
           \/ PlannerDeclines(r) \/ AnswerEnds(r) \/ AnswerCalls(r)
  <2>1. pc[r] \in {"ask", "model"} /\ ask' = ask
    BY <1>3 DEF RefuseRequest, SendRequest, ModelStopped, ModelRetries, PlannerDeclines,
       AnswerEnds, AnswerCalls, Reactive, askVars
  <2>2. \E l \in {"ask", "model", "direct", "turn", "done"} : pc' = [pc EXCEPT ![r] = l]
    BY <1>3 DEF RefuseRequest, SendRequest, ModelStopped, ModelRetries, PlannerDeclines,
       AnswerEnds, AnswerCalls, Finish, Goto
  <2>3. ask'[r] = "repair" => ask[r] \in {"plan", "repair"}
    BY <2>1
  <2> QED BY <1>1, <1>2, <2>1, <2>2, <2>3
<1>4. CASE ModelFails(r)
  <2>1. pc[r] = "model" /\ ask' = ask
    BY <1>4 DEF ModelFails, askVars
  <2>2. pc' = [pc EXCEPT ![r] = "direct"] \/ pc' = [pc EXCEPT ![r] = "done"]
    BY <1>4, Zenon DEF ModelFails, Finish, Goto
  <2> QED BY <1>1, <1>2, <2>1, <2>2
<1>5. CASE PlannerInvalid(r)
  <2>1. \/ GoOn(r, "repair") /\ ask[r] = "plan"
        \/ (Goto(r, "direct") \/ Finish(r, "LimitReached") \/ Finish(r, "Failed")) /\ ask' = ask
    BY <1>5, Zenon DEF PlannerInvalid, askVars
  <2>2. pc[r] = "model"
    BY <1>5 DEF PlannerInvalid
  <2>3. \E l \in {"ask", "model", "direct", "turn", "done"} : pc' = [pc EXCEPT ![r] = l]
    BY <2>1 DEF GoOn, AskFor, Finish, Goto
  <2>4. \/ ask' = ask
        \/ ask[r] = "plan" /\ ask' = [ask EXCEPT ![r] = "repair"]
    BY <2>1 DEF GoOn, AskFor, askVars
  <2> QED BY <1>0, <1>1, <1>2, <2>2, <2>3, <2>4
<1>6. CASE AnswerInvalid(r) \/ TurnOver(r)
  <2>1. /\ pc[r] \in {"model", "calls"} /\ (pc[r] = "calls" => phase[Direct(r)] = "idle")
        /\ pc' = [pc EXCEPT ![r] = "ask"] /\ ask' = [ask EXCEPT ![r] = "reactive"]
    BY <1>6 DEF AnswerInvalid, TurnOver, Reactive, AskFor, Goto
  <2> QED BY <1>0, <1>1, <1>2, <2>1
<1> HIDE DEF ControlMove
<1> QED BY <1>3, <1>4, <1>5, <1>6

\* How the execution of a plan ends: the run asks again or is done.
PlanGone(r) ==
  /\ pc[r] \in Planning /\ DropPlan(r)
  /\ \/ pc' = [pc EXCEPT ![r] = "done"] /\ ask' = ask
     \/ /\ pc' = [pc EXCEPT ![r] = "ask"]
        /\ \E why \in {"reactive", "synthesis", "recovery"} : ask' = [ask EXCEPT ![r] = why]
        /\ ask'[r] = "recovery" => MayRecover(r)
  /\ UNCHANGED <<seen, effects, stop, holder, historyVars>>

Leaving(r) ==
  \/ \E st \in Status : PlanTerminates(r, st)
  \/ PreflightFailed(r) \/ PlanFailed(r)
  \/ DropPlan(r) /\ GoOn(r, "synthesis")

LEMMA LeavingIsGone ==
  ASSUME Domains, NEW r \in Runs, pc[r] \in Planning, Leaving(r),
         UNCHANGED <<seen, effects, stop, holder, historyVars>>,
         usage' \in [Runs -> [Counters -> Nat]]
  PROVE  Domains' /\ PlanGone(r)
<1>0. AskDomains /\ ask \in [Runs -> Ask] /\ DropPlan(r)
      /\ {"reactive", "synthesis", "recovery"} \subseteq Ask /\ "Failed" \in Status
  BY DomainParts DEF AskDomains, Leaving, PlanTerminates, PreflightFailed, PlanFailed, Ask, Status
<1>1. AskDomains'
  BY <1>0, FinishDomains, AskForDomains, GoOnDomains
     DEF Leaving, PlanTerminates, PreflightFailed, PlanFailed, AskDomains
<1>2. BrokerTypeOK'
  BY <1>0, <1>1, DropDomains DEF Domains, BrokerTypeOK, AskDomains, historyVars
<1>3. \/ Goto(r, "done") /\ ask' = ask
      \/ AskFor(r, "reactive") \/ AskFor(r, "synthesis")
      \/ AskFor(r, "recovery") /\ MayRecover(r)
  BY Zenon DEF Leaving, PlanTerminates, PreflightFailed, PlanFailed, GoOn, Finish, askVars
<1>4. \/ pc' = [pc EXCEPT ![r] = "done"] /\ ask' = ask
      \/ /\ pc' = [pc EXCEPT ![r] = "ask"]
         /\ \E why \in {"reactive", "synthesis", "recovery"} : ask' = [ask EXCEPT ![r] = why]
         /\ ask'[r] = "recovery" => MayRecover(r)
  BY <1>0, <1>3 DEF AskFor, Goto
<1>5. Domains'
  BY <1>0, <1>1, <1>2, DropDomains DEF Domains, AskDomains, PlanDomains
<1> QED BY <1>0, <1>4, <1>5 DEF PlanGone

\* A node leaves its loop, or the plan, with what the broker did to its call.
LEMMA FailsIsGone ==
  ASSUME Domains, NEW r \in Runs, PreflightFails(r) \/ GateFails(r) \/ WaveFails(r)
  PROVE  /\ Domains' /\ PlanGone(r)
         /\ \/ usage' = usage /\ \E i \in Nodes : phase[Node(r, i)] \in {"limit", "rejected"}
            \/ \E i \in Nodes : RecordPreDispatchError(Node(r, i))
<1> USE NodeSlots, ErrorStatusType DEF Leaving
<1>0. pc[r] \in Planning /\ status[r] \in Status
  BY DEF PreflightFails, GateFails, WaveFails, Planning, Domains, BrokerTypeOK
<1>1. \E i \in Nodes :
        \/ /\ phase[Node(r, i)] \in {"limit", "rejected"} /\ Leaving(r)
           /\ UNCHANGED <<ledgerVars, stop, holder, historyVars>>
        \/ RecordPreDispatchError(Node(r, i)) /\ Leaving(r)
  BY <1>0 DEF PreflightFails, GateFails, WaveFails, Fails
<1>2. PICK i \in Nodes :
        \/ /\ phase[Node(r, i)] \in {"limit", "rejected"} /\ Leaving(r)
           /\ UNCHANGED <<ledgerVars, stop, holder, historyVars>>
        \/ RecordPreDispatchError(Node(r, i)) /\ Leaving(r)
  BY <1>1
<1> HIDE DEF Leaving
<1>3. Leaving(r)
  BY <1>2
<1>4. UNCHANGED <<seen, effects, stop, holder, historyVars>>
  BY <1>2 DEF RecordPreDispatchError, ledgerVars
<1>5. usage' \in [Runs -> [Counters -> Nat]]
  <2>1. usage \in [Runs -> [Counters -> Nat]] /\ RunOf[Node(r, i)] \in Runs
    BY SlotRuns DEF Domains, BrokerTypeOK
  <2> QED BY <1>2, <2>1, BumpType DEF RecordPreDispatchError, ledgerVars
<1>6. \/ usage' = usage /\ phase[Node(r, i)] \in {"limit", "rejected"}
      \/ RecordPreDispatchError(Node(r, i))
  BY <1>2 DEF ledgerVars
<1>7. Domains' /\ PlanGone(r)
  BY <1>0, <1>3, <1>4, <1>5, LeavingIsGone
<1> QED BY <1>6, <1>7

\* The call of the reactive loop is prepared, or recorded and over.
LEMMA TakeCallMoves ==
  ASSUME Domains, NEW r \in Runs, NEW s \in Sigs, TakeCall(r, s)
  PROVE  Domains' /\ PrepareMove(Direct(r), s)
<1>1. Direct(r) \in Slots /\ BrokerTypeOK
  BY NodeSlots DEF Domains
<1>2. BrokerTypeOK' /\ PrepareMove(Direct(r), s)
  BY <1>1, PrepareType, PrepareMoves DEF TakeCall
<1>3. pc' \in [Runs -> Pc]
  BY DEF TakeCall, Goto, Domains, Pc
<1> QED BY <1>2, <1>3 DEF TakeCall, Domains, askVars, planVars

LEMMA CallEndsMoves ==
  ASSUME Domains, NEW r \in Runs, CallEnds(r)
  PROVE  /\ Domains' /\ RecordMove(Direct(r)) /\ FreeSlot(Direct(r))
         /\ pc' = pc \/ pc' = [pc EXCEPT ![r] = "done"]
         /\ UNCHANGED <<askVars, planVars, stop>>
<1> DEFINE o == Direct(r)
<1>1. o \in Slots /\ RunOf[o] = r /\ BrokerTypeOK /\ status[r] \in Status
  BY NodeSlots DEF Domains, BrokerTypeOK
<1> HIDE DEF o
<1>2. FreeSlot(o) /\ UNCHANGED <<askVars, planVars>>
  BY DEF CallEnds, o
<1>3. \/ phase[o] \in {"rejected", "reused", "limit"} /\ UNCHANGED <<ledgerVars, stop, holder, historyVars>>
      \/ RecordExecution(o) \/ RecordPreDispatchError(o) \/ RecordExecutionError(o)
  BY Zenon DEF CallEnds, o
<1>4. (pc' = pc /\ status' = status) \/ \E st \in Status : Finish(r, st)
  <2>1. "LimitReached" \in Status
    BY DEF Status
  <2> QED BY <1>1, <2>1, ErrorStatusType, Zenon DEF CallEnds, o
<1>5. pc' \in [Runs -> Pc] /\ status' \in [Runs -> Status]
      /\ (pc' = pc \/ pc' = [pc EXCEPT ![r] = "done"])
  <2>1. pc \in [Runs -> Pc] /\ status \in [Runs -> Status] /\ "done" \in Pc
    BY DEF Domains, BrokerTypeOK, Pc
  <2>2. \/ pc' = pc /\ status' = status
        \/ \E st \in Status : pc' = [pc EXCEPT ![r] = "done"] /\ status' = [status EXCEPT ![r] = st]
    BY <1>4, Zenon DEF Finish, Goto
  <2> HIDE DEF Pc
  <2> QED BY <2>1, <2>2
<1>6. /\ usage' \in [Runs -> [Counters -> Nat]] /\ effects' \in [Runs -> [Sigs -> Effect]]
      /\ UNCHANGED <<seen, stop, holder, starts, confirmed>>
  BY <1>1, <1>3, BumpType, EffectType
     DEF BrokerTypeOK, RecordExecution, RecordPreDispatchError, RecordExecutionError, ledgerVars,
         historyVars, Effect
<1>7. BrokerTypeOK'
  BY <1>1, <1>2, <1>5, <1>6, FreeSlotType DEF BrokerTypeOK
<1>8. Domains'
  BY <1>2, <1>5, <1>7 DEF Domains, askVars, planVars
<1>9. RecordMove(o)
  BY <1>3 DEF RecordMove
<1> QED BY <1>2, <1>5, <1>6, <1>8, <1>9 DEF o

\* A call at the broker moves; one that is ready only where MayDispatch lets it.
BrokerMove(r, o) ==
  /\ o \in Slots /\ RunOf[o] = r /\ SlotMove(o)
  /\ phase[o] = "ready" => o = Direct(r) \/ (pc[r] = "execute" /\ \E i \in exec[r] : o = Node(r, i))
  /\ UNCHANGED <<pc, askVars, planVars>>

LEMMA BrokerMoves ==
  ASSUME Domains, NEW r \in Runs,
         \/ /\ \E o \in AtBroker(r) : MayDispatch(r, o) /\ SlotStep(o)
            /\ UNCHANGED <<pc, askVars, planVars>>
         \/ AnswerStep(r)
  PROVE  Domains' /\ \E o \in Slots : BrokerMove(r, o)
<1>0. BrokerTypeOK
  BY DEF Domains
<1>1. PICK o \in AtBroker(r) : \/ MayDispatch(r, o) /\ SlotStep(o)
                               \/ Answer(o) /\ phase[o] # "ready"
  BY ZenonT(30) DEF AnswerStep, Answer, PolicyAllows, PolicyAsksApproval, ApprovalGranted, Denied,
     AuthorizerFails, ToolSucceeds, ToolFails, ToolErrors, PrepPhases
<1>2. /\ o \in Slots /\ RunOf[o] = r
      /\ o = Direct(r) \/ \E i \in Nodes : o = Node(r, i) /\ (pc[r] = "execute" => i \in exec[r])
  BY <1>1, NodeSlots DEF AtBroker, InFlight
<1>3. UNCHANGED <<pc, askVars, planVars>>
  BY Zenon DEF AnswerStep
<1>4. BrokerTypeOK' /\ SlotMove(o)
  BY <1>0, <1>1, <1>2, SlotType, SlotMoves
<1>5. Domains'
  BY <1>3, <1>4 DEF Domains, askVars, planVars
<1>6. BrokerMove(r, o)
  BY <1>1, <1>2, <1>3, <1>4 DEF BrokerMove, MayDispatch
<1> QED BY <1>2, <1>5, <1>6

\* Preflight takes up a node: its signature is accounted for, or deferred.
DeferMove(o) ==
  \/ PrepareMove(o, AnySig) /\ phase'[o] \in {"prepErr", "limit", "rejected"}
  \/ /\ Admitting(o, AnySig) /\ Bump(RunOf[o], {"calls"})
     /\ phase' = [phase EXCEPT ![o] = "ready"]
     /\ UNCHANGED <<seen, effects, status, err>>

PreflightMove(r, i) ==
  /\ pc[r] = "preflight" /\ Passed(r) /\ i \in todo[r]
  /\ \/ i \in Bound(plan[r]) /\ DeferMove(Node(r, i)) /\ UNCHANGED resolved
     \/ /\ i \notin Bound(plan[r])
        /\ \E s \in plan[r].sigs[i] : PrepareMove(Node(r, i), s)
        /\ resolved' = [resolved EXCEPT ![r] = @ \cup {i}]
  /\ todo' = [todo EXCEPT ![r] = @ \ {i}]
  /\ UNCHANGED <<pc, askVars, plan, attempt, done, exec, gateOpen, started, failure, dropped>>

LEMMA DeferType ==
  ASSUME BrokerTypeOK, NEW o \in Slots, PrepareDeferred(o)
  PROVE  BrokerTypeOK' /\ DeferMove(o)
<1>0. RunOf[o] \in Runs /\ AnySig \in Sigs /\ usage \in [Runs -> [Counters -> Nat]]
  BY SlotRuns, AnySigInSigs DEF BrokerTypeOK
<1>1. CASE PrepareStopped(o, AnySig) \/ PrepareOverBudget(o, AnySig) \/ PrepareUnusable(o, AnySig)
  <2>1. Prepare(o, AnySig)
    BY <1>1 DEF Prepare
  <2>2. phase'[o] \in {"prepErr", "limit", "rejected"}
    BY <1>1 DEF PrepareStopped, PrepareOverBudget, PrepareUnusable, BrokerTypeOK
  <2> QED BY <1>0, <2>1, <2>2, PrepareType, PrepareMoves DEF DeferMove
<1>2. CASE /\ Admitting(o, AnySig) /\ Bump(RunOf[o], {"calls"})
           /\ phase' = [phase EXCEPT ![o] = "ready"]
           /\ UNCHANGED <<seen, effects, status, err>>
  <2>1. <<usage[RunOf[o]]["calls"], Classified(usage[RunOf[o]])>> \in Nat \X Nat
    BY <1>0, SumsAreNatural
  <2>2. call' \in [Slots -> Sigs] /\ before' \in [Slots -> Nat \X Nat] /\ phase' \in [Slots -> Phase]
        /\ UNCHANGED <<stop, holder, starts, confirmed>>
    BY <1>0, <1>2, <2>1 DEF Admitting, Preparing, BrokerTypeOK, historyVars, Phase
  <2>3. usage' \in [Runs -> [Counters -> Nat]]
    BY <1>0, <1>2, BumpType
  <2> QED BY <1>2, <2>2, <2>3 DEF BrokerTypeOK, DeferMove
<1> QED BY <1>1, <1>2 DEF PrepareDeferred

LEMMA PreflightMoves ==
  ASSUME Domains, NEW r \in Runs, PreflightNode(r)
  PROVE  Domains' /\ \E i \in Nodes : PreflightMove(r, i)
<1> DEFINE i == First(todo[r])
           o == Node(r, i)
<1>1. todo[r] \in SUBSET Nodes /\ todo[r] # {} /\ plan[r] \in Plans
  BY DEF PreflightNode, Domains
<1>2. i \in todo[r] /\ i \in Nodes
  BY <1>1, FirstOfNodes
<1>3. o \in Slots /\ BrokerTypeOK /\ plan[r].sigs[i] \subseteq Sigs
  BY <1>1, <1>2, NodeSlots, PlanParts DEF Domains
<1>4. /\ \/ i \in Bound(plan[r]) /\ PrepareDeferred(o) /\ UNCHANGED resolved
         \/ /\ i \notin Bound(plan[r])
            /\ \E s \in plan[r].sigs[i] : Prepare(o, s)
            /\ resolved' = [resolved EXCEPT ![r] = @ \cup {i}]
      /\ pc[r] = "preflight" /\ Passed(r)
      /\ todo' = [todo EXCEPT ![r] = @ \ {i}]
      /\ UNCHANGED <<pc, askVars, plan, attempt, done, exec, gateOpen, started, failure, dropped>>
  BY DEF PreflightNode
<1> HIDE DEF i, o
<1>5. BrokerTypeOK'
  BY <1>3, <1>4, PrepareType, DeferType
<1>6. \/ i \in Bound(plan[r]) /\ DeferMove(o) /\ UNCHANGED resolved
      \/ /\ i \notin Bound(plan[r])
         /\ \E s \in plan[r].sigs[i] : PrepareMove(o, s)
         /\ resolved' = [resolved EXCEPT ![r] = @ \cup {i}]
  BY <1>3, <1>4, PrepareMoves, DeferType
<1>7. todo' \in [Runs -> SUBSET Nodes] /\ resolved' \in [Runs -> SUBSET Nodes]
  BY <1>2, <1>4 DEF Domains
<1>8. Domains'
  BY <1>4, <1>5, <1>7 DEF Domains, askVars
<1>9. PreflightMove(r, i)
  BY <1>2, <1>4, <1>6 DEF PreflightMove, o
<1> QED BY <1>2, <1>8, <1>9

\* A node is bound and accounted for once more, at the gate or in its wave.
Revalidated(r, i, s) ==
  LET o == Node(r, i) IN
  /\ call'[o] = s /\ before'[o] = <<0, Classified(usage[r])>>
  /\ \A p \in Slots \ {o} : phase'[p] = phase[p] /\ call'[p] = call[p] /\ before'[p] = before[p]
  /\ resolved' = [resolved EXCEPT ![r] = @ \cup {i}]
  /\ UNCHANGED <<effects, stop, holder, historyVars>>
  /\ \/ phase'[o] = "prepErr" /\ UNCHANGED usage
     \/ phase'[o] = "reused" /\ Bump(r, {"reused"}) /\ KnownEffect(r, s)
     \/ phase'[o] = "limit" /\ Bump(r, {"rejected"}) /\ ~KnownEffect(r, s) /\ i \notin resolved[r]
     \/ phase'[o] = "policy" /\ UNCHANGED usage /\ ~KnownEffect(r, s) /\ i \notin resolved[r]
     \/ phase'[o] = phase[o] /\ UNCHANGED usage /\ ~KnownEffect(r, s) /\ i \in resolved[r]

LEMMA RevalidateMoves ==
  ASSUME Domains, NEW r \in Runs, NEW i \in Nodes, NEW s \in Sigs, Revalidate(r, i, s)
  PROVE  /\ BrokerTypeOK' /\ resolved' \in [Runs -> SUBSET Nodes]
         /\ Revalidated(r, i, s)
<1> DEFINE o == Node(r, i)
           Sets(l) == phase' = [phase EXCEPT ![o] = l]
           Errs == \E e \in Errors : err' = [err EXCEPT ![o] = e]
<1>0. /\ o \in Slots /\ phase \in [Slots -> Phase] /\ call \in [Slots -> Sigs]
      /\ err \in [Slots -> Errors] /\ before \in [Slots -> Nat \X Nat]
      /\ status \in [Runs -> Status]
      /\ usage \in [Runs -> [Counters -> Nat]] /\ seen \in [Runs -> [Sigs -> Nat]]
      /\ seen[r] \in [Sigs -> Nat] /\ seen[r][s] \in Nat
      /\ "tool" \in Errors /\ "resource" \in Errors /\ "LimitReached" \in Status
      /\ {"prepErr", "reused", "policy", "limit"} \subseteq Phase
  BY NodeSlots DEF Domains, BrokerTypeOK, Errors, Status, Phase, PrepPhases
<1>1. <<0, Classified(usage[r])>> \in Nat \X Nat
  BY <1>0, SumsAreNatural
<1>2. /\ call' = [call EXCEPT ![o] = s] /\ before' = [before EXCEPT ![o] = <<0, Classified(usage[r])>>]
      /\ resolved' = [resolved EXCEPT ![r] = @ \cup {i}]
      /\ UNCHANGED <<stop, holder, historyVars>>
  BY DEF Revalidate
<1>3. /\ UNCHANGED effects
      /\ \/ Sets("prepErr") /\ Errs /\ UNCHANGED <<usage, seen, status>>
         \/ Sets("reused") /\ Bump(r, {"reused"}) /\ KnownEffect(r, s) /\ UNCHANGED <<seen, status, err>>
         \/ /\ Sets("limit") /\ Bump(r, {"rejected"}) /\ ~KnownEffect(r, s) /\ i \notin resolved[r]
            /\ seen' = [seen EXCEPT ![r][s] = @ + 1]
            /\ status' = [status EXCEPT ![r] = "LimitReached"] /\ UNCHANGED err
         \/ /\ Sets("policy") /\ UNCHANGED <<usage, status, err>>
            /\ ~KnownEffect(r, s) /\ i \notin resolved[r]
            /\ seen' = [seen EXCEPT ![r][s] = @ + 1]
         \/ /\ phase' = phase /\ UNCHANGED <<usage, seen, status, err>>
            /\ ~KnownEffect(r, s) /\ i \in resolved[r]
  <2> HIDE DEF o
  <2>1. StopError(r) \in Errors
    BY StopErrorType
  <2>2. CASE ~Live(r) /\ phase' = [phase EXCEPT ![o] = "prepErr"]
             /\ err' = [err EXCEPT ![o] = StopError(r)] /\ UNCHANGED <<ledgerVars, status>>
    BY <2>1, <2>2 DEF ledgerVars
  <2>3. CASE /\ i \in Bound(plan[r]) \ resolved[r]
             /\ phase' = [phase EXCEPT ![o] = "prepErr"]
             /\ \E e \in {"tool", "resource"} : err' = [err EXCEPT ![o] = e]
             /\ UNCHANGED <<ledgerVars, status>>
    BY <1>0, <2>3 DEF ledgerVars
  <2>4. CASE /\ Live(r) /\ KnownAtRevalidation(r, s)
             /\ IF effects[r][s] = "completed"
                  THEN /\ Bump(r, {"reused"})
                       /\ phase' = [phase EXCEPT ![o] = "reused"]
                       /\ UNCHANGED err
                  ELSE /\ phase' = [phase EXCEPT ![o] = "prepErr"]
                       /\ err' = [err EXCEPT ![o] = "tool"]
                       /\ UNCHANGED usage
             /\ UNCHANGED <<seen, effects, status>>
    BY <1>0, <2>4 DEF KnownAtRevalidation
  <2>5. CASE /\ Live(r) /\ ~KnownAtRevalidation(r, s) /\ i \notin resolved[r]
             /\ seen' = [seen EXCEPT ![r][s] = @ + 1]
             /\ IF seen[r][s] < MaxIdentical
                  THEN phase' = [phase EXCEPT ![o] = "policy"] /\ UNCHANGED <<usage, status>>
                  ELSE /\ phase' = [phase EXCEPT ![o] = "limit"]
                       /\ Bump(r, {"rejected"})
                       /\ status' = [status EXCEPT ![r] = "LimitReached"]
             /\ UNCHANGED <<effects, err>>
    BY <2>5 DEF KnownAtRevalidation
  <2>6. CASE /\ Live(r) /\ ~KnownAtRevalidation(r, s) /\ i \in resolved[r]
             /\ UNCHANGED <<ledgerVars, status, phase, err>>
    BY <2>6 DEF KnownAtRevalidation, ledgerVars
  <2> QED BY <2>2, <2>3, <2>4, <2>5, <2>6 DEF Revalidate, o
<1>4. /\ phase' \in [Slots -> Phase] /\ err' \in [Slots -> Errors] /\ status' \in [Runs -> Status]
      /\ call' \in [Slots -> Sigs] /\ before' \in [Slots -> Nat \X Nat]
  <2>1. phase' = phase \/ \E l \in {"prepErr", "reused", "policy", "limit"} : Sets(l)
    BY <1>3, Zenon
  <2>2. err' = err \/ Errs
    BY <1>3, Zenon
  <2>3. status' = status \/ status' = [status EXCEPT ![r] = "LimitReached"]
    BY <1>3, Zenon
  <2>4. phase' \in [Slots -> Phase]
    BY <1>0, <2>1
  <2>5. err' \in [Slots -> Errors]
    BY <1>0, <2>2
  <2>7. status' \in [Runs -> Status]
    BY <1>0, <2>3
  <2>6. call' \in [Slots -> Sigs] /\ before' \in [Slots -> Nat \X Nat]
    BY <1>0, <1>1, <1>2
  <2> QED BY <2>4, <2>5, <2>6, <2>7
<1>5. usage' \in [Runs -> [Counters -> Nat]] /\ seen' \in [Runs -> [Sigs -> Nat]]
  <2>1. UNCHANGED usage \/ Bump(r, {"reused"}) \/ Bump(r, {"rejected"})
    BY <1>3, Zenon
  <2>2. seen' = seen \/ seen' = [seen EXCEPT ![r][s] = @ + 1]
    BY <1>3, Zenon
  <2>3. usage' \in [Runs -> [Counters -> Nat]]
    BY <1>0, <2>1, BumpType
  <2>4. seen' \in [Runs -> [Sigs -> Nat]]
    <3>1. CASE seen' = [seen EXCEPT ![r][s] = @ + 1]
      <4>1. [seen[r] EXCEPT ![s] = @ + 1] \in [Sigs -> Nat]
        BY <1>0
      <4> QED BY <1>0, <3>1, <4>1
    <3> QED BY <1>0, <2>2, <3>1
  <2> QED BY <2>3, <2>4
<1>6. BrokerTypeOK' /\ resolved' \in [Runs -> SUBSET Nodes]
  <2>1. resolved \in [Runs -> SUBSET Nodes] /\ resolved' = [resolved EXCEPT ![r] = @ \cup {i}]
    BY <1>2 DEF Domains
  <2>2. /\ effects' = effects /\ stop' = stop /\ holder' = holder
        /\ starts' = starts /\ confirmed' = confirmed
    BY <1>2, <1>3 DEF historyVars
  <2>3. BrokerTypeOK'
    BY <1>4, <1>5, <2>2 DEF Domains, BrokerTypeOK
  <2> QED BY <2>1, <2>3
<1>7. /\ call'[o] = s /\ before'[o] = <<0, Classified(usage[r])>>
      /\ \A p \in Slots \ {o} : phase'[p] = phase[p] /\ call'[p] = call[p] /\ before'[p] = before[p]
  BY <1>0, <1>2, <1>3
<1>8. \/ phase'[o] = "prepErr" /\ UNCHANGED usage
      \/ phase'[o] = "reused" /\ Bump(r, {"reused"}) /\ KnownEffect(r, s)
      \/ phase'[o] = "limit" /\ Bump(r, {"rejected"}) /\ ~KnownEffect(r, s) /\ i \notin resolved[r]
      \/ phase'[o] = "policy" /\ UNCHANGED usage /\ ~KnownEffect(r, s) /\ i \notin resolved[r]
      \/ phase'[o] = phase[o] /\ UNCHANGED usage /\ ~KnownEffect(r, s) /\ i \in resolved[r]
  BY <1>0, <1>3
<1> QED BY <1>2, <1>3, <1>6, <1>7, <1>8 DEF Revalidated

LEMMA BoundToSigs ==
  ASSUME Domains, NEW r \in Runs, NEW i \in Nodes
  PROVE  BoundTo(r, i) \subseteq Sigs
<1>1. Node(r, i) \in Slots /\ plan[r] \in Plans
  BY NodeSlots DEF Domains
<1> QED BY <1>1, PlanParts DEF BoundTo, Domains, BrokerTypeOK

GateMove(r, i) ==
  /\ pc[r] = "gate" /\ Passed(r) /\ i \in todo[r]
  /\ \E s \in BoundTo(r, i) : Revalidate(r, i, s)
  /\ todo' = [todo EXCEPT ![r] = @ \ {i}]
  /\ UNCHANGED <<pc, askVars, plan, attempt, done, exec, gateOpen, started, failure, dropped>>

LEMMA GateMoves ==
  ASSUME Domains, NEW r \in Runs, GateNode(r)
  PROVE  Domains' /\ \E i \in Nodes : i = First(todo[r]) /\ GateMove(r, i)
<1> DEFINE i == First(todo[r])
<1>1. i \in todo[r] /\ i \in Nodes
  BY FirstOfNodes DEF GateNode, Domains
<1>2. GateMove(r, i)
  BY <1>1 DEF GateNode, GateMove
<1> HIDE DEF i
<1>3. BrokerTypeOK' /\ resolved' \in [Runs -> SUBSET Nodes]
  BY <1>1, <1>2, BoundToSigs, RevalidateMoves DEF GateMove
<1>4. todo' \in [Runs -> SUBSET Nodes]
  BY <1>1, <1>2 DEF GateMove, Domains
<1>5. Domains'
  BY <1>2, <1>3, <1>4 DEF GateMove, Domains, askVars
<1> QED BY <1>1, <1>2, <1>5 DEF i

WaveMove(r, i) ==
  /\ pc[r] = "wave" /\ Passed(r) /\ i \in todo[r]
  /\ phase[Node(r, i)] = "ready"
  /\ \E s \in BoundTo(r, i) : Revalidate(r, i, s)
  /\ \/ phase'[Node(r, i)] = "reused" /\ UNCHANGED <<todo, exec>>
     \/ /\ phase'[Node(r, i)] # "reused"
        /\ todo' = [todo EXCEPT ![r] = @ \ {i}]
        /\ exec' = [exec EXCEPT ![r] = @ \cup {i}]
  /\ UNCHANGED <<pc, askVars, plan, attempt, done, gateOpen, started, failure, dropped>>

LEMMA WaveMoves ==
  ASSUME Domains, NEW r \in Runs, WaveNode(r)
  PROVE  Domains' /\ \E i \in Nodes : i = First(todo[r]) /\ WaveMove(r, i)
<1> DEFINE i == First(todo[r])
<1>1. i \in todo[r] /\ i \in Nodes
  BY FirstOfNodes DEF WaveNode, Domains
<1>2. WaveMove(r, i)
  BY <1>1 DEF WaveNode, WaveMove
<1> HIDE DEF i
<1>3. BrokerTypeOK' /\ resolved' \in [Runs -> SUBSET Nodes]
  BY <1>1, <1>2, BoundToSigs, RevalidateMoves DEF WaveMove
<1>4. todo' \in [Runs -> SUBSET Nodes] /\ exec' \in [Runs -> SUBSET Nodes]
  BY <1>1, <1>2 DEF WaveMove, Domains
<1>5. Domains'
  BY <1>2, <1>3, <1>4 DEF WaveMove, Domains, askVars
<1> QED BY <1>1, <1>2, <1>5 DEF i

\* A node with a reused effect is done at once.
ReuseMove(r, i) ==
  /\ pc[r] = "wave" /\ Passed(r) /\ i \in todo[r]
  /\ phase[Node(r, i)] = "reused" /\ FreeSlot(Node(r, i))
  /\ done' = [done EXCEPT ![r] = @ \cup {i}]
  /\ todo' = [todo EXCEPT ![r] = @ \ {i}]
  /\ UNCHANGED <<ledgerVars, stop, holder, historyVars, pc, status, askVars, plan, attempt, exec,
                 gateOpen, resolved, started, failure, dropped>>

LEMMA ReuseMoves ==
  ASSUME Domains, NEW r \in Runs, WaveNodeReused(r)
  PROVE  Domains' /\ \/ PlanGone(r) /\ usage' = usage /\ Passed(r)
                     \/ \E i \in Nodes : ReuseMove(r, i)
<1> DEFINE i == First(todo[r])
<1>1. i \in todo[r] /\ i \in Nodes
  BY FirstOfNodes DEF WaveNodeReused, Domains
<1>2. CASE PlanTerminates(r, "LimitReached")
  <2>1. Leaving(r)
    BY <1>2 DEF Leaving, Status
  <2>2. pc[r] \in Planning /\ Passed(r) /\ UNCHANGED <<ledgerVars, stop, holder, historyVars>>
    BY DEF WaveNodeReused, Planning
  <2> QED BY <2>1, <2>2, LeavingIsGone DEF ledgerVars, Domains, BrokerTypeOK
<1>3. CASE ~PlanTerminates(r, "LimitReached")
  <2>1. ReuseMove(r, i)
    BY <1>1, <1>3 DEF WaveNodeReused, ReuseMove
  <2>2. Node(r, i) \in Slots
    BY <1>1, NodeSlots
  <2> HIDE DEF i
  <2>3. BrokerTypeOK'
    BY <2>1, <2>2, FreeSlotType DEF ReuseMove, Domains, BrokerTypeOK, ledgerVars, historyVars
  <2>4. Domains'
    BY <1>1, <2>1, <2>3 DEF ReuseMove, Domains, askVars
  <2> QED BY <1>1, <2>1, <2>4
<1> QED BY <1>2, <1>3

-----------------------------------------------------------------------------
(* The graph of a plan.                                                    *)

\* Ancestors is the least set that holds the dependencies and theirs.
LEMMA AncestorsClosed ==
  ASSUME NEW p \in Plans, ValidGraph(p), NEW i \in p.nodes
  PROVE  /\ p.deps[i] \subseteq Ancestors(p, i)
         /\ \A k \in Ancestors(p, i) : k \in p.nodes /\ p.deps[k] \subseteq Ancestors(p, i)
<1>1. \A k \in p.nodes : p.deps[k] \subseteq p.nodes
  BY DEF ValidGraph
<1>2. p.deps[i] \subseteq Ancestors(p, i)
  BY <1>1 DEF Ancestors
<1>3. ASSUME NEW k \in Ancestors(p, i), NEW j \in p.deps[k] PROVE j \in Ancestors(p, i)
  <2>1. k \in p.nodes /\ j \in p.nodes
    BY <1>1, <1>3 DEF Ancestors
  <2>2. ASSUME NEW S \in SUBSET p.nodes, p.deps[i] \subseteq S, \A m \in S : p.deps[m] \subseteq S
        PROVE  j \in S
    <3>1. k \in S
      BY <2>2 DEF Ancestors
    <3> QED BY <2>2, <3>1
  <2> QED BY <2>1, <2>2 DEF Ancestors
<1> QED BY <1>2, <1>3 DEF Ancestors

LEMMA AncestorsLeast ==
  ASSUME NEW p \in Plans, NEW i \in p.nodes, NEW S \in SUBSET p.nodes,
         p.deps[i] \subseteq S, \A k \in S : p.deps[k] \subseteq S
  PROVE  Ancestors(p, i) \subseteq S
BY DEF Ancestors

\* A valid plan has no cycle: among any of its nodes, one waits for none of the others.
LEMMA SomeNodeIsFirst ==
  ASSUME NEW p \in Plans, ValidGraph(p), NEW U \in SUBSET p.nodes, U # {}
  PROVE  \E i \in U : p.deps[i] \cap U = {}
<1> DEFINE Rank(i) == Cardinality(Ancestors(p, i))
           Ranks == {Rank(i) : i \in U}
<1>1. \A i \in p.nodes : Ancestors(p, i) \in SUBSET Nodes
  BY PlanParts DEF Ancestors
<1>2. \A i \in p.nodes : Rank(i) \in Nat /\ IsFiniteSet(Ancestors(p, i))
  BY <1>1, NodesAreFinite
<1>3. ASSUME NEW i \in p.nodes, NEW k \in p.deps[i] PROVE Rank(k) < Rank(i)
  <2>1. k \in Ancestors(p, i) /\ k \in p.nodes
    BY <1>3, AncestorsClosed
  <2>2. Ancestors(p, k) \subseteq Ancestors(p, i)
    <3> DEFINE A == Ancestors(p, i)
    <3>1. A \in SUBSET p.nodes /\ p.deps[k] \subseteq A /\ \A m \in A : p.deps[m] \subseteq A
      BY <2>1, AncestorsClosed
    <3> HIDE DEF A
    <3>2. Ancestors(p, k) \subseteq A
      BY <2>1, <3>1, AncestorsLeast
    <3> QED BY <3>2 DEF A
  <2>3. k \notin Ancestors(p, k)
    BY <2>1 DEF ValidGraph
  <2>4. Rank(k) <= Rank(i) /\ Rank(k) # Rank(i)
    BY <1>2, <2>1, <2>2, <2>3, FS_Subset
  <2> QED BY <1>2, <2>1, <2>4
<1>4. Ranks \in SUBSET Nat /\ Ranks # {}
  BY <1>2
<1>5. PICK n \in Ranks : \A m \in Ranks : n <= m
  BY <1>4, LeastNat
<1>6. PICK i \in U : Rank(i) = n
  BY <1>5
<1>7. ASSUME NEW k \in U, k \in p.deps[i] PROVE FALSE
  <2>1. Rank(k) < Rank(i)
    BY <1>3, <1>7
  <2>2. Rank(i) <= Rank(k)
    BY <1>5, <1>6, <1>7
  <2> QED BY <1>2, <2>1, <2>2
<1> QED BY <1>6, <1>7

-----------------------------------------------------------------------------
(* The moves of a plan's execution.                                        *)

\* A plan is accepted.
LEMMA PlansMoves ==
  ASSUME Domains, NEW r \in Runs, NEW p \in Plans, PlannerPlans(r, p)
  PROVE  Domains'
<1>1. p.nodes \subseteq Nodes
  BY PlanParts
<1> QED BY <1>1 DEF PlannerPlans, Domains, BrokerTypeOK, Goto, Pc, OutOfBroker, askVars, ledgerVars,
           slotVars, historyVars

\* The next wave: its nodes are ready, and nothing is beside a state change or under one key.
WaveOf(r, W) ==
  /\ W # {} /\ W \subseteq Ready(r)
  /\ ~gateOpen[r] => W \subseteq ReadReady(r)
  /\ \A i \in W : NodeMutates(plan[r], i) /\ phase[Node(r, i)] # "reused" => W = {i}
  /\ \A i, j \in W : i # j /\ phase[Node(r, i)] # "reused" /\ phase[Node(r, j)] # "reused" =>
       NodeKey(plan[r], i) = NoKey \/ NodeKey(plan[r], i) # NodeKey(plan[r], j)

LEMMA WaveIsSound ==
  ASSUME Domains, NEW r \in Runs, NEW S \in SUBSET Nodes, S # {}, S \subseteq Ready(r),
         ~gateOpen[r] => S \subseteq ReadReady(r)
  PROVE  WaveOf(r, Wave(r, S))
<1> DEFINE eligible == {i \in S : ParallelEligible(r, i)}
           key(i) == IF phase[Node(r, i)] = "reused" THEN NoKey ELSE NodeKey(plan[r], i)
           free == {i \in eligible : \A j \in eligible : j < i => key(i) = NoKey \/ key(j) # key(i)}
           W == {i \in free : Cardinality({j \in free : j < i}) < MaxParallel}
<1>0. First(S) \in S /\ S \in SUBSET Nat /\ \A j \in S : First(S) <= j
  BY FirstOfNodes, PlanAssumption DEF Nodes
<1>1. CASE First(S) \in eligible
  <2>1. Wave(r, S) = W
    BY <1>1 DEF Wave
  <2>2. First(S) \in free /\ {j \in free : j < First(S)} = {}
    <3>1. \A j \in eligible : ~(j < First(S))
      <4>1. \A j \in S : First(S) \in Nat /\ j \in Nat /\ First(S) <= j
        BY <1>0
      <4> QED BY <4>1
    <3> QED BY <1>1, <3>1
  <2>3. First(S) \in W
    <3>1. Cardinality({j \in free : j < First(S)}) = 0
      BY <2>2, FS_EmptySet
    <3> QED BY <2>2, <3>1, PlanLimitAssumption
  <2>4. \A i \in W : NodeMutates(plan[r], i) => phase[Node(r, i)] = "reused"
    BY DEF ParallelEligible
  <2>5. ASSUME NEW i \in W, NEW j \in W, i # j, phase[Node(r, i)] # "reused", phase[Node(r, j)] # "reused"
        PROVE  NodeKey(plan[r], i) = NoKey \/ NodeKey(plan[r], i) # NodeKey(plan[r], j)
    <3>1. i \in Nat /\ j \in Nat /\ i \in free /\ j \in free /\ i \in eligible /\ j \in eligible
      BY <1>0
    <3>2. key(i) = NodeKey(plan[r], i) /\ key(j) = NodeKey(plan[r], j)
      BY <2>5
    <3>3. i < j \/ j < i
      BY <2>5, <3>1
    <3>4. key(i) = NoKey \/ key(i) # key(j) \/ key(j) = NoKey
      <4>1. CASE i < j BY <3>1, <4>1
      <4>2. CASE j < i BY <3>1, <4>2
      <4> QED BY <3>3, <4>1, <4>2
    <3> HIDE DEF key
    <3> QED BY <3>2, <3>4
  <2>6. W \subseteq S
    OBVIOUS
  <2> HIDE DEF W
  <2> QED BY <2>1, <2>3, <2>4, <2>5, <2>6 DEF WaveOf
<1>2. CASE First(S) \notin eligible
  <2>1. Wave(r, S) = {First(S)}
    BY <1>2 DEF Wave
  <2> QED BY <1>0, <2>1 DEF WaveOf
<1> QED BY <1>1, <1>2

\* A valid plan that is not done has a node that may go on.
LEMMA SomeNodeIsReady ==
  ASSUME Domains, NEW r \in Runs, StaticallyValid(plan[r]), done[r] \subseteq plan[r].nodes,
         done[r] # plan[r].nodes
  PROVE  Ready(r) # {}
<1>1. plan[r] \in Plans /\ ValidGraph(plan[r])
  BY DEF Domains, StaticallyValid
<1>2. PICK i \in plan[r].nodes \ done[r] : plan[r].deps[i] \cap (plan[r].nodes \ done[r]) = {}
  BY <1>1, SomeNodeIsFirst
<1>3. plan[r].deps[i] \subseteq plan[r].nodes
  BY <1>1, <1>2 DEF ValidGraph
<1>4. i \in Ready(r)
  BY <1>2, <1>3 DEF Ready
<1> QED BY <1>4

ScheduleMove(r) ==
  /\ pc[r] = "schedule" /\ done[r] # plan[r].nodes
  /\ \/ /\ ~gateOpen[r]
        /\ pc' = [pc EXCEPT ![r] = "gate"] /\ todo' = [todo EXCEPT ![r] = GateMembers(r)]
        /\ ReadReady(r) = {}
     \/ \E W \in SUBSET Nodes :
          /\ WaveOf(r, W)
          /\ pc' = [pc EXCEPT ![r] = "wave"] /\ todo' = [todo EXCEPT ![r] = W]
  /\ UNCHANGED <<ledgerVars, stop, slotVars, holder, historyVars, status, askVars, plan, attempt,
                 done, exec, gateOpen, resolved, started, failure, dropped>>

LEMMA ScheduleMoves ==
  ASSUME Domains, NEW r \in Runs, StaticallyValid(plan[r]), done[r] \subseteq plan[r].nodes, Schedule(r)
  PROVE  Domains' /\ ScheduleMove(r)
<1>0. plan[r].nodes \subseteq Nodes
  BY PlanParts DEF Domains
<1>1. /\ pc[r] = "schedule" /\ done[r] # plan[r].nodes
      /\ UNCHANGED <<ledgerVars, stop, slotVars, holder, historyVars, status, askVars, plan, attempt,
                     done, exec, gateOpen, resolved, started, failure, dropped>>
  BY DEF Schedule, OutOfBroker
<1>2. /\ pc' = [pc EXCEPT ![r] = "gate"] \/ pc' = [pc EXCEPT ![r] = "wave"]
      /\ todo' = [todo EXCEPT ![r] = todo'[r]] /\ todo'[r] \in SUBSET Nodes
      /\ ScheduleMove(r)
  <2>1. CASE ~gateOpen[r] /\ ReadReady(r) = {}
    <3>1. pc' = [pc EXCEPT ![r] = "gate"] /\ todo' = [todo EXCEPT ![r] = GateMembers(r)]
      BY <2>1 DEF Schedule, Goto
    <3>2. GateMembers(r) \in SUBSET Nodes
      BY <1>0 DEF GateMembers
    <3> QED BY <1>1, <2>1, <3>1, <3>2 DEF ScheduleMove, Domains
  <2>2. CASE ~(~gateOpen[r] /\ ReadReady(r) = {})
    <3> DEFINE S == IF gateOpen[r] THEN Ready(r) ELSE ReadReady(r)
    <3>1. pc' = [pc EXCEPT ![r] = "wave"] /\ todo' = [todo EXCEPT ![r] = Wave(r, S)]
      BY <2>2 DEF Schedule, Goto
    <3>2. S \in SUBSET Nodes /\ S \subseteq Ready(r) /\ (~gateOpen[r] => S \subseteq ReadReady(r))
      BY <1>0 DEF Ready, ReadReady
    <3>3. S # {}
      BY <1>1, <2>2, SomeNodeIsReady
    <3> HIDE DEF S
    <3>4. WaveOf(r, Wave(r, S))
      BY <3>2, <3>3, WaveIsSound
    <3>5. Wave(r, S) \in SUBSET Nodes
      BY <1>0, <3>4 DEF WaveOf, Ready
    <3> QED BY <1>1, <3>1, <3>4, <3>5 DEF ScheduleMove, Domains
  <2> QED BY <2>1, <2>2
<1>3. Domains'
  BY <1>1, <1>2 DEF Domains, BrokerTypeOK, Pc, ledgerVars, slotVars, historyVars, askVars
<1> QED BY <1>2, <1>3

\* From a loop back to the schedule: all nodes prepared, the gate passed, a wave over.
AdvanceMove(r) ==
  /\ \/ pc[r] = "preflight" /\ Passed(r) /\ todo[r] = {} /\ UNCHANGED gateOpen
     \/ pc[r] = "gate" /\ Passed(r) /\ todo[r] = {} /\ gateOpen' = [gateOpen EXCEPT ![r] = TRUE]
     \/ pc[r] = "execute" /\ exec[r] = {} /\ failure[r] = "none" /\ UNCHANGED gateOpen
  /\ pc' = [pc EXCEPT ![r] = "schedule"]
  /\ UNCHANGED <<ledgerVars, stop, slotVars, holder, historyVars, status, askVars, plan, attempt,
                 done, todo, exec, resolved, started, failure, dropped>>

\* A plan that is given up here leaves nothing in flight.
QuietlyGone(r) ==
  /\ PlanGone(r) /\ UNCHANGED usage
  /\ \/ pc[r] = "execute" /\ exec[r] = {}
     \/ pc[r] # "execute" /\ Passed(r)

LEMMA AdvanceMoves ==
  ASSUME Domains, NEW r \in Runs, PreflightPasses(r) \/ GateOpens(r) \/ WaveEnds(r)
  PROVE  Domains' /\ (AdvanceMove(r) \/ QuietlyGone(r))
<1>1. ASSUME AdvanceMove(r) PROVE Domains'
  BY <1>1 DEF AdvanceMove, Domains, BrokerTypeOK, Pc, ledgerVars, slotVars, historyVars, askVars
<1>2. ASSUME Leaving(r), pc[r] \in Planning, UNCHANGED <<ledgerVars, stop, holder, historyVars>>
      PROVE  Domains' /\ PlanGone(r) /\ UNCHANGED usage
  BY <1>2, LeavingIsGone DEF ledgerVars, Domains, BrokerTypeOK
<1>3. status[r] \in Status /\ "LimitReached" \in Status
  BY DEF Domains, BrokerTypeOK, Status
<1>4. CASE PreflightPasses(r)
  <2>1. CASE PlanTerminates(r, "LimitReached")
    BY <1>2, <1>3, <1>4, <2>1 DEF Leaving, PreflightPasses, Planning, QuietlyGone
  <2>2. CASE ~PlanTerminates(r, "LimitReached")
    BY <1>1, <1>4, <2>2 DEF PreflightPasses, AdvanceMove, Goto, planVars
  <2> QED BY <2>1, <2>2
<1>5. CASE GateOpens(r)
  BY <1>1, <1>5 DEF GateOpens, AdvanceMove, Goto, OutOfBroker
<1>6. CASE WaveEnds(r)
  <2>1. CASE Leaving(r)
    BY <1>2, <1>6, <2>1 DEF WaveEnds, Planning, QuietlyGone
  <2>2. CASE ~Leaving(r)
    <3>1. ~PlanFailed(r) /\ ~PlanTerminates(r, status[r])
      BY <1>3, <2>2 DEF Leaving
    <3> QED BY <1>1, <1>6, <3>1 DEF WaveEnds, AdvanceMove, Goto, planVars
  <2> QED BY <2>1, <2>2
<1> QED BY <1>4, <1>5, <1>6

LEMMA SucceedsMoves ==
  ASSUME Domains, NEW r \in Runs, PlanSucceeds(r)
  PROVE  Domains' /\ PlanGone(r) /\ UNCHANGED usage /\ pc[r] = "schedule"
<1>1. pc[r] = "schedule" /\ Leaving(r) /\ UNCHANGED <<ledgerVars, stop, holder, historyVars>>
  BY DEF PlanSucceeds, Leaving
<1> QED BY <1>1, LeavingIsGone DEF ledgerVars, Domains, BrokerTypeOK, Planning

\* As many of the wave as there is room for are executed.
DispatchMove(r) ==
  /\ pc[r] = "wave" /\ Passed(r) /\ todo[r] = {}
  /\ \E X \in SUBSET exec[r] : exec' = [exec EXCEPT ![r] = X]
  /\ pc' = [pc EXCEPT ![r] = "execute"]
  /\ UNCHANGED <<ledgerVars, stop, slotVars, holder, historyVars, status, askVars, plan, attempt,
                 done, todo, gateOpen, resolved, failure, dropped>>

LEMMA DispatchMoves ==
  ASSUME Domains, NEW r \in Runs, Dispatch(r)
  PROVE  Domains' /\ (DispatchMove(r) \/ QuietlyGone(r))
<1>0. /\ pc[r] = "wave" /\ Passed(r) /\ todo[r] = {}
      /\ UNCHANGED <<ledgerVars, stop, holder, historyVars>>
  BY DEF Dispatch
<1>1. CASE PlanTerminates(r, "LimitReached")
  <2>1. Leaving(r) /\ pc[r] \in Planning
    BY <1>0, <1>1 DEF Leaving, Status, Planning
  <2>2. Domains' /\ PlanGone(r)
    BY <1>0, <2>1, LeavingIsGone DEF ledgerVars, Domains, BrokerTypeOK
  <2> QED BY <1>0, <2>2 DEF QuietlyGone, ledgerVars
<1>2. CASE ~PlanTerminates(r, "LimitReached")
  <2>1. \E n \in 0..Cardinality(exec[r]) :
          /\ exec' = [exec EXCEPT ![r] = {i \in @ : Cardinality({j \in @ : j < i}) < n}]
          /\ started' = [started EXCEPT ![r] = @ \/ exec[r] # {}]
          /\ pc' = [pc EXCEPT ![r] = "execute"]
          /\ UNCHANGED <<slotVars, status, askVars, plan, attempt, done, todo, gateOpen,
                         resolved, failure, dropped>>
    BY <1>2 DEF Dispatch, Goto
  <2>2. PICK n \in 0..Cardinality(exec[r]) :
          /\ exec' = [exec EXCEPT ![r] = {i \in @ : Cardinality({j \in @ : j < i}) < n}]
          /\ started' = [started EXCEPT ![r] = @ \/ exec[r] # {}]
          /\ pc' = [pc EXCEPT ![r] = "execute"]
          /\ UNCHANGED <<slotVars, status, askVars, plan, attempt, done, todo, gateOpen,
                         resolved, failure, dropped>>
    BY <2>1
  <2> DEFINE X == {i \in exec[r] : Cardinality({j \in exec[r] : j < i}) < n}
  <2>3. X \in SUBSET exec[r] /\ exec' = [exec EXCEPT ![r] = X]
    BY <2>2
  <2> HIDE DEF X
  <2>4. DispatchMove(r)
    BY <1>0, <2>2, <2>3 DEF DispatchMove
  <2>5. (started[r] \/ exec[r] # {}) \in BOOLEAN
    OBVIOUS
  <2>6. exec' \in [Runs -> SUBSET Nodes] /\ started' \in [Runs -> BOOLEAN] /\ pc' \in [Runs -> Pc]
    BY <2>2, <2>3, <2>5 DEF Domains, Pc
  <2>7. Domains'
    BY <1>0, <2>2, <2>6 DEF Domains, BrokerTypeOK, ledgerVars, slotVars, historyVars, askVars
  <2> QED BY <2>4, <2>7
<1> QED BY <1>1, <1>2

\* A call that has ended is recorded, and its node done or the wave failed.
RecordNodeMove(r, i) ==
  /\ pc[r] = "execute" /\ i \in exec[r] /\ Joined(r)
  /\ FreeSlot(Node(r, i))
  /\ RecordExecution(Node(r, i)) \/ RecordExecutionError(Node(r, i))
  /\ exec' = [exec EXCEPT ![r] = @ \ {i}]
  /\ \/ done' = [done EXCEPT ![r] = @ \cup {i}] /\ UNCHANGED failure
     \/ UNCHANGED done /\ \E f \in {"Recoverable", "Terminal"} : failure' = [failure EXCEPT ![r] = f]
  /\ UNCHANGED <<pc, askVars, plan, attempt, todo, gateOpen, resolved, started, dropped>>

LEMMA RecordNodeMoves ==
  ASSUME Domains, NEW r \in Runs, RecordNode(r)
  PROVE  Domains' /\ \E i \in Nodes : RecordNodeMove(r, i)
<1> DEFINE i == First(exec[r])
           o == Node(r, i)
<1>0. i \in exec[r] /\ i \in Nodes /\ o \in Slots /\ RunOf[o] = r
  BY FirstOfNodes, NodeSlots DEF RecordNode, Domains
<1>1. /\ pc[r] = "execute" /\ Joined(r) /\ FreeSlot(o)
      /\ exec' = [exec EXCEPT ![r] = @ \ {i}]
      /\ UNCHANGED <<pc, askVars, plan, attempt, todo, gateOpen, resolved, started, dropped>>
  BY DEF RecordNode
<1>2. \/ /\ RecordExecution(o)
         /\ \/ done' = [done EXCEPT ![r] = @ \cup {i}] /\ UNCHANGED <<failure, status>>
            \/ Terminates(r, "LimitReached") /\ UNCHANGED done
      \/ /\ RecordExecution(o) \/ RecordExecutionError(o)
         /\ failure' = [failure EXCEPT ![r] = IF @ = "none" THEN "Recoverable" ELSE @]
         /\ UNCHANGED <<done, status>>
      \/ /\ RecordExecutionError(o)
         /\ Terminates(r, ErrorStatus(err[o]))
         /\ UNCHANGED done
  BY DEF RecordNode
<1> HIDE DEF i, o
<1>3. RecordExecution(o) \/ RecordExecutionError(o)
  BY <1>2
<1>4. \/ done' = [done EXCEPT ![r] = @ \cup {i}] /\ UNCHANGED failure
      \/ UNCHANGED done /\ \E f \in {"Recoverable", "Terminal"} : failure' = [failure EXCEPT ![r] = f]
  BY <1>2 DEF Terminates, Domains
<1>5. status' \in [Runs -> Status]
  <2>1. status' = status \/ \E st \in Status : status' = [status EXCEPT ![r] = st]
    <3>1. "LimitReached" \in Status /\ ErrorStatus(err[o]) \in Status
      BY ErrorStatusType DEF Status
    <3> QED BY <1>2, <3>1, Zenon DEF Terminates
  <2> QED BY <2>1 DEF Domains, BrokerTypeOK
<1>6. usage' \in [Runs -> [Counters -> Nat]] /\ effects' \in [Runs -> [Sigs -> Effect]]
      /\ UNCHANGED <<seen, stop, holder, starts, confirmed>>
  BY <1>0, <1>3, BumpType, EffectType
     DEF Domains, BrokerTypeOK, RecordExecution, RecordExecutionError, historyVars, Effect
<1>7. BrokerTypeOK'
  BY <1>0, <1>1, <1>5, <1>6, FreeSlotType DEF Domains, BrokerTypeOK
<1>8. /\ exec' \in [Runs -> SUBSET Nodes] /\ done' \in [Runs -> SUBSET Nodes]
      /\ failure' \in [Runs -> {"none", "Recoverable", "Terminal"}]
  BY <1>0, <1>1, <1>4 DEF Domains
<1>9. Domains'
  BY <1>1, <1>7, <1>8 DEF Domains, askVars
<1>10. RecordNodeMove(r, i)
  BY <1>0, <1>1, <1>3, <1>4 DEF RecordNodeMove, o
<1> QED BY <1>0, <1>9, <1>10

\* A call of the reactive loop.
TakeCallMove(r) ==
  /\ pc[r] \in {"turn", "calls"} /\ pc' = [pc EXCEPT ![r] = "calls"]
  /\ \E s \in Sigs : PrepareMove(Direct(r), s)
  /\ UNCHANGED <<askVars, planVars>>

CallEndsMove(r) ==
  /\ RecordMove(Direct(r)) /\ FreeSlot(Direct(r))
  /\ pc' = pc \/ pc' = [pc EXCEPT ![r] = "done"]
  /\ UNCHANGED <<askVars, planVars, stop>>

\* A node did not pass the broker, and its plan is given up.
FailsGone(r) ==
  /\ PlanGone(r)
  /\ \/ usage' = usage /\ \E i \in Nodes : phase[Node(r, i)] \in {"limit", "rejected"}
     \/ \E i \in Nodes : RecordPreDispatchError(Node(r, i))

SucceedsMove(r) == PlanGone(r) /\ UNCHANGED usage /\ pc[r] = "schedule"

NodeMove(r, i) ==
  PreflightMove(r, i) \/ GateMove(r, i) \/ WaveMove(r, i) \/ ReuseMove(r, i) \/ RecordNodeMove(r, i)
LoopMove(r) == ScheduleMove(r) \/ AdvanceMove(r) \/ DispatchMove(r)
GoneMove(r) == QuietlyGone(r) \/ FailsGone(r) \/ SucceedsMove(r)

Move(r) ==
  \/ ControlMove(r)
  \/ \E p \in Plans : PlannerPlans(r, p)
  \/ \E i \in Nodes : NodeMove(r, i)
  \/ LoopMove(r)
  \/ GoneMove(r)
  \/ TakeCallMove(r)
  \/ CallEndsMove(r)
  \/ \E o \in Slots : BrokerMove(r, o)
  \/ StopStep(r)

LEMMA StopDomains ==
  ASSUME Domains, NEW r \in Runs, StopStep(r)
  PROVE  Domains'
BY DEF StopStep, Cancel, Expire, Domains, BrokerTypeOK, askVars, planVars, ledgerVars, slotVars,
   historyVars

\* Every step of a run is one of its moves.
LEMMA MovesOfRun ==
  ASSUME Domains, NEW r \in Runs, RunMoves(r),
         pc[r] = "schedule" => StaticallyValid(plan[r]) /\ done[r] \subseteq plan[r].nodes
  PROVE  Domains' /\ Move(r)
<1> USE DEF Move, NodeMove, LoopMove, GoneMove
<1>1. CASE \/ RefuseRequest(r) \/ SendRequest(r) \/ ModelStopped(r) \/ TurnOver(r)
           \/ ModelRetries(r) \/ ModelFails(r) \/ PlannerDeclines(r) \/ PlannerInvalid(r)
           \/ AnswerEnds(r) \/ AnswerInvalid(r) \/ AnswerCalls(r)
  BY <1>1, ControlMoves
<1>2. CASE PreflightNode(r) BY <1>2, PreflightMoves
<1>3. CASE PreflightFails(r) \/ GateFails(r) \/ WaveFails(r) BY <1>3, FailsIsGone DEF FailsGone
<1>4. CASE PreflightPasses(r) \/ GateOpens(r) \/ WaveEnds(r) BY <1>4, AdvanceMoves
<1>5. CASE Schedule(r) BY <1>5, ScheduleMoves DEF Schedule
<1>6. CASE PlanSucceeds(r) BY <1>6, SucceedsMoves DEF SucceedsMove
<1>7. CASE GateNode(r) BY <1>7, GateMoves
<1>8. CASE WaveNode(r) BY <1>8, WaveMoves
<1>9. CASE WaveNodeReused(r)
  <2>1. pc[r] = "wave"
    BY <1>9 DEF WaveNodeReused
  <2> QED BY <1>9, <2>1, ReuseMoves DEF QuietlyGone
<1>10. CASE Dispatch(r) BY <1>10, DispatchMoves
<1>11. CASE RecordNode(r) BY <1>11, RecordNodeMoves
<1>12. ASSUME NEW s \in Sigs, TakeCall(r, s) PROVE Domains' /\ Move(r)
  <2>1. Domains' /\ PrepareMove(Direct(r), s)
    BY <1>12, TakeCallMoves
  <2>2. TakeCallMove(r)
    BY <1>12, <2>1 DEF TakeCall, TakeCallMove, Goto
  <2> QED BY <2>1, <2>2
<1>13. CASE CallEnds(r) BY <1>13, CallEndsMoves DEF CallEndsMove
<1>14. CASE \/ /\ \E o \in AtBroker(r) : MayDispatch(r, o) /\ SlotStep(o)
               /\ UNCHANGED <<pc, askVars, planVars>>
            \/ AnswerStep(r)
  BY <1>14, BrokerMoves
<1>15. ASSUME NEW p \in Plans, PlannerPlans(r, p) PROVE Domains' /\ Move(r)
  BY <1>15, PlansMoves
<1>16. CASE StopStep(r) BY <1>16, StopDomains
<1> HIDE DEF Move
<1> QED
  BY <1>1, <1>2, <1>3, <1>4, <1>5, <1>6, <1>7, <1>8, <1>9, <1>10, <1>11, <1>12, <1>13, <1>14, <1>15,
     <1>16 DEF RunMoves, RunStep, ModelStep

-----------------------------------------------------------------------------
(* What a move leaves alone.                                               *)

\* Everything of another run.
SameControl(q) == pc'[q] = pc[q] /\ ask'[q] = ask[q]
SamePlan(q) ==
  /\ plan'[q] = plan[q] /\ attempt'[q] = attempt[q] /\ done'[q] = done[q] /\ todo'[q] = todo[q]
  /\ exec'[q] = exec[q] /\ gateOpen'[q] = gateOpen[q] /\ resolved'[q] = resolved[q]
  /\ failure'[q] = failure[q] /\ dropped'[q] = dropped[q]
SameLedger(q) ==
  /\ usage'[q] = usage[q] /\ effects'[q] = effects[q]
  /\ starts'[q] = starts[q] /\ confirmed'[q] = confirmed[q]
SameSlot(o) == phase'[o] = phase[o] /\ call'[o] = call[o] /\ before'[o] = before[o]
SameSlots(q) == \A o \in Slots : RunOf[o] = q => SameSlot(o)

Untouched(q) == SameControl(q) /\ SamePlan(q) /\ SameLedger(q) /\ SameSlots(q)

\* A move with one call changes the slot of that call only.
OneSlot(o) == \A p \in Slots \ {o} : SameSlot(p)

LEMMA PrepareIsOneSlot ==
  ASSUME NEW o \in Slots, NEW s \in Sigs, PrepareMove(o, s) PROVE OneSlot(o)
BY DEF PrepareMove, OneSlot, SameSlot

LEMMA DeferIsOneSlot ==
  ASSUME Domains, NEW o \in Slots, DeferMove(o) PROVE OneSlot(o)
<1>1. AnySig \in Sigs
  BY AnySigInSigs
<1>2. CASE PrepareMove(o, AnySig)
  BY <1>1, <1>2, PrepareIsOneSlot
<1>3. CASE Admitting(o, AnySig) /\ phase' = [phase EXCEPT ![o] = "ready"]
  BY <1>3 DEF Admitting, Preparing, OneSlot, SameSlot, Domains, BrokerTypeOK
<1> QED BY <1>2, <1>3 DEF DeferMove

LEMMA SlotIsOneSlot ==
  ASSUME NEW o \in Slots, SlotMove(o) PROVE OneSlot(o) /\ UNCHANGED <<call, before>>
BY DEF SlotMove, OneSlot, SameSlot

LEMMA FreeIsOneSlot ==
  ASSUME Domains, NEW o \in Slots, FreeSlot(o)
  PROVE  OneSlot(o) /\ phase'[o] = "idle"
BY DEF FreeSlot, OneSlot, SameSlot, Domains, BrokerTypeOK

LEMMA OneSlotIsOwn ==
  ASSUME NEW o \in Slots, OneSlot(o), NEW q \in Runs, q # RunOf[o]
  PROVE  SameSlots(q)
BY DEF OneSlot, SameSlots

\* The slots of one node: the other nodes and the reactive call keep theirs.
LEMMA OneNode ==
  ASSUME NEW r \in Runs, NEW i \in Nodes, OneSlot(Node(r, i))
  PROVE  SameSlot(Direct(r)) /\ \A j \in Nodes \ {i} : SameSlot(Node(r, j))
<1>1. Direct(r) \in Slots \ {Node(r, i)}
  BY NodeSlots
<1>2. \A j \in Nodes \ {i} : Node(r, j) \in Slots \ {Node(r, i)}
  BY NodeSlots
<1> QED BY <1>1, <1>2 DEF OneSlot

LEMMA OneDirect ==
  ASSUME NEW r \in Runs, OneSlot(Direct(r))
  PROVE  \A j \in Nodes : SameSlot(Node(r, j))
<1>1. \A j \in Nodes : Node(r, j) \in Slots \ {Direct(r)}
  BY NodeSlots
<1> QED BY <1>1 DEF OneSlot

\* The slots of a plan that is given up are free, and no other changes.
LEMMA DropFreesSlots ==
  ASSUME Domains, NEW r \in Runs, DropPlan(r)
  PROVE  /\ \A o \in Slots : RunOf[o] = r => phase'[o] = "idle"
         /\ \A o \in Slots : RunOf[o] # r => SameSlot(o)
BY SlotPairs DEF DropPlan, SameSlot, Domains, BrokerTypeOK

\* What happens to the node of a NodeMove, besides its slot.
LEMMA NodeMoveSlot ==
  ASSUME Domains, NEW r \in Runs, NEW i \in Nodes, NodeMove(r, i)
  PROVE  OneSlot(Node(r, i))
<1>0. Node(r, i) \in Slots /\ plan[r] \in Plans /\ BoundTo(r, i) \subseteq Sigs
  BY NodeSlots, BoundToSigs DEF Domains
<1>1. plan[r].sigs[i] \subseteq Sigs
  BY <1>0, PlanParts
<1>2. CASE PreflightMove(r, i)
  BY <1>0, <1>1, <1>2, PrepareIsOneSlot, DeferIsOneSlot DEF PreflightMove
<1>3. CASE GateMove(r, i) \/ WaveMove(r, i)
  <2>1. PICK s \in Sigs : Revalidate(r, i, s)
    BY <1>0, <1>3 DEF GateMove, WaveMove
  <2>2. Revalidated(r, i, s)
    BY <2>1, RevalidateMoves
  <2> QED BY <2>2 DEF Revalidated, OneSlot, SameSlot
<1>4. CASE ReuseMove(r, i) \/ RecordNodeMove(r, i)
  BY <1>0, <1>4, FreeIsOneSlot DEF ReuseMove, RecordNodeMove
<1> QED BY <1>2, <1>3, <1>4 DEF NodeMove

LEMMA MovesAreOwn ==
  ASSUME Domains, NEW r \in Runs, Move(r), NEW q \in Runs \ {r}
  PROVE  Untouched(q)
<1>0. Direct(r) \in Slots /\ RunOf[Direct(r)] = r /\ BrokerTypeOK
  BY NodeSlots DEF Domains
<1>1. CASE ControlMove(r)
  BY <1>1 DEF ControlMove, Untouched, SameControl, SamePlan, SameLedger, SameSlots, SameSlot, Domains,
     planVars, ledgerVars, slotVars, historyVars
<1>2. ASSUME NEW p \in Plans, PlannerPlans(r, p) PROVE Untouched(q)
  BY <1>2 DEF PlannerPlans, OutOfBroker, Goto, Untouched, SameControl, SamePlan, SameLedger, SameSlots,
     SameSlot, Domains, askVars, ledgerVars, slotVars, historyVars
<1>3. ASSUME NEW i \in Nodes, NodeMove(r, i) PROVE Untouched(q)
  <2>0. Node(r, i) \in Slots /\ RunOf[Node(r, i)] = r /\ BoundTo(r, i) \subseteq Sigs
        /\ plan[r].sigs[i] \subseteq Sigs /\ AnySig \in Sigs
    BY NodeSlots, BoundToSigs, PlanParts, AnySigInSigs DEF Domains
  <2>1. SameSlots(q)
    BY <1>3, <2>0, NodeMoveSlot, OneSlotIsOwn
  <2>2. SameControl(q) /\ SamePlan(q)
    <3>1. \/ resolved' = resolved \/ resolved' = [resolved EXCEPT ![r] = @ \cup {i}]
      BY <1>3, <2>0 DEF NodeMove, PreflightMove, GateMove, WaveMove, ReuseMove, RecordNodeMove, Revalidate
    <3>2. /\ todo' = todo \/ todo' = [todo EXCEPT ![r] = @ \ {i}]
          /\ exec' = exec \/ exec' = [exec EXCEPT ![r] = @ \ {i}] \/ exec' = [exec EXCEPT ![r] = @ \cup {i}]
          /\ done' = done \/ done' = [done EXCEPT ![r] = @ \cup {i}]
          /\ failure' = failure \/ \E f \in {"Recoverable", "Terminal"} : failure' = [failure EXCEPT ![r] = f]
          /\ UNCHANGED <<pc, ask, plan, attempt, gateOpen, dropped>>
      BY <1>3, Zenon
         DEF NodeMove, PreflightMove, GateMove, WaveMove, ReuseMove, RecordNodeMove, askVars
    <3> QED BY <3>1, <3>2 DEF SameControl, SamePlan, Domains
  <2>3. SameLedger(q)
    <3>1. CASE PreflightMove(r, i)
      <4>1. CASE \E s \in Sigs : PrepareMove(Node(r, i), s)
        BY <1>0, <2>0, <4>1, PrepareIsOwnRun DEF OwnRunOnly, SameLedger
      <4>2. CASE Admitting(Node(r, i), AnySig) /\ Bump(r, {"calls"}) /\ UNCHANGED effects
        BY <4>2 DEF Admitting, Preparing, Bump, SameLedger, Domains, BrokerTypeOK, historyVars
      <4> QED BY <2>0, <3>1, <4>1, <4>2 DEF PreflightMove, DeferMove
    <3>2. CASE GateMove(r, i) \/ WaveMove(r, i)
      <4>1. PICK s \in Sigs : Revalidate(r, i, s)
        BY <2>0, <3>2 DEF GateMove, WaveMove
      <4>2. Revalidated(r, i, s)
        BY <4>1, RevalidateMoves
      <4> QED BY <4>2 DEF Revalidated, Bump, SameLedger, Domains, BrokerTypeOK, historyVars
    <3>3. CASE ReuseMove(r, i) \/ RecordNodeMove(r, i)
      <4>1. CASE UNCHANGED <<ledgerVars, historyVars>>
        BY <4>1 DEF SameLedger, ledgerVars, historyVars
      <4>2. CASE RecordMove(Node(r, i))
        BY <1>0, <2>0, <4>2, RecordIsOwnRun DEF OwnRunOnly, SameLedger
      <4> QED BY <3>3, <4>1, <4>2 DEF ReuseMove, RecordNodeMove, RecordMove
    <3> QED BY <1>3, <3>1, <3>2, <3>3 DEF NodeMove
  <2> QED BY <2>1, <2>2, <2>3 DEF Untouched
<1>4. CASE LoopMove(r)
  BY <1>4 DEF LoopMove, ScheduleMove, AdvanceMove, DispatchMove, Untouched, SameControl, SamePlan,
     SameLedger, SameSlots, SameSlot, Domains, askVars, ledgerVars, slotVars, historyVars
<1>5. CASE GoneMove(r)
  <2>1. PlanGone(r)
    BY <1>5 DEF GoneMove, QuietlyGone, FailsGone, SucceedsMove
  <2>2. SameSlots(q)
    BY <2>1, DropFreesSlots DEF PlanGone, SameSlots
  <2>3. SamePlan(q)
    BY <2>1 DEF PlanGone, DropPlan, SamePlan, Domains
  <2>4. SameControl(q)
    BY <2>1 DEF PlanGone, SameControl, Domains
  <2>5. usage'[q] = usage[q]
    <3>1. CASE UNCHANGED usage
      BY <3>1
    <3>2. ASSUME NEW i \in Nodes, RecordPreDispatchError(Node(r, i)) PROVE usage'[q] = usage[q]
      <4>1. Node(r, i) \in Slots /\ RunOf[Node(r, i)] = r
        BY NodeSlots
      <4> QED BY <1>0, <3>2, <4>1, RecordIsOwnRun DEF RecordMove, OwnRunOnly
    <3> QED BY <1>5, <3>1, <3>2 DEF GoneMove, QuietlyGone, FailsGone, SucceedsMove
  <2> QED BY <2>1, <2>2, <2>3, <2>4, <2>5 DEF PlanGone, Untouched, SameLedger, historyVars
<1>6. CASE TakeCallMove(r)
  <2>1. PICK s \in Sigs : PrepareMove(Direct(r), s)
    BY <1>6 DEF TakeCallMove
  <2>2. OwnRunOnly(Direct(r)) /\ SameSlots(q)
    BY <1>0, <2>1, PrepareIsOwnRun, PrepareIsOneSlot, OneSlotIsOwn
  <2> QED BY <1>0, <1>6, <2>2 DEF TakeCallMove, OwnRunOnly, Untouched, SameLedger, SameControl, SamePlan,
          Domains, askVars, planVars
<1>7. CASE CallEndsMove(r)
  <2>1. OwnRunOnly(Direct(r)) /\ SameSlots(q)
    BY <1>0, <1>7, RecordIsOwnRun, FreeIsOneSlot, OneSlotIsOwn DEF CallEndsMove
  <2> QED BY <1>0, <1>7, <2>1 DEF CallEndsMove, OwnRunOnly, Untouched, SameLedger, SameControl, SamePlan,
          Domains, askVars, planVars
<1>8. ASSUME NEW o \in Slots, BrokerMove(r, o) PROVE Untouched(q)
  <2>1. OwnRunOnly(o) /\ SameSlots(q)
    BY <1>0, <1>8, MoveIsOwnRun, SlotIsOneSlot, OneSlotIsOwn DEF BrokerMove
  <2> QED BY <1>8, <2>1 DEF BrokerMove, OwnRunOnly, Untouched, SameLedger, SameControl, SamePlan, askVars,
          planVars
<1>9. CASE StopStep(r)
  BY <1>9 DEF StopStep, Cancel, Expire, Untouched, SameControl, SamePlan, SameLedger, SameSlots, SameSlot,
     askVars, planVars, ledgerVars, slotVars, historyVars
<1> QED BY <1>1, <1>2, <1>3, <1>4, <1>5, <1>6, <1>7, <1>8, <1>9 DEF Move

-----------------------------------------------------------------------------
(* The shape of a run: where its nodes are in each loop of execute_plan.   *)

Quiet == {"idle", "ready", "reused"}

\* Nothing of a plan is left.
Fresh(r) ==
  /\ \A i \in Nodes : phase[Node(r, i)] = "idle"
  /\ done[r] = {} /\ todo[r] = {} /\ exec[r] = {} /\ resolved[r] = {}
  /\ ~gateOpen[r] /\ failure[r] = "none"

\* Outside a plan there is nothing of one; inside, only the nodes of the wave in
\* flight are dispatched, and they are not taken up twice.
Places(r) ==
  /\ phase[Direct(r)] # "idle" => pc[r] = "calls"
  /\ pc[r] \notin Planning => Fresh(r)
  /\ \A i \in Nodes : phase[Node(r, i)] \in Dispatched => pc[r] = "execute" /\ i \in exec[r]
  /\ pc[r] \in Planning =>
       /\ StaticallyValid(plan[r])
       /\ done[r] \cup todo[r] \cup exec[r] \cup resolved[r] \subseteq plan[r].nodes
       /\ \A i \in Nodes \ plan[r].nodes : phase[Node(r, i)] = "idle"
  /\ pc[r] \in {"preflight", "schedule", "gate"} => exec[r] = {}
  /\ pc[r] \in {"schedule", "execute"} => todo[r] = {}
  /\ exec[r] \cap todo[r] = {} /\ exec[r] \subseteq resolved[r]
  /\ (exec[r] \cup todo[r]) \cap done[r] = {}
  /\ \A i \in exec[r] : phase[Node(r, i)] \notin {"idle", "reused"}
  /\ pc[r] = "execute" => \A i \in Nodes : phase[Node(r, i)] \in Quiet \cup Dispatched

\* What each loop has done with the nodes it has taken up.
Loops(r) ==
  /\ pc[r] = "preflight" =>
       /\ done[r] = {} /\ ~gateOpen[r] /\ resolved[r] \cap todo[r] = {}
       /\ \A i \in todo[r] : phase[Node(r, i)] = "idle"
       /\ \A i \in plan[r].nodes \ todo[r] : phase[Node(r, i)] # "idle"
  /\ pc[r] = "gate" =>
       /\ ~gateOpen[r]
       /\ \A i \in todo[r] : phase[Node(r, i)] = "ready"
       /\ \A i \in todo[r] \cap Bound(plan[r]) : plan[r].deps[i] \subseteq done[r]
       /\ plan[r].nodes \ done[r] \subseteq todo[r] \cup resolved[r]
  /\ pc[r] \in {"schedule", "wave", "gate", "preflight"} => failure[r] = "none"
  /\ pc[r] = "schedule" => \A i \in Nodes : phase[Node(r, i)] \in Quiet
  /\ pc[r] \in Planning \ {"preflight"} /\ failure[r] = "none" =>
       \A i \in plan[r].nodes \ done[r] : phase[Node(r, i)] # "idle"

\* What is known of a node: done after its dependencies, resolved to one of its
\* signatures, reused only if it changes state, authorized once the gate is open.
Known(r) ==
  /\ \A i \in done[r] : phase[Node(r, i)] = "idle" /\ plan[r].deps[i] \subseteq done[r]
  /\ \A i \in Nodes : phase[Node(r, i)] = "reused" => i \in resolved[r] /\ NodeMutates(plan[r], i)
  /\ pc[r] \in Planning =>
       \A i \in plan[r].nodes \ Bound(plan[r]) :
         i \in resolved[r] \/ (pc[r] = "preflight" /\ i \in todo[r])
  /\ \A i \in resolved[r] : phase[Node(r, i)] # "idle" => call[Node(r, i)] \in plan[r].sigs[i]
  /\ gateOpen[r] =>
       \A i \in plan[r].nodes \ done[r] : i \in resolved[r] /\ phase[Node(r, i)] \notin PrepPhases

\* What a wave holds: nodes whose dependencies are done; a state change is alone.
Waves(r) ==
  pc[r] \in {"wave", "execute"} =>
    /\ \A i \in exec[r] \cup todo[r] :
         plan[r].deps[i] \subseteq done[r] /\ (NodeMutates(plan[r], i) => gateOpen[r])
    /\ \A i \in exec[r] \cup todo[r] : NodeMutates(plan[r], i) /\ phase[Node(r, i)] # "reused" =>
         exec[r] \cup todo[r] = {i}
    /\ \A i, j \in exec[r] \cup todo[r] :
         i # j /\ phase[Node(r, i)] # "reused" /\ phase[Node(r, j)] # "reused" =>
           NodeKey(plan[r], i) = NoKey \/ NodeKey(plan[r], i) # NodeKey(plan[r], j)

\* A run accepts a second plan only to recover from its first.
Asks(r) ==
  /\ attempt[r] <= 2
  /\ pc[r] \in {"ask", "model"} /\ ask[r] \in {"plan", "repair"} => attempt[r] = 0
  /\ pc[r] \in {"ask", "model"} /\ ask[r] = "recovery" => attempt[r] = 1

Shape(r) == Places(r) /\ Loops(r) /\ Known(r) /\ Waves(r) /\ Asks(r)

\* A run without a plan, after a step.
LEMMA FreshIsShaped ==
  ASSUME Domains', NEW r \in Runs, Fresh(r)', pc'[r] \notin Planning,
         phase'[Direct(r)] # "idle" => pc'[r] = "calls"
  PROVE  (Places(r) /\ Loops(r) /\ Known(r) /\ Waves(r))'
<1> USE DEF Fresh, Dispatched, ExecPhases, Planning, Quiet
<1>1. Places(r)' BY DEF Places
<1>2. Loops(r)' BY DEF Loops
<1>3. Known(r)' BY DEF Known
<1>4. Waves(r)' BY DEF Waves
<1> QED BY <1>1, <1>2, <1>3, <1>4

LEMMA ControlKeepsShape ==
  ASSUME Domains, Domains', NEW r \in Runs, Shape(r), ControlMove(r)
  PROVE  Shape(r)'
<1>1. pc[r] \notin Planning /\ pc'[r] \notin Planning
      /\ UNCHANGED <<phase, done, todo, exec, resolved, gateOpen, failure, attempt>>
  BY DEF ControlMove, Planning, Domains, slotVars, planVars
<1>2. Fresh(r)' /\ phase[Direct(r)] = "idle"
  BY <1>1 DEF Shape, Places, Fresh, ControlMove
<1>3. Asks(r)'
  BY <1>1 DEF Shape, Asks, ControlMove, Domains
<1> QED BY <1>1, <1>2, <1>3, FreshIsShaped DEF Shape

LEMMA DirectKeepsShape ==
  ASSUME Domains, Domains', NEW r \in Runs, Shape(r), TakeCallMove(r) \/ CallEndsMove(r)
  PROVE  Shape(r)'
<1>0. Direct(r) \in Slots /\ pc[r] \notin Planning
  BY NodeSlots DEF TakeCallMove, Planning, CallEndsMove, Shape, Places, RecordMove,
     RecordPreDispatchError, RecordExecution, RecordExecutionError
<1>1. OneSlot(Direct(r))
  BY <1>0, PrepareIsOneSlot, FreeIsOneSlot DEF TakeCallMove, CallEndsMove
<1>2. /\ pc'[r] \in {"calls", "done"} /\ (pc'[r] = "done" => phase'[Direct(r)] = "idle")
      /\ UNCHANGED <<planVars, askVars>>
  <2>1. CASE TakeCallMove(r)
    BY <2>1 DEF TakeCallMove, Domains
  <2>2. CASE CallEndsMove(r)
    <3>1. phase[Direct(r)] # "idle"
      BY <2>2 DEF CallEndsMove, RecordMove, RecordPreDispatchError, RecordExecution, RecordExecutionError
    <3>2. pc[r] = "calls" /\ phase'[Direct(r)] = "idle"
      BY <1>0, <2>2, <3>1, FreeIsOneSlot DEF CallEndsMove, Shape, Places
    <3> QED BY <2>2, <3>2 DEF CallEndsMove, Domains
  <2> QED BY <2>1, <2>2
<1>3. Fresh(r)'
  BY <1>0, <1>1, <1>2, OneDirect DEF Shape, Places, Fresh, SameSlot, planVars
<1>4. Asks(r)'
  BY <1>2 DEF Shape, Asks, planVars
<1>5. pc'[r] \notin Planning
  BY <1>2 DEF Planning
<1> QED BY <1>2, <1>3, <1>4, <1>5, FreshIsShaped DEF Shape

LEMMA GoneKeepsShape ==
  ASSUME Domains, Domains', NEW r \in Runs, Shape(r), GoneMove(r)
  PROVE  Shape(r)'
<1>1. PlanGone(r)
  BY DEF GoneMove, QuietlyGone, FailsGone, SucceedsMove
<1>2. pc'[r] \in {"ask", "done"} /\ (pc'[r] = "ask" => ask'[r] \in {"reactive", "synthesis", "recovery"})
      /\ (pc'[r] = "ask" /\ ask'[r] = "recovery" => attempt[r] = 1) /\ UNCHANGED attempt
  BY <1>1 DEF PlanGone, Domains, DropPlan, MayRecover
<1>3. \A o \in Slots : RunOf[o] = r => phase'[o] = "idle"
  BY <1>1, DropFreesSlots DEF PlanGone
<1>4. phase'[Direct(r)] = "idle" /\ \A i \in Nodes : phase'[Node(r, i)] = "idle"
  BY <1>3, NodeSlots
<1>5. Fresh(r)'
  BY <1>1, <1>4 DEF PlanGone, DropPlan, Fresh, Domains
<1>6. Asks(r)'
  BY <1>2 DEF Shape, Asks
<1>7. pc'[r] \notin Planning
  BY <1>2 DEF Planning
<1> QED BY <1>4, <1>5, <1>6, <1>7, FreshIsShaped DEF Shape

LEMMA PlansKeepShape ==
  ASSUME Domains, Domains', NEW r \in Runs, Shape(r), NEW p \in Plans, PlannerPlans(r, p)
  PROVE  Shape(r)'
<1>1. /\ pc[r] = "model" /\ ask[r] \in Optional /\ StaticallyValid(p)
      /\ pc'[r] = "preflight" /\ plan'[r] = p /\ attempt'[r] = attempt[r] + 1 /\ todo'[r] = p.nodes
      /\ UNCHANGED <<phase, call, done, exec, gateOpen, resolved, failure>>
  BY DEF PlannerPlans, Goto, OutOfBroker, slotVars, Domains
<1>2. Fresh(r) /\ phase[Direct(r)] = "idle" /\ p.nodes \subseteq Nodes
  BY <1>1, PlanParts DEF Shape, Places, Planning
<1>3. Places(r)'
  BY <1>1, <1>2 DEF Places, Fresh, Dispatched, ExecPhases, Planning
<1>4. Loops(r)' /\ Waves(r)'
  BY <1>1, <1>2 DEF Loops, Waves, Fresh
<1>5. Known(r)'
  BY <1>1, <1>2 DEF Known, Fresh
<1>6. Asks(r)'
  BY <1>1 DEF Shape, Asks, Optional
<1> QED BY <1>3, <1>4, <1>5, <1>6 DEF Shape

\* The bound nodes left when nothing can be read any more: their bindings are
\* there, and they change state, since they wait for reads only.
LEMMA GateIsReady ==
  ASSUME Domains, NEW r \in Runs, Shape(r), pc[r] = "schedule", ReadReady(r) = {},
         NEW i \in Bound(plan[r]) \ done[r]
  PROVE  plan[r].deps[i] \subseteq done[r] /\ NodeMutates(plan[r], i)
<1> DEFINE p == plan[r]
           A == Ancestors(p, i)
           U == A \ done[r]
<1>0. /\ p \in Plans /\ ValidGraph(p) /\ i \in p.nodes /\ StaticallyValid(p)
      /\ \A j \in Nodes : phase[Node(r, j)] \in Quiet
      /\ \A j \in p.nodes \ done[r] : phase[Node(r, j)] # "idle"
      /\ \A j \in Nodes : phase[Node(r, j)] = "reused" => NodeMutates(p, j)
  BY DEF Shape, Places, Loops, Known, Domains, StaticallyValid, Planning, Bound
<1>1. \A j \in A : ~NodeMutates(p, j)
  BY <1>0 DEF StaticallyValid
<1>2. p.nodes \subseteq Nodes /\ A \subseteq p.nodes /\ p.deps[i] \subseteq A
      /\ \A k \in A : p.deps[k] \subseteq A
  BY <1>0, PlanParts, AncestorsClosed
<1>3. ASSUME NEW j \in p.nodes \ done[r], p.deps[j] \subseteq done[r], ~NodeMutates(p, j) PROVE FALSE
  <2>1. phase[Node(r, j)] = "ready"
    BY <1>0, <1>2, <1>3 DEF Quiet
  <2>2. j \in ReadReady(r)
    BY <1>3, <2>1 DEF ReadReady, Ready
  <2> QED BY <2>2
<1> HIDE DEF A
<1>4. U = {}
  <2> SUFFICES ASSUME U # {} PROVE FALSE
    OBVIOUS
  <2>1. U \in SUBSET p.nodes
    BY <1>2
  <2>2. PICK j \in U : p.deps[j] \cap U = {}
    BY <1>0, <2>1, SomeNodeIsFirst
  <2>3. p.deps[j] \subseteq A
    BY <1>2
  <2>4. p.deps[j] \subseteq done[r] /\ ~NodeMutates(p, j) /\ j \in p.nodes \ done[r]
    BY <1>1, <1>2, <2>2, <2>3
  <2> QED BY <1>3, <2>4
<1>5. p.deps[i] \subseteq done[r]
  BY <1>2, <1>4
<1>6. NodeMutates(p, i)
  BY <1>0, <1>3, <1>5
<1> QED BY <1>5, <1>6

LEMMA ScheduleKeepsShape ==
  ASSUME Domains, Domains', NEW r \in Runs, Shape(r), ScheduleMove(r)
  PROVE  Shape(r)'
<1>0. /\ pc[r] = "schedule" /\ exec[r] = {} /\ failure[r] = "none"
      /\ UNCHANGED <<phase, call, plan, attempt, done, exec, gateOpen, resolved, failure>>
      /\ plan[r].nodes \subseteq Nodes
      /\ \A i \in Nodes : phase[Node(r, i)] \in Quiet
      /\ \A i \in plan[r].nodes \ done[r] : phase[Node(r, i)] # "idle"
      /\ phase[Direct(r)] = "idle"
  BY PlanParts DEF ScheduleMove, Shape, Places, Loops, slotVars, Planning, Domains
<1>1. CASE pc'[r] = "gate"
  <2>1. ~gateOpen[r] /\ todo'[r] = GateMembers(r) /\ ReadReady(r) = {}
    BY <1>1 DEF ScheduleMove, Domains
  <2>2. \A i \in todo'[r] : i \in plan[r].nodes \ done[r] /\ phase[Node(r, i)] = "ready"
    BY <2>1 DEF GateMembers
  <2>3. \A i \in Bound(plan[r]) \ done[r] : plan[r].deps[i] \subseteq done[r] /\ NodeMutates(plan[r], i)
    BY <1>0, <2>1, GateIsReady
  <2>4. \A i \in plan[r].nodes \ done[r] : i \in todo'[r] \cup resolved[r]
    <3> SUFFICES ASSUME NEW i \in plan[r].nodes \ done[r], i \notin resolved[r] PROVE i \in todo'[r]
      OBVIOUS
    <3>1. i \in Bound(plan[r])
      BY <1>0 DEF Shape, Known, Planning
    <3>2. phase[Node(r, i)] = "ready"
      BY <1>0 DEF Quiet, Shape, Known
    <3> QED BY <2>1, <2>3, <3>1, <3>2 DEF GateMembers
  <2>5. Places(r)'
    BY <1>0, <1>1, <2>2 DEF Shape, Places, Planning, Dispatched, ExecPhases
  <2>6. Loops(r)'
    BY <1>0, <1>1, <2>1, <2>2, <2>3, <2>4 DEF Loops
  <2>7. Known(r)' /\ Waves(r)' /\ Asks(r)'
    BY <1>0, <1>1 DEF Shape, Known, Waves, Asks, Planning
  <2> QED BY <2>5, <2>6, <2>7 DEF Shape
<1>2. CASE pc'[r] # "gate"
  <2>1. pc'[r] = "wave" /\ WaveOf(r, todo'[r])
    BY <1>2 DEF ScheduleMove, Domains
  <2>2. /\ \A i \in todo'[r] : /\ i \in plan[r].nodes \ done[r] /\ plan[r].deps[i] \subseteq done[r]
                               /\ NodeMutates(plan[r], i) => gateOpen[r]
        /\ \A i \in todo'[r] : NodeMutates(plan[r], i) /\ phase[Node(r, i)] # "reused" => todo'[r] = {i}
        /\ \A i, j \in todo'[r] : i # j /\ phase[Node(r, i)] # "reused" /\ phase[Node(r, j)] # "reused" =>
             NodeKey(plan[r], i) = NoKey \/ NodeKey(plan[r], i) # NodeKey(plan[r], j)
    BY <2>1 DEF WaveOf, Ready, ReadReady
  <2>3. Places(r)'
    BY <1>0, <2>1, <2>2 DEF Shape, Places, Planning, Dispatched, ExecPhases
  <2>4. Loops(r)'
    BY <1>0, <2>1 DEF Loops
  <2>5. Known(r)' /\ Asks(r)'
    BY <1>0, <2>1 DEF Shape, Known, Asks, Planning
  <2>6. Waves(r)'
    BY <1>0, <2>1, <2>2 DEF Waves
  <2> QED BY <2>3, <2>4, <2>5, <2>6 DEF Shape
<1> QED BY <1>1, <1>2

LEMMA AdvanceKeepsShape ==
  ASSUME Domains, Domains', NEW r \in Runs, Shape(r), AdvanceMove(r)
  PROVE  Shape(r)'
<1>0. /\ pc[r] \in {"preflight", "gate", "execute"} /\ pc'[r] = "schedule"
      /\ exec[r] = {} /\ todo[r] = {} /\ failure[r] = "none"
      /\ UNCHANGED <<phase, call, plan, attempt, done, todo, exec, resolved, failure>>
      /\ phase[Direct(r)] = "idle" /\ plan[r].nodes \subseteq Nodes
  BY PlanParts DEF AdvanceMove, Shape, Places, Loops, slotVars, Domains
<1>1. \A i \in Nodes : phase[Node(r, i)] \in Quiet
  <2>1. CASE Passed(r)
    BY <2>1 DEF Passed, Quiet
  <2>2. CASE pc[r] = "execute"
    BY <1>0, <2>2 DEF Shape, Places
  <2> QED BY <2>1, <2>2 DEF AdvanceMove
<1>2. \A i \in plan[r].nodes \ done[r] : phase[Node(r, i)] # "idle"
  BY <1>0 DEF Shape, Loops, Planning
<1>3. Places(r)'
  BY <1>0, <1>1 DEF Shape, Places, Planning, Dispatched, ExecPhases, Quiet
<1>4. Loops(r)'
  BY <1>0, <1>1, <1>2 DEF Loops
<1>5. gateOpen'[r] =>
        \A i \in plan[r].nodes \ done[r] : i \in resolved[r] /\ phase[Node(r, i)] \notin PrepPhases
  <2>1. CASE pc[r] = "gate"
    <3>1. plan[r].nodes \ done[r] \subseteq resolved[r]
      BY <1>0, <2>1 DEF Shape, Loops
    <3> QED BY <1>0, <1>1, <3>1 DEF Quiet, PrepPhases
  <2>2. CASE pc[r] # "gate"
    BY <2>2 DEF AdvanceMove, Shape, Known
  <2> QED BY <2>1, <2>2
<1>6. Known(r)'
  BY <1>0, <1>5 DEF Shape, Known, Planning
<1>7. Waves(r)' /\ Asks(r)'
  BY <1>0 DEF Shape, Waves, Asks
<1> QED BY <1>3, <1>4, <1>6, <1>7 DEF Shape

LEMMA DispatchKeepsShape ==
  ASSUME Domains, Domains', NEW r \in Runs, Shape(r), DispatchMove(r)
  PROVE  Shape(r)'
<1>0. /\ pc[r] = "wave" /\ pc'[r] = "execute" /\ todo[r] = {} /\ exec'[r] \subseteq exec[r]
      /\ failure[r] = "none" /\ phase[Direct(r)] = "idle"
      /\ UNCHANGED <<phase, call, plan, attempt, done, todo, resolved, failure, gateOpen>>
      /\ \A i \in Nodes : phase[Node(r, i)] \in Quiet
  BY DEF DispatchMove, Shape, Places, Loops, slotVars, Domains, Passed, Quiet
<1>1. Places(r)'
  BY <1>0 DEF Shape, Places, Planning, Dispatched, ExecPhases, Quiet
<1>2. Loops(r)'
  BY <1>0 DEF Shape, Loops, Planning
<1>3. Known(r)'
  BY <1>0 DEF Shape, Known, Planning
<1>4. Waves(r)'
  BY <1>0 DEF Shape, Waves
<1>5. Asks(r)'
  BY <1>0 DEF Shape, Asks
<1> QED BY <1>1, <1>2, <1>3, <1>4, <1>5 DEF Shape

\* A call at the broker stays in its place.
LEMMA BrokerKeepsShape ==
  ASSUME Domains, Domains', NEW r \in Runs, Shape(r), NEW o \in Slots, BrokerMove(r, o)
  PROVE  Shape(r)'
<1>0. /\ UNCHANGED <<pc, ask, plan, attempt, done, todo, exec, resolved, failure, gateOpen, call>>
      /\ OneSlot(o) /\ SlotMove(o) /\ RunOf[o] = r
  BY SlotIsOneSlot DEF BrokerMove, askVars, planVars
<1>1. /\ phase[o] \notin {"idle", "reused"} /\ phase'[o] \notin {"idle", "reused"}
      /\ phase'[o] \in Dispatched <=> phase[o] \in Dispatched \cup {"ready"}
      /\ phase'[o] \in PrepPhases => phase[o] \in PrepPhases
      /\ phase[o] \in {"ready"} \cup PrepPhases \cup Dispatched
  BY <1>0 DEF SlotMove, SlotAuthorizes, SlotDenied, SlotDispatches, SlotGivesUp, SlotWaits, SlotBegins,
     SlotGraces, SlotSucceeds, SlotFails, Dispatched, PrepPhases, ExecPhases, AtTool
<1>2. Asks(r)'
  BY <1>0 DEF Shape, Asks
<1>3. CASE o = Direct(r)
  <2>1. \A i \in Nodes : phase'[Node(r, i)] = phase[Node(r, i)]
    BY <1>0, <1>3, OneDirect DEF SameSlot
  <2>2. phase[Direct(r)] # "idle"
    BY <1>1, <1>3
  <2>3. /\ UNCHANGED <<pc, plan, done, todo, exec, resolved, failure, gateOpen, call>>
        /\ plan[r].nodes \subseteq Nodes /\ done[r] \subseteq Nodes /\ todo[r] \subseteq Nodes
        /\ exec[r] \subseteq Nodes /\ resolved[r] \subseteq Nodes
    BY <1>0, PlanParts DEF Domains
  <2>4. Places(r)'
    BY <2>1, <2>2, <2>3 DEF Shape, Places, Fresh
  <2>5. Loops(r)'
    BY <2>1, <2>3 DEF Shape, Loops
  <2>6. Known(r)'
    BY <2>1, <2>3 DEF Shape, Known
  <2>7. Waves(r)'
    BY <2>1, <2>3 DEF Shape, Waves
  <2> QED BY <1>2, <2>4, <2>5, <2>6, <2>7 DEF Shape
<1>4. ASSUME NEW i \in Nodes, o = Node(r, i) PROVE Shape(r)'
  <2>1. phase'[Direct(r)] = phase[Direct(r)] /\ \A j \in Nodes \ {i} : phase'[Node(r, j)] = phase[Node(r, j)]
    BY <1>0, <1>4, OneNode DEF SameSlot
  <2>2. phase[o] \in {"ready"} \cup Dispatched => pc[r] = "execute" /\ i \in exec[r]
    <3>1. phase[o] = "ready" => pc[r] = "execute" /\ i \in exec[r]
      BY <1>4, NodeSlots DEF BrokerMove, Domains
    <3> QED BY <1>4, <3>1 DEF Shape, Places
  <2>3. pc[r] \in Planning /\ i \in plan[r].nodes
    BY <1>1, <1>4 DEF Shape, Places, Fresh
  <2>4. UNCHANGED <<pc, plan, done, todo, exec, resolved, failure, gateOpen, call>>
    BY <1>0
  <2>5. /\ phase[Node(r, i)] \notin {"idle", "reused"} /\ phase'[Node(r, i)] \notin {"idle", "reused"}
        /\ phase'[Node(r, i)] \in Dispatched => pc[r] = "execute" /\ i \in exec[r]
        /\ phase'[Node(r, i)] \in PrepPhases => phase[Node(r, i)] \in PrepPhases
        /\ pc[r] = "execute" => phase'[Node(r, i)] \in Dispatched
        /\ phase[Node(r, i)] = "ready" => pc[r] = "execute"
        /\ phase[Node(r, i)] \notin Quiet \/ pc[r] = "execute"
    <3>1. pc[r] = "execute" => phase[o] \in Quiet \cup Dispatched
      BY <1>4 DEF Shape, Places
    <3> QED BY <1>1, <1>4, <2>2, <3>1 DEF Quiet
  <2>6. Places(r)'
    <3>1. \A j \in Nodes : phase'[Node(r, j)] \in Dispatched => pc[r] = "execute" /\ j \in exec[r]
      BY <2>1, <2>5 DEF Shape, Places
    <3>2. \A j \in Nodes \ plan[r].nodes : phase'[Node(r, j)] = phase[Node(r, j)]
      BY <2>1, <2>3
    <3>3. pc[r] = "execute" => \A j \in Nodes : phase'[Node(r, j)] \in Quiet \cup Dispatched
      BY <2>1, <2>5 DEF Shape, Places
    <3>4. \A j \in exec[r] : phase'[Node(r, j)] \notin {"idle", "reused"}
      BY <2>1, <2>5 DEF Shape, Places, Domains
    <3> QED BY <2>1, <2>3, <2>4, <3>1, <3>2, <3>3, <3>4 DEF Shape, Places
  <2>7. Loops(r)'
    <3>1. \A j \in Nodes : (phase'[Node(r, j)] = "idle" <=> phase[Node(r, j)] = "idle")
      BY <2>1, <2>5
    <3>2. pc[r] = "gate" => \A j \in todo[r] : phase'[Node(r, j)] = "ready"
      BY <2>1, <2>5 DEF Shape, Loops, Domains
    <3>3. pc[r] # "schedule"
      BY <2>5 DEF Shape, Loops
    <3>4. plan[r].nodes \subseteq Nodes /\ todo[r] \subseteq Nodes
      BY PlanParts DEF Domains
    <3> QED BY <2>4, <3>1, <3>2, <3>3, <3>4 DEF Shape, Loops
  <2>8. Known(r)'
    <3>1. \A j \in Nodes : /\ phase'[Node(r, j)] = "idle" <=> phase[Node(r, j)] = "idle"
                           /\ phase'[Node(r, j)] = "reused" <=> phase[Node(r, j)] = "reused"
                           /\ phase'[Node(r, j)] \in PrepPhases => phase[Node(r, j)] \in PrepPhases
      BY <2>1, <2>5
    <3>2. plan[r].nodes \subseteq Nodes /\ done[r] \subseteq Nodes /\ resolved[r] \subseteq Nodes
      BY PlanParts DEF Domains
    <3> QED BY <2>4, <3>1, <3>2 DEF Shape, Known
  <2>9. Waves(r)'
    <3>1. \A j \in Nodes : phase'[Node(r, j)] = "reused" <=> phase[Node(r, j)] = "reused"
      BY <2>1, <2>5
    <3>2. exec[r] \cup todo[r] \subseteq Nodes
      BY DEF Domains
    <3> QED BY <2>4, <3>1, <3>2 DEF Shape, Waves
  <2> QED BY <1>2, <2>6, <2>7, <2>8, <2>9 DEF Shape
<1>5. o = Direct(r) \/ \E i \in Nodes : o = Node(r, i)
  BY <1>0, NodeSlots
<1> QED BY <1>3, <1>4, <1>5

LEMMA SameKeepsShape ==
  ASSUME NEW r \in Runs, Shape(r),
         UNCHANGED <<pc, ask, phase, call, plan, attempt, done, todo, exec, resolved, failure, gateOpen>>
  PROVE  Shape(r)'
BY DEF Shape, Places, Fresh, Loops, Known, Waves, Asks

\* What the moves of one node have in common.
LEMMA NodeMoveFrame ==
  ASSUME Domains, NEW r \in Runs, Shape(r), NEW i \in Nodes, NodeMove(r, i)
  PROVE  /\ UNCHANGED <<pc, ask, plan, attempt, gateOpen, dropped>>
         /\ pc[r] \in Planning /\ i \in plan[r].nodes /\ i \notin done[r] /\ phase[Direct(r)] = "idle"
         /\ phase'[Direct(r)] = "idle"
         /\ \A j \in Nodes \ {i} : /\ phase'[Node(r, j)] = phase[Node(r, j)]
                                   /\ call'[Node(r, j)] = call[Node(r, j)]
         /\ plan[r].nodes \subseteq Nodes /\ done[r] \subseteq Nodes /\ todo[r] \subseteq Nodes
         /\ exec[r] \subseteq Nodes /\ resolved[r] \subseteq Nodes
<1>1. UNCHANGED <<pc, ask, plan, attempt, gateOpen, dropped>>
  BY DEF NodeMove, PreflightMove, GateMove, WaveMove, ReuseMove, RecordNodeMove, askVars
<1>2. pc[r] \in {"preflight", "gate", "wave", "execute"} /\ i \in todo[r] \cup exec[r]
  BY DEF NodeMove, PreflightMove, GateMove, WaveMove, ReuseMove, RecordNodeMove
<1>3. pc[r] \in Planning /\ i \in plan[r].nodes /\ i \notin done[r] /\ phase[Direct(r)] = "idle"
  BY <1>2 DEF Shape, Places, Planning
<1>4. SameSlot(Direct(r)) /\ \A j \in Nodes \ {i} : SameSlot(Node(r, j))
  BY NodeMoveSlot, OneNode
<1>5. /\ plan[r].nodes \subseteq Nodes /\ done[r] \subseteq Nodes /\ todo[r] \subseteq Nodes
      /\ exec[r] \subseteq Nodes /\ resolved[r] \subseteq Nodes
  BY PlanParts DEF Domains
<1> QED BY <1>1, <1>3, <1>4, <1>5 DEF SameSlot

LEMMA PreflightKeepsShape ==
  ASSUME Domains, Domains', NEW r \in Runs, Shape(r), NEW i \in Nodes, PreflightMove(r, i)
  PROVE  Shape(r)'
<1> DEFINE o == Node(r, i)
<1>0. NodeMove(r, i)
  BY DEF NodeMove
<1>1. /\ UNCHANGED <<pc, ask, plan, attempt, gateOpen>>
      /\ i \in plan[r].nodes /\ i \notin done[r] /\ phase[Direct(r)] = "idle" /\ phase'[Direct(r)] = "idle"
      /\ \A j \in Nodes \ {i} : phase'[Node(r, j)] = phase[Node(r, j)] /\ call'[Node(r, j)] = call[Node(r, j)]
      /\ plan[r].nodes \subseteq Nodes /\ done[r] \subseteq Nodes /\ todo[r] \subseteq Nodes
      /\ exec[r] \subseteq Nodes /\ resolved[r] \subseteq Nodes
  BY <1>0, NodeMoveFrame
<1>2. /\ pc[r] = "preflight" /\ i \in todo[r] /\ todo'[r] = todo[r] \ {i}
      /\ UNCHANGED <<done, exec, failure>> /\ done[r] = {} /\ exec[r] = {}
      /\ ~gateOpen[r] /\ resolved[r] \cap todo[r] = {} /\ failure[r] = "none"
  BY DEF PreflightMove, Domains, Shape, Places, Loops
<1>3. \/ i \in Bound(plan[r]) /\ resolved'[r] = resolved[r]
      \/ resolved'[r] = resolved[r] \cup {i} /\ call'[o] \in plan[r].sigs[i]
  BY ZenonT(30) DEF PreflightMove, PrepareMove, Domains
<1>4. /\ phase'[o] \in PrepPhases \cup {"prepErr", "limit", "rejected", "reused", "ready"}
      /\ phase'[o] = "reused" => i \in resolved'[r] /\ NodeMutates(plan[r], i)
  <2>1. CASE DeferMove(o) /\ i \in Bound(plan[r])
    <3>1. o \in Slots
      BY NodeSlots
    <3>2. phase'[o] \in {"prepErr", "limit", "rejected", "ready"}
      BY <2>1, <3>1 DEF DeferMove, Domains, BrokerTypeOK
    <3> QED BY <3>2
  <2>2. CASE i \notin Bound(plan[r])
    <3>1. PICK s \in plan[r].sigs[i] : PrepareMove(o, s)
      BY <2>2 DEF PreflightMove
    <3>2. phase'[o] \in PrepPhases \cup {"prepErr", "limit", "rejected", "reused"}
      BY <3>1 DEF PrepareMove, AdmittedCall, PrepareRefused, PrepareUnknown, PrepareResolved, PrepPhases
    <3>3. phase'[o] = "reused" => NodeMutates(plan[r], i)
      BY <3>1 DEF PrepareMove, KnownEffect, NodeMutates
    <3> QED BY <1>3, <2>2, <3>2, <3>3
  <2> QED BY <2>1, <2>2 DEF PreflightMove
<1> HIDE DEF o
<1>5. Places(r)'
  <2>1. /\ todo'[r] \subseteq plan[r].nodes /\ resolved'[r] \subseteq plan[r].nodes
        /\ StaticallyValid(plan[r])
    BY <1>1, <1>2, <1>3 DEF Shape, Places, Planning
  <2>2. \A j \in Nodes : phase'[Node(r, j)] \notin Dispatched
    BY <1>1, <1>2, <1>4 DEF Shape, Places, Dispatched, ExecPhases, PrepPhases, o
  <2>3. \A j \in Nodes \ plan[r].nodes : phase'[Node(r, j)] = "idle"
    BY <1>1, <1>2 DEF Shape, Places, Planning
  <2> QED BY <1>1, <1>2, <2>1, <2>2, <2>3 DEF Places, Planning
<1>6. Loops(r)'
  <2>1. \A j \in todo'[r] : phase'[Node(r, j)] = "idle"
    BY <1>1, <1>2 DEF Shape, Loops
  <2>2. \A j \in plan[r].nodes \ todo'[r] : phase'[Node(r, j)] # "idle"
    <3>1. \A j \in plan[r].nodes \ todo[r] : phase[Node(r, j)] # "idle"
      BY <1>2 DEF Shape, Loops
    <3>2. phase'[Node(r, i)] # "idle"
      BY <1>4 DEF o, PrepPhases
    <3> QED BY <1>1, <1>2, <3>1, <3>2
  <2>3. resolved'[r] \cap todo'[r] = {}
    BY <1>2, <1>3
  <2> QED BY <1>1, <1>2, <2>1, <2>2, <2>3 DEF Loops, Planning
<1>7. Known(r)'
  <2>1. \A j \in Nodes : phase'[Node(r, j)] = "reused" => j \in resolved'[r] /\ NodeMutates(plan[r], j)
    BY <1>1, <1>3, <1>4 DEF Shape, Known, o
  <2>2. \A j \in plan[r].nodes \ Bound(plan[r]) : j \in resolved'[r] \/ j \in todo'[r]
    BY <1>1, <1>2, <1>3 DEF Shape, Known, Planning
  <2>3. \A j \in resolved'[r] : phase'[Node(r, j)] # "idle" => call'[Node(r, j)] \in plan[r].sigs[j]
    <3>1. i \notin resolved[r]
      BY <1>2
    <3> QED BY <1>1, <1>3, <3>1 DEF Shape, Known, o
  <2> QED BY <1>1, <1>2, <2>1, <2>2, <2>3 DEF Known
<1>8. Waves(r)' /\ Asks(r)'
  BY <1>1, <1>2 DEF Shape, Waves, Asks
<1> QED BY <1>5, <1>6, <1>7, <1>8 DEF Shape

\* Revalidating a node of the gate or of the wave.
LEMMA RevalidatedNode ==
  ASSUME Domains, NEW r \in Runs, Shape(r), NEW i \in Nodes, i \in plan[r].nodes, pc[r] \in {"gate", "wave"},
         phase[Node(r, i)] = "ready", \E s \in BoundTo(r, i) : Revalidate(r, i, s)
  PROVE  /\ phase'[Node(r, i)] \in {"ready", "policy", "prepErr", "limit", "reused"}
         /\ phase'[Node(r, i)] = "policy" => i \notin resolved[r]
         /\ phase'[Node(r, i)] = "reused" => NodeMutates(plan[r], i)
         /\ call'[Node(r, i)] \in plan[r].sigs[i]
         /\ resolved'[r] = resolved[r] \cup {i}
<1>1. PICK s \in BoundTo(r, i) : Revalidate(r, i, s)
  OBVIOUS
<1>2. s \in Sigs /\ s \in plan[r].sigs[i]
  BY BoundToSigs DEF BoundTo, Shape, Known
<1>3. Revalidated(r, i, s)
  BY <1>1, <1>2, RevalidateMoves
<1>4. resolved'[r] = resolved[r] \cup {i}
  BY <1>3 DEF Revalidated, Domains
<1>5. phase'[Node(r, i)] = "reused" => NodeMutates(plan[r], i)
  BY <1>2, <1>3 DEF Revalidated, KnownEffect, NodeMutates
<1> QED BY <1>2, <1>3, <1>4, <1>5 DEF Revalidated

LEMMA GateKeepsShape ==
  ASSUME Domains, Domains', NEW r \in Runs, Shape(r), NEW i \in Nodes, GateMove(r, i)
  PROVE  Shape(r)'
<1>0. NodeMove(r, i)
  BY DEF NodeMove
<1>1. /\ UNCHANGED <<pc, ask, plan, attempt, gateOpen>>
      /\ i \in plan[r].nodes /\ i \notin done[r] /\ phase[Direct(r)] = "idle" /\ phase'[Direct(r)] = "idle"
      /\ \A j \in Nodes \ {i} : phase'[Node(r, j)] = phase[Node(r, j)] /\ call'[Node(r, j)] = call[Node(r, j)]
      /\ plan[r].nodes \subseteq Nodes /\ done[r] \subseteq Nodes /\ todo[r] \subseteq Nodes
      /\ exec[r] \subseteq Nodes /\ resolved[r] \subseteq Nodes
  BY <1>0, NodeMoveFrame
<1>2. /\ pc[r] = "gate" /\ i \in todo[r] /\ todo'[r] = todo[r] \ {i}
      /\ UNCHANGED <<done, exec, failure>> /\ exec[r] = {} /\ ~gateOpen[r] /\ failure[r] = "none"
      /\ phase[Node(r, i)] = "ready"
  BY DEF GateMove, Domains, Shape, Places, Loops
<1>3. /\ phase'[Node(r, i)] \in {"ready", "policy", "prepErr", "limit", "reused"}
      /\ phase'[Node(r, i)] = "reused" => NodeMutates(plan[r], i)
      /\ call'[Node(r, i)] \in plan[r].sigs[i]
      /\ resolved'[r] = resolved[r] \cup {i}
  BY <1>1, <1>2, RevalidatedNode DEF GateMove
<1>4. Places(r)'
  <2>1. todo'[r] \subseteq plan[r].nodes /\ resolved'[r] \subseteq plan[r].nodes /\ StaticallyValid(plan[r])
        /\ done[r] \subseteq plan[r].nodes /\ todo[r] \cap done[r] = {}
    BY <1>1, <1>2, <1>3 DEF Shape, Places, Planning
  <2>2. \A j \in Nodes : phase'[Node(r, j)] \notin Dispatched
    BY <1>1, <1>2, <1>3 DEF Shape, Places, Dispatched, ExecPhases
  <2>3. \A j \in Nodes \ plan[r].nodes : phase'[Node(r, j)] = "idle"
    BY <1>1, <1>2 DEF Shape, Places, Planning
  <2> QED BY <1>1, <1>2, <2>1, <2>2, <2>3 DEF Places, Planning
<1>5. Loops(r)'
  <2>1. \A j \in Nodes : (phase'[Node(r, j)] = "idle" <=> phase[Node(r, j)] = "idle")
    BY <1>1, <1>2, <1>3
  <2>2. \A j \in todo'[r] : phase'[Node(r, j)] = "ready"
    BY <1>1, <1>2 DEF Shape, Loops
  <2>3. /\ \A j \in todo'[r] \cap Bound(plan[r]) : plan[r].deps[j] \subseteq done[r]
        /\ plan[r].nodes \ done[r] \subseteq todo'[r] \cup resolved'[r]
    BY <1>2, <1>3 DEF Shape, Loops
  <2> QED BY <1>1, <1>2, <2>1, <2>2, <2>3 DEF Shape, Loops
<1>6. Known(r)'
  <2>1. \A j \in Nodes : phase'[Node(r, j)] = "reused" => j \in resolved'[r] /\ NodeMutates(plan[r], j)
    BY <1>1, <1>3 DEF Shape, Known
  <2>2. \A j \in plan[r].nodes \ Bound(plan[r]) : j \in resolved'[r]
    BY <1>1, <1>2, <1>3 DEF Shape, Known, Planning
  <2>3. \A j \in resolved'[r] : phase'[Node(r, j)] # "idle" => call'[Node(r, j)] \in plan[r].sigs[j]
    BY <1>1, <1>3 DEF Shape, Known
  <2>4. \A j \in done[r] : phase'[Node(r, j)] = "idle" /\ plan[r].deps[j] \subseteq done[r]
    BY <1>1 DEF Shape, Known
  <2> QED BY <1>1, <1>2, <2>1, <2>2, <2>3, <2>4 DEF Known
<1>7. Waves(r)' /\ Asks(r)'
  BY <1>1, <1>2 DEF Shape, Waves, Asks
<1> QED BY <1>4, <1>5, <1>6, <1>7 DEF Shape

LEMMA WaveKeepsShape ==
  ASSUME Domains, Domains', NEW r \in Runs, Shape(r), NEW i \in Nodes, WaveMove(r, i)
  PROVE  Shape(r)'
<1>0. NodeMove(r, i)
  BY DEF NodeMove
<1>1. /\ UNCHANGED <<pc, ask, plan, attempt, gateOpen>>
      /\ i \in plan[r].nodes /\ i \notin done[r] /\ phase[Direct(r)] = "idle" /\ phase'[Direct(r)] = "idle"
      /\ \A j \in Nodes \ {i} : phase'[Node(r, j)] = phase[Node(r, j)] /\ call'[Node(r, j)] = call[Node(r, j)]
      /\ plan[r].nodes \subseteq Nodes /\ done[r] \subseteq Nodes /\ todo[r] \subseteq Nodes
      /\ exec[r] \subseteq Nodes /\ resolved[r] \subseteq Nodes
  BY <1>0, NodeMoveFrame
<1>2. /\ pc[r] = "wave" /\ i \in todo[r] /\ phase[Node(r, i)] = "ready"
      /\ UNCHANGED <<done, failure>> /\ failure[r] = "none"
      /\ \/ phase'[Node(r, i)] = "reused" /\ todo'[r] = todo[r] /\ exec'[r] = exec[r]
         \/ /\ phase'[Node(r, i)] # "reused"
            /\ todo'[r] = todo[r] \ {i} /\ exec'[r] = exec[r] \cup {i}
  BY DEF WaveMove, Domains, Shape, Loops
<1>3. /\ phase'[Node(r, i)] \in {"ready", "policy", "prepErr", "limit", "reused"}
      /\ phase'[Node(r, i)] = "policy" => i \notin resolved[r]
      /\ phase'[Node(r, i)] = "reused" => NodeMutates(plan[r], i)
      /\ call'[Node(r, i)] \in plan[r].sigs[i]
      /\ resolved'[r] = resolved[r] \cup {i}
  BY <1>1, <1>2, RevalidatedNode DEF WaveMove
<1>4. Places(r)'
  <2>1. /\ StaticallyValid(plan[r]) /\ done[r] \subseteq plan[r].nodes /\ todo'[r] \subseteq plan[r].nodes
        /\ resolved'[r] \subseteq plan[r].nodes /\ exec'[r] \subseteq plan[r].nodes
        /\ (exec'[r] \cup todo'[r]) \cap done[r] = {}
        /\ exec'[r] \cap todo'[r] = {} /\ exec'[r] \subseteq resolved'[r]
    BY <1>1, <1>2, <1>3 DEF Shape, Places, Planning
  <2>2. \A j \in Nodes : phase'[Node(r, j)] \notin Dispatched
    BY <1>1, <1>2, <1>3 DEF Shape, Places, Dispatched, ExecPhases
  <2>3. \A j \in Nodes \ plan[r].nodes : phase'[Node(r, j)] = "idle"
    BY <1>1, <1>2 DEF Shape, Places, Planning
  <2>4. \A j \in exec'[r] : phase'[Node(r, j)] \notin {"idle", "reused"}
    <3>1. i \notin exec[r]
      BY <1>2 DEF Shape, Places
    <3> QED BY <1>1, <1>2, <1>3, <3>1 DEF Shape, Places
  <2> QED BY <1>1, <1>2, <2>1, <2>2, <2>3, <2>4 DEF Places, Planning
<1>5. Loops(r)'
  <2>1. \A j \in Nodes : (phase'[Node(r, j)] = "idle" <=> phase[Node(r, j)] = "idle")
    BY <1>1, <1>2, <1>3
  <2> QED BY <1>1, <1>2, <2>1 DEF Shape, Loops
<1>6. Known(r)'
  <2>1. \A j \in Nodes : phase'[Node(r, j)] = "reused" => j \in resolved'[r] /\ NodeMutates(plan[r], j)
    BY <1>1, <1>3 DEF Shape, Known
  <2>2. \A j \in plan[r].nodes \ Bound(plan[r]) : j \in resolved'[r]
    BY <1>1, <1>2, <1>3 DEF Shape, Known, Planning
  <2>3. \A j \in resolved'[r] : phase'[Node(r, j)] # "idle" => call'[Node(r, j)] \in plan[r].sigs[j]
    BY <1>1, <1>3 DEF Shape, Known
  <2>4. \A j \in done[r] : phase'[Node(r, j)] = "idle" /\ plan[r].deps[j] \subseteq done[r]
    BY <1>1 DEF Shape, Known
  <2>5. gateOpen[r] =>
          \A j \in plan[r].nodes \ done[r] : j \in resolved'[r] /\ phase'[Node(r, j)] \notin PrepPhases
    BY <1>1, <1>3 DEF Shape, Known, PrepPhases
  <2> QED BY <1>1, <1>2, <2>1, <2>2, <2>3, <2>4, <2>5 DEF Known
<1>7. Waves(r)'
  <2>1. exec'[r] \cup todo'[r] = exec[r] \cup todo[r]
    BY <1>2
  <2>2. \A j \in Nodes : phase'[Node(r, j)] # "reused" => phase[Node(r, j)] # "reused"
    BY <1>1, <1>2
  <2> QED BY <1>1, <1>2, <2>1, <2>2 DEF Shape, Waves
<1>8. Asks(r)'
  BY <1>1, <1>2 DEF Shape, Asks
<1> QED BY <1>4, <1>5, <1>6, <1>7, <1>8 DEF Shape

\* A node leaves the wave: done, or its wave failed.
LEMMA LeavingWaveKeepsShape ==
  ASSUME Domains, Domains', NEW r \in Runs, Shape(r), NEW i \in Nodes, ReuseMove(r, i) \/ RecordNodeMove(r, i)
  PROVE  Shape(r)'
<1>0. NodeMove(r, i)
  BY DEF NodeMove
<1>1. /\ UNCHANGED <<pc, ask, plan, attempt, gateOpen>>
      /\ i \in plan[r].nodes /\ i \notin done[r] /\ phase[Direct(r)] = "idle" /\ phase'[Direct(r)] = "idle"
      /\ \A j \in Nodes \ {i} : phase'[Node(r, j)] = phase[Node(r, j)] /\ call'[Node(r, j)] = call[Node(r, j)]
      /\ plan[r].nodes \subseteq Nodes /\ done[r] \subseteq Nodes /\ todo[r] \subseteq Nodes
      /\ exec[r] \subseteq Nodes /\ resolved[r] \subseteq Nodes
  BY <1>0, NodeMoveFrame
<1>2. phase'[Node(r, i)] = "idle" /\ Node(r, i) \in Slots
  BY NodeSlots, FreeIsOneSlot DEF ReuseMove, RecordNodeMove
<1>3. /\ pc[r] \in {"wave", "execute"} /\ (pc[r] = "wave" => failure'[r] = failure[r])
      /\ i \in exec[r] \cup todo[r] /\ UNCHANGED resolved
      /\ exec'[r] \cup todo'[r] = (exec[r] \cup todo[r]) \ {i}
      /\ exec'[r] \subseteq exec[r] /\ todo'[r] \subseteq todo[r]
      /\ i \notin exec'[r]
      /\ \/ done'[r] = done[r] \cup {i} /\ failure'[r] = failure[r]
         \/ done'[r] = done[r] /\ failure'[r] # "none" /\ pc[r] = "execute"
  <2>1. CASE ReuseMove(r, i)
    BY <2>1 DEF ReuseMove, Domains, Shape, Places
  <2>2. CASE RecordNodeMove(r, i)
    BY <2>2 DEF RecordNodeMove, Domains, Shape, Places
  <2> QED BY <2>1, <2>2
<1>4. plan[r].deps[i] \subseteq done[r]
  BY <1>3 DEF Shape, Waves
<1>5. Places(r)'
  <2>1. /\ StaticallyValid(plan[r]) /\ done'[r] \subseteq plan[r].nodes /\ todo'[r] \subseteq plan[r].nodes
        /\ resolved[r] \subseteq plan[r].nodes /\ exec'[r] \subseteq plan[r].nodes
        /\ (exec'[r] \cup todo'[r]) \cap done'[r] = {}
        /\ exec'[r] \cap todo'[r] = {} /\ exec'[r] \subseteq resolved[r]
        /\ (pc[r] = "execute" => todo'[r] = {})
    BY <1>1, <1>3 DEF Shape, Places, Planning
  <2>2. \A j \in Nodes : phase'[Node(r, j)] \in Dispatched => pc[r] = "execute" /\ j \in exec'[r]
    BY <1>1, <1>2, <1>3 DEF Shape, Places, Dispatched, ExecPhases
  <2>3. \A j \in Nodes \ plan[r].nodes : phase'[Node(r, j)] = "idle"
    BY <1>1, <1>3 DEF Shape, Places, Planning
  <2>4. \A j \in exec'[r] : phase'[Node(r, j)] \notin {"idle", "reused"}
    BY <1>1, <1>3 DEF Shape, Places
  <2>5. pc[r] = "execute" => \A j \in Nodes : phase'[Node(r, j)] \in Quiet \cup Dispatched
    BY <1>1, <1>2 DEF Shape, Places, Quiet
  <2> QED BY <1>1, <1>3, <2>1, <2>2, <2>3, <2>4, <2>5 DEF Places, Planning
<1>6. Loops(r)'
  <2>1. failure'[r] = "none" => \A j \in plan[r].nodes \ done'[r] : phase'[Node(r, j)] # "idle"
    <3>1. failure[r] = "none" => \A j \in plan[r].nodes \ done[r] : phase[Node(r, j)] # "idle"
      BY <1>3 DEF Shape, Loops, Planning
    <3> QED BY <1>1, <1>3, <3>1
  <2>2. pc[r] = "wave" => failure'[r] = "none"
    BY <1>3 DEF Shape, Loops
  <2> QED BY <1>1, <1>3, <2>1, <2>2 DEF Loops
<1>7. Known(r)'
  <2>1. \A j \in Nodes : phase'[Node(r, j)] = "reused" => j \in resolved[r] /\ NodeMutates(plan[r], j)
    BY <1>1, <1>2 DEF Shape, Known
  <2>2. \A j \in plan[r].nodes \ Bound(plan[r]) : j \in resolved[r]
    BY <1>3 DEF Shape, Known, Planning
  <2>3. \A j \in resolved[r] : phase'[Node(r, j)] # "idle" => call'[Node(r, j)] \in plan[r].sigs[j]
    BY <1>1, <1>2 DEF Shape, Known
  <2>4. \A j \in done'[r] : phase'[Node(r, j)] = "idle" /\ plan[r].deps[j] \subseteq done'[r]
    BY <1>1, <1>2, <1>3, <1>4 DEF Shape, Known
  <2>5. gateOpen[r] =>
          \A j \in plan[r].nodes \ done'[r] : j \in resolved[r] /\ phase'[Node(r, j)] \notin PrepPhases
    BY <1>1, <1>2, <1>3 DEF Shape, Known, PrepPhases
  <2> QED BY <1>1, <1>3, <2>1, <2>2, <2>3, <2>4, <2>5 DEF Known
<1>8. Waves(r)'
  <2>1. \A j \in exec'[r] \cup todo'[r] : phase'[Node(r, j)] = phase[Node(r, j)] /\ j \in exec[r] \cup todo[r]
    BY <1>1, <1>3
  <2>2. \A j \in exec'[r] \cup todo'[r] :
          plan[r].deps[j] \subseteq done'[r] /\ (NodeMutates(plan[r], j) => gateOpen[r])
    BY <1>3, <2>1 DEF Shape, Waves
  <2>3. \A j \in exec'[r] \cup todo'[r] : NodeMutates(plan[r], j) /\ phase'[Node(r, j)] # "reused" =>
          exec'[r] \cup todo'[r] = {j}
    BY <1>3, <2>1 DEF Shape, Waves
  <2>4. \A j, k \in exec'[r] \cup todo'[r] :
          j # k /\ phase'[Node(r, j)] # "reused" /\ phase'[Node(r, k)] # "reused" =>
            NodeKey(plan[r], j) = NoKey \/ NodeKey(plan[r], j) # NodeKey(plan[r], k)
    BY <1>3, <2>1 DEF Shape, Waves
  <2> QED BY <1>1, <1>3, <2>2, <2>3, <2>4 DEF Waves
<1>9. Asks(r)'
  BY <1>1 DEF Shape, Asks
<1> QED BY <1>5, <1>6, <1>7, <1>8, <1>9 DEF Shape

\* A run that another one's move leaves alone.
LEMMA OthersKeepShape ==
  ASSUME Domains, NEW q \in Runs, Shape(q), Untouched(q)
  PROVE  Shape(q)'
<1>1. /\ phase'[Direct(q)] = phase[Direct(q)]
      /\ \A i \in Nodes : phase'[Node(q, i)] = phase[Node(q, i)] /\ call'[Node(q, i)] = call[Node(q, i)]
  BY NodeSlots DEF Untouched, SameSlots, SameSlot
<1>2. /\ pc'[q] = pc[q] /\ ask'[q] = ask[q] /\ plan'[q] = plan[q] /\ attempt'[q] = attempt[q]
      /\ done'[q] = done[q] /\ todo'[q] = todo[q] /\ exec'[q] = exec[q] /\ resolved'[q] = resolved[q]
      /\ gateOpen'[q] = gateOpen[q] /\ failure'[q] = failure[q]
      /\ plan[q].nodes \subseteq Nodes /\ done[q] \subseteq Nodes /\ todo[q] \subseteq Nodes
      /\ exec[q] \subseteq Nodes /\ resolved[q] \subseteq Nodes
  BY PlanParts DEF Untouched, SameControl, SamePlan, Domains
<1>3. Places(q)' BY <1>1, <1>2 DEF Shape, Places, Fresh
<1>4. Loops(q)' BY <1>1, <1>2 DEF Shape, Loops
<1>5. Known(q)' BY <1>1, <1>2 DEF Shape, Known
<1>6. Waves(q)' /\ Asks(q)' BY <1>1, <1>2 DEF Shape, Waves, Asks
<1> QED BY <1>3, <1>4, <1>5, <1>6 DEF Shape

LEMMA MoveKeepsShape ==
  ASSUME Domains, Domains', NEW r \in Runs, Shape(r), Move(r)
  PROVE  Shape(r)'
<1>1. ASSUME NEW i \in Nodes, NodeMove(r, i) PROVE Shape(r)'
  BY <1>1, PreflightKeepsShape, GateKeepsShape, WaveKeepsShape, LeavingWaveKeepsShape DEF NodeMove
<1>2. CASE LoopMove(r)
  BY <1>2, ScheduleKeepsShape, AdvanceKeepsShape, DispatchKeepsShape DEF LoopMove
<1>3. CASE StopStep(r)
  BY <1>3, SameKeepsShape DEF StopStep, Cancel, Expire, askVars, planVars, slotVars
<1> QED
  BY <1>1, <1>2, <1>3, ControlKeepsShape, PlansKeepShape, GoneKeepsShape, DirectKeepsShape,
     BrokerKeepsShape DEF Move

ShapeInv == Domains /\ \A r \in Runs : Shape(r)

LEMMA InitIsShaped == Init => ShapeInv
<1> SUFFICES ASSUME Init PROVE ShapeInv
  OBVIOUS
<1>1. AnyPlan \in Plans /\ AnySig \in Sigs
  BY PlanAssumption, AnySigInSigs DEF AnyPlan
<1>2. BrokerTypeOK
  BY <1>1 DEF Init, BrokerInit, BrokerTypeOK, Status, Phase, Errors, Effect
<1>3. Domains
  BY <1>1, <1>2, PlanLimitAssumption DEF Init, Domains, Pc, Ask
<1>4. ASSUME NEW r \in Runs PROVE Shape(r)
  <2>1. \A o \in Slots : phase[o] = "idle"
    BY DEF Init, BrokerInit
  <2>2. Fresh(r) /\ phase[Direct(r)] = "idle"
    BY <2>1, NodeSlots DEF Init, Fresh
  <2>3. pc[r] = "ask" /\ attempt[r] = 0 /\ ask[r] = "plan"
    BY DEF Init
  <2>4. Places(r) /\ Loops(r) /\ Known(r) /\ Waves(r)
    BY <2>2, <2>3 DEF Places, Loops, Known, Waves, Fresh, Dispatched, ExecPhases, Planning
  <2>5. Asks(r)
    BY <2>3 DEF Asks
  <2> QED BY <2>4, <2>5 DEF Shape
<1> QED BY <1>3, <1>4 DEF ShapeInv

\* A step is a move of one run, which leaves the others alone.
LEMMA StepMoves ==
  ASSUME ShapeInv, NEW r \in Runs, RunMoves(r)
  PROVE  Domains' /\ Move(r) /\ \A q \in Runs \ {r} : Untouched(q)
<1>1. pc[r] = "schedule" => StaticallyValid(plan[r]) /\ done[r] \subseteq plan[r].nodes
  BY DEF ShapeInv, Shape, Places, Planning
<1>2. Domains' /\ Move(r)
  BY <1>1, MovesOfRun DEF ShapeInv
<1> QED BY <1>2, MovesAreOwn DEF ShapeInv

LEMMA NextMoves == ASSUME Next PROVE \E r \in Runs : RunMoves(r)
BY DEF Next, RunMoves

LEMMA ShapeStep ==
  ASSUME ShapeInv, [Next]_vars
  PROVE  ShapeInv'
<1>1. CASE UNCHANGED vars
  <2>1. Domains'
    BY <1>1 DEF ShapeInv, Domains, BrokerTypeOK, vars, brokerVars, askVars, planVars
  <2>2. \A r \in Runs : Shape(r)'
    BY <1>1, SameKeepsShape DEF ShapeInv, vars, brokerVars, askVars, planVars
  <2> QED BY <2>1, <2>2 DEF ShapeInv
<1>2. ASSUME NEW r \in Runs, RunMoves(r) PROVE ShapeInv'
  <2>1. Domains' /\ Move(r) /\ \A q \in Runs \ {r} : Untouched(q)
    BY <1>2, StepMoves
  <2>2. Shape(r)'
    BY <2>1, MoveKeepsShape DEF ShapeInv
  <2>3. \A q \in Runs \ {r} : Shape(q)'
    BY <2>1, OthersKeepShape DEF ShapeInv
  <2> QED BY <2>1, <2>2, <2>3 DEF ShapeInv
<1> QED BY <1>1, <1>2, NextMoves

(* The inductive invariant of the plans: wherever a run stands in its      *)
(* loops, its nodes, its bindings and its waves are where that place says. *)
THEOREM Schedules == Safe => []ShapeInv
BY InitIsShaped, ShapeStep, PTL DEF Safe

-----------------------------------------------------------------------------
(* What the shape of a run says of its plans.                              *)

(* A run never accepts a third plan, and keeps within its model calls,     *)
(* retries and states: the types of PlanRun, attempts included, for every  *)
(* set of plans and every limit.                                           *)
THEOREM TypeCorrect == Safe => []TypeOK
<1>1. ASSUME ShapeInv PROVE TypeOK
  <2>1. \A r \in Runs : attempt[r] \in 0..2
    BY <1>1 DEF ShapeInv, Shape, Asks, Domains
  <2>2. attempt \in [Runs -> 0..2]
    BY <1>1, <2>1 DEF ShapeInv, Domains
  <2> QED BY <1>1, <2>2 DEF ShapeInv, Domains, TypeOK
<1> QED BY <1>1, Schedules, PTL

\* The nodes in flight are nodes of the wave.
LEMMA InFlightInWave ==
  ASSUME ShapeInv, NEW r \in Runs, NEW i \in InFlightNodes(r)
  PROVE  pc[r] = "execute" /\ i \in exec[r] /\ phase[Node(r, i)] # "reused" /\ i \in Nodes
BY DEF ShapeInv, Shape, Places, InFlightNodes, Dispatched, ExecPhases

LEMMA GateHolds == ASSUME ShapeInv PROVE AuthorizedAsOneGate
<1> SUFFICES ASSUME NEW r \in Runs, pc[r] \in Planning
             PROVE  /\ \A i \in InFlightNodes(r) : NodeMutates(plan[r], i) => gateOpen[r]
                    /\ gateOpen[r] => \A i \in plan[r].nodes \ done[r] :
                         i \in resolved[r] /\ phase[Node(r, i)] \notin PrepPhases
  BY DEF AuthorizedAsOneGate
<1>1. \A i \in InFlightNodes(r) : NodeMutates(plan[r], i) => gateOpen[r]
  BY InFlightInWave DEF ShapeInv, Shape, Waves
<1> QED BY <1>1 DEF ShapeInv, Shape, Known

LEMMA BindingsHold == ASSUME ShapeInv PROVE BindingsResolve
<1> SUFFICES ASSUME NEW r \in Runs, pc[r] \in {"gate", "wave"}, todo[r] # {},
                    NEW i, i = First(todo[r]), i \in Bound(plan[r])
             PROVE  Ancestors(plan[r], i) \cup plan[r].from[i] \subseteq done[r]
  BY DEF BindingsResolve
<1>0. /\ i \in todo[r] /\ plan[r] \in Plans /\ ValidGraph(plan[r]) /\ done[r] \subseteq plan[r].nodes
      /\ i \in plan[r].nodes
  <2>1. todo[r] \in SUBSET Nodes /\ plan[r] \in Plans
    BY DEF ShapeInv, Domains
  <2>2. i \in todo[r]
    BY <2>1, FirstOfNodes
  <2> QED BY <2>1, <2>2 DEF ShapeInv, Shape, Places, Planning, StaticallyValid
<1>1. plan[r].deps[i] \subseteq done[r]
  BY <1>0 DEF ShapeInv, Shape, Loops, Waves
<1>2. \A k \in done[r] : plan[r].deps[k] \subseteq done[r]
  BY DEF ShapeInv, Shape, Known
<1>3. Ancestors(plan[r], i) \subseteq done[r]
  <2> DEFINE D == done[r]
             p == plan[r]
  <2>1. D \in SUBSET p.nodes /\ p.deps[i] \subseteq D /\ \A k \in D : p.deps[k] \subseteq D
    BY <1>0, <1>1, <1>2
  <2> QED BY <1>0, <2>1, AncestorsLeast
<1>4. plan[r].from[i] \subseteq Ancestors(plan[r], i)
  BY <1>0 DEF ValidGraph
<1> QED BY <1>3, <1>4

LEMMA WavesHold == ASSUME ShapeInv PROVE MutationsRunAlone
<1> SUFFICES ASSUME NEW r \in Runs, NEW i \in InFlightNodes(r), NEW j \in InFlightNodes(r), i # j
             PROVE  /\ ~NodeMutates(plan[r], i)
                    /\ NodeKey(plan[r], i) = NoKey \/ NodeKey(plan[r], i) # NodeKey(plan[r], j)
  BY DEF MutationsRunAlone
<1>1. /\ pc[r] = "execute" /\ i \in exec[r] /\ j \in exec[r]
      /\ phase[Node(r, i)] # "reused" /\ phase[Node(r, j)] # "reused"
  BY InFlightInWave
<1> QED BY <1>1 DEF ShapeInv, Shape, Waves

(* Whatever the plan, the answers and the interleaving: nothing of a plan  *)
(* changes state before everything left of it has been authorized, a node  *)
(* is bound only when all it reads is done, and a state change has its     *)
(* wave to itself.                                                         *)
THEOREM SchedulesAreSound == Safe => []ScheduleSound
<1>1. ShapeInv => ScheduleSound
  BY GateHolds, BindingsHold, WavesHold DEF ScheduleSound
<1> QED BY <1>1, Schedules, PTL

-----------------------------------------------------------------------------
(* What the run knows of the state changes of its calls.                   *)

Effs(r) ==
  \A s \in Sigs : Mutates(s) =>
    /\ EffectKnown(r, s)
    /\ CallEffect(Direct(r), s)
    /\ \A i \in exec[r] : CallEffect(Node(r, i), s)

\* Once a recovery is asked for, no effect is in doubt.
Recovers(r) == pc[r] \in {"ask", "model"} /\ ask[r] = "recovery" =>
  \A s \in Sigs : Mutates(s) => starts[r][s] = confirmed[r][s]

\* A call says nothing while it is neither on its way nor dispatched.
LEMMA SilentCall ==
  ASSUME NEW o \in Slots, NEW s, phase'[o] \notin Unclassified \cup Dispatched
  PROVE  CallEffect(o, s)'
BY DEF CallEffect, Unclassified, Dispatched, AtTool, ExecPhases

LEMMA SameCallEffect ==
  ASSUME NEW o \in Slots, NEW s, CallEffect(o, s), phase'[o] = phase[o], call'[o] = call[o],
         call[o] = s => /\ effects'[RunOf[o]][s] = effects[RunOf[o]][s]
                        /\ starts'[RunOf[o]][s] = starts[RunOf[o]][s]
                        /\ confirmed'[RunOf[o]][s] = confirmed[RunOf[o]][s]
  PROVE  CallEffect(o, s)'
BY DEF CallEffect

SameEffect(r, s) ==
  effects'[r][s] = effects[r][s] /\ starts'[r][s] = starts[r][s] /\ confirmed'[r][s] = confirmed[r][s]

LEMMA SameEffectKnown ==
  ASSUME NEW r \in Runs, NEW s, EffectKnown(r, s), SameEffect(r, s)
  PROVE  EffectKnown(r, s)'
BY DEF EffectKnown, SameEffect

\* A call changes what is known of its own signature only.
LEMMA OtherSignatures ==
  ASSUME BrokerTypeOK, NEW o \in Slots, NEW s \in Sigs, call[o] # s, SlotMove(o) \/ RecordMove(o)
  PROVE  SameEffect(RunOf[o], s)
<1> DEFINE r == RunOf[o]
<1>0. /\ r \in Runs /\ call[o] \in Sigs /\ effects \in [Runs -> [Sigs -> Effect]]
      /\ starts \in [Runs -> [Sigs -> Nat]] /\ confirmed \in [Runs -> [Sigs -> Nat]]
  BY SlotRuns DEF BrokerTypeOK
<1> USE DEF SameEffect, RecordEffect, ledgerVars, historyVars
<1>1. CASE SlotMove(o)
  <2>1. CASE SlotDispatches(o) BY <1>0, <2>1 DEF SlotDispatches
  <2>2. CASE SlotBegins(o) BY <1>0, <2>2 DEF SlotBegins
  <2>3. CASE SlotSucceeds(o) BY <1>0, <2>3 DEF SlotSucceeds
  <2>4. CASE SlotAuthorizes(o) \/ SlotDenied(o) \/ SlotGivesUp(o) \/ SlotWaits(o) \/ SlotGraces(o) \/ SlotFails(o)
    BY <2>4 DEF SlotAuthorizes, SlotDenied, SlotGivesUp, SlotWaits, SlotGraces, SlotFails
  <2> QED BY <1>1, <2>1, <2>2, <2>3, <2>4 DEF SlotMove
<1>2. CASE RecordMove(o)
  BY <1>0, <1>2 DEF RecordMove, RecordPreDispatchError, RecordExecution, RecordExecutionError
<1> QED BY <1>1, <1>2

\* A state-changing node of the wave is the wave.
LEMMA ChangesAlone ==
  ASSUME Domains, NEW r \in Runs, Shape(r), NEW i \in exec[r], Mutates(call[Node(r, i)])
  PROVE  exec[r] = {i}
<1>1. /\ pc[r] \in {"wave", "execute"} /\ i \in resolved[r] /\ phase[Node(r, i)] \notin {"idle", "reused"}
  BY DEF Shape, Places, Fresh, Planning, Domains, Pc
<1>2. NodeMutates(plan[r], i)
  BY <1>1 DEF Shape, Known, NodeMutates
<1>3. exec[r] \cup todo[r] = {i}
  BY <1>1, <1>2 DEF Shape, Waves
<1> QED BY <1>3

\* A move that learns nothing: the calls that count are as before, or gone.
LEMMA NothingLearned ==
  ASSUME Domains, NEW r \in Runs, Effs(r), UNCHANGED <<effects, starts, confirmed>>,
         exec'[r] \subseteq exec[r],
         SameSlot(Direct(r)) \/ phase'[Direct(r)] = "idle",
         \A i \in exec'[r] : SameSlot(Node(r, i))
  PROVE  Effs(r)'
<1>0. exec[r] \subseteq Nodes /\ Direct(r) \in Slots /\ \A i \in exec[r] : Node(r, i) \in Slots
  BY NodeSlots DEF Domains
<1> SUFFICES ASSUME NEW s \in Sigs, Mutates(s)
             PROVE  /\ EffectKnown(r, s)' /\ CallEffect(Direct(r), s)'
                    /\ \A i \in exec'[r] : CallEffect(Node(r, i), s)'
  BY DEF Effs
<1>1. EffectKnown(r, s)'
  BY SameEffectKnown DEF Effs, SameEffect
<1>2. CallEffect(Direct(r), s)'
  BY <1>0, SameCallEffect, SilentCall DEF Effs, SameSlot, Unclassified, Dispatched, PrepPhases, ExecPhases
<1>3. ASSUME NEW i \in exec'[r] PROVE CallEffect(Node(r, i), s)'
  <2>1. i \in exec[r] /\ CallEffect(Node(r, i), s) /\ Node(r, i) \in Slots
    BY <1>0, <1>3 DEF Effs
  <2> QED BY <1>3, <2>1, SameCallEffect DEF SameSlot
<1> QED BY <1>1, <1>2, <1>3

LEMMA NodeLearns ==
  ASSUME Domains, NEW r \in Runs, Shape(r), Effs(r), NEW i \in exec[r],
         SlotMove(Node(r, i)) \/ (RecordMove(Node(r, i)) /\ phase'[Node(r, i)] = "idle"),
         OneSlot(Node(r, i)), exec'[r] \subseteq exec[r]
  PROVE  Effs(r)'
<1> DEFINE o == Node(r, i)
<1>0. /\ o \in Slots /\ RunOf[o] = r /\ BrokerTypeOK /\ i \in Nodes
      /\ exec[r] \subseteq Nodes /\ \A j \in exec[r] : Node(r, j) \in Slots /\ RunOf[Node(r, j)] = r
  BY NodeSlots DEF Domains
<1>1. SameSlot(Direct(r)) /\ \A j \in Nodes \ {i} : SameSlot(Node(r, j))
  BY <1>0, OneNode
<1>2. phase'[Direct(r)] = "idle" /\ Direct(r) \in Slots
  BY <1>0, <1>1, NodeSlots DEF SameSlot, Shape, Places, Fresh, Planning
<1> SUFFICES ASSUME NEW s \in Sigs, Mutates(s)
             PROVE  /\ EffectKnown(r, s)' /\ CallEffect(Direct(r), s)'
                    /\ \A j \in exec'[r] : CallEffect(Node(r, j), s)'
  BY DEF Effs
<1> HIDE DEF o
<1>3. EffectAgrees(o, s)
  BY <1>0 DEF Effs, EffectAgrees, o
<1>4. EffectAgrees(o, s)'
  BY <1>0, <1>3, MoveKeepsEffects, RecordKeepsEffects DEF o
<1>5. CallEffect(Direct(r), s)'
  BY <1>2, SilentCall DEF Unclassified, Dispatched, PrepPhases, ExecPhases
<1>6. ASSUME NEW j \in exec'[r] PROVE CallEffect(Node(r, j), s)'
  <2>1. CASE j = i
    BY <1>4, <2>1 DEF EffectAgrees, o
  <2>2. CASE j # i
    <3>1. call[o] # s
      BY <1>6, <2>2, ChangesAlone DEF o
    <3>2. SameEffect(r, s)
      BY <1>0, <3>1, OtherSignatures DEF o
    <3>3. j \in exec[r] /\ Node(r, j) \in Slots /\ RunOf[Node(r, j)] = r /\ SameSlot(Node(r, j))
          /\ CallEffect(Node(r, j), s)
      BY <1>0, <1>1, <1>6, <2>2 DEF Effs
    <3> QED BY <3>2, <3>3, SameCallEffect DEF SameSlot, SameEffect
  <2> QED BY <2>1, <2>2
<1>7. EffectKnown(r, s)'
  BY <1>0, <1>4 DEF EffectAgrees, EffectKnown
<1> QED BY <1>5, <1>6, <1>7

LEMMA DirectLearns ==
  ASSUME Domains, NEW r \in Runs, Effs(r), exec'[r] = {},
         \/ \E s \in Sigs : PrepareMove(Direct(r), s)
         \/ SlotMove(Direct(r))
         \/ RecordMove(Direct(r)) /\ phase'[Direct(r)] = "idle"
  PROVE  Effs(r)'
<1> DEFINE o == Direct(r)
<1>0. o \in Slots /\ RunOf[o] = r /\ BrokerTypeOK /\ RunOf[o] \in Reusing
  BY NodeSlots, PlanAssumption DEF Domains
<1> SUFFICES ASSUME NEW s \in Sigs, Mutates(s) PROVE EffectKnown(r, s)' /\ CallEffect(o, s)'
  BY DEF Effs
<1> HIDE DEF o
<1>1. EffectAgrees(o, s)
  BY <1>0 DEF Effs, EffectAgrees, o
<1>2. EffectAgrees(o, s)'
  BY <1>0, <1>1, PrepareKeepsEffects, MoveKeepsEffects, RecordKeepsEffects DEF o
<1> QED BY <1>0, <1>2 DEF EffectAgrees, EffectKnown

\* A node joins the wave just revalidated: nothing is known of its state change.
LEMMA WaveLearns ==
  ASSUME Domains, NEW r \in Runs, Shape(r), Effs(r), NEW i \in Nodes, WaveMove(r, i)
  PROVE  Effs(r)'
<1> DEFINE o == Node(r, i)
<1>0. o \in Slots /\ RunOf[o] = r /\ r \in Reusing /\ exec[r] \subseteq Nodes /\ BoundTo(r, i) \subseteq Sigs
  BY NodeSlots, PlanAssumption, BoundToSigs DEF Domains
<1>1. PICK t \in Sigs : Revalidate(r, i, t)
  BY <1>0 DEF WaveMove
<1>2. Revalidated(r, i, t)
  BY <1>1, RevalidateMoves
<1>3. UNCHANGED <<effects, starts, confirmed>> /\ OneSlot(o)
  BY <1>2 DEF Revalidated, historyVars, OneSlot, SameSlot
<1>4. SameSlot(Direct(r)) /\ \A j \in Nodes \ {i} : SameSlot(Node(r, j))
  BY <1>3, OneNode
<1>5. i \notin exec[r] /\ phase[o] = "ready" /\ (exec'[r] = exec[r] \/ (exec'[r] = exec[r] \cup {i} /\ phase'[o] # "reused"))
  BY DEF WaveMove, Shape, Places, Domains
<1> SUFFICES ASSUME NEW s \in Sigs, Mutates(s)
             PROVE  /\ EffectKnown(r, s)' /\ CallEffect(Direct(r), s)'
                    /\ \A j \in exec'[r] : CallEffect(Node(r, j), s)'
  BY DEF Effs
<1>6. EffectKnown(r, s)'
  BY <1>3, SameEffectKnown DEF Effs, SameEffect
<1>7. CallEffect(Direct(r), s)'
  BY <1>3, <1>4, NodeSlots, SameCallEffect DEF Effs, SameSlot
<1>8. ASSUME NEW j \in exec[r] PROVE CallEffect(Node(r, j), s)'
  <2>1. Node(r, j) \in Slots /\ SameSlot(Node(r, j)) /\ CallEffect(Node(r, j), s)
    BY <1>0, <1>4, <1>5, <1>8, NodeSlots DEF Effs
  <2> QED BY <1>3, <2>1, SameCallEffect DEF SameSlot
<1>9. ASSUME phase'[o] # "reused" PROVE CallEffect(o, s)'
  <2>1. call'[o] = t
    BY <1>2 DEF Revalidated
  <2>2. CASE phase'[o] \in {"prepErr", "limit"}
    BY <1>0, <2>2, SilentCall DEF Unclassified, Dispatched, PrepPhases, ExecPhases
  <2>3. CASE phase'[o] \in {"policy", "ready"} /\ ~KnownEffect(r, t)
    <3>1. t = s => effects'[r][s] = "none"
      BY <1>0, <1>3, <2>3 DEF KnownEffect
    <3> QED BY <1>0, <2>1, <2>3, <3>1 DEF CallEffect, Dispatched, ExecPhases, AtTool
  <2> QED BY <1>2, <1>5, <1>9, <2>2, <2>3 DEF Revalidated
<1> QED BY <1>5, <1>6, <1>7, <1>8, <1>9

LEMMA MoveKeepsEffs ==
  ASSUME Domains, Domains', NEW r \in Runs, Shape(r), Effs(r), Move(r)
  PROVE  Effs(r)'
<1>0. exec[r] \subseteq Nodes /\ Direct(r) \in Slots /\ (pc[r] \notin {"wave", "execute"} => exec[r] = {})
  BY NodeSlots DEF Shape, Places, Fresh, Planning, Domains
<1>1. ASSUME UNCHANGED <<slotVars, exec, effects, historyVars>> PROVE Effs(r)'
  BY <1>0, <1>1, NothingLearned DEF SameSlot, slotVars, historyVars
<1>2. CASE ControlMove(r)
  BY <1>1, <1>2 DEF ControlMove, ledgerVars, planVars
<1>3. ASSUME NEW p \in Plans, PlannerPlans(r, p) PROVE Effs(r)'
  BY <1>1, <1>3 DEF PlannerPlans, OutOfBroker, ledgerVars
<1>4. ASSUME NEW i \in Nodes, NodeMove(r, i) PROVE Effs(r)'
  <2>0. Node(r, i) \in Slots /\ RunOf[Node(r, i)] = r /\ OneSlot(Node(r, i))
        /\ SameSlot(Direct(r)) /\ \A j \in Nodes \ {i} : SameSlot(Node(r, j))
    BY <1>4, NodeSlots, NodeMoveSlot, OneNode
  <2>1. CASE PreflightMove(r, i) \/ GateMove(r, i)
    <3>1. exec[r] = {} /\ exec' = exec
      BY <1>0, <2>1 DEF PreflightMove, GateMove
    <3>2. UNCHANGED <<effects, historyVars>>
      <4>1. CASE PreflightMove(r, i)
        BY <4>1 DEF PreflightMove, DeferMove, PrepareMove, Admitting, Preparing
      <4>2. CASE GateMove(r, i)
        <5>1. PICK s \in Sigs : Revalidate(r, i, s)
          BY <4>2, BoundToSigs DEF GateMove
        <5> QED BY <5>1, RevalidateMoves DEF Revalidated
      <4> QED BY <2>1, <4>1, <4>2
    <3> QED BY <2>0, <3>1, <3>2, NothingLearned DEF historyVars
  <2>2. CASE WaveMove(r, i)
    BY <2>2, WaveLearns
  <2>3. CASE ReuseMove(r, i)
    <3>1. i \notin exec[r] /\ UNCHANGED <<exec, effects, starts, confirmed>>
      BY <2>3 DEF ReuseMove, Shape, Places, ledgerVars, historyVars
    <3> QED BY <1>0, <2>0, <3>1, NothingLearned
  <2>4. CASE RecordNodeMove(r, i)
    <3>1. i \in exec[r] /\ RecordMove(Node(r, i)) /\ exec'[r] \subseteq exec[r]
      BY <2>4 DEF RecordNodeMove, RecordMove, Domains
    <3>2. phase'[Node(r, i)] = "idle"
      BY <2>0, <2>4, FreeIsOneSlot DEF RecordNodeMove
    <3> QED BY <2>0, <3>1, <3>2, NodeLearns
  <2> QED BY <1>4, <2>1, <2>2, <2>3, <2>4 DEF NodeMove
<1>5. CASE LoopMove(r)
  <2>1. UNCHANGED <<slotVars, effects, historyVars>> /\ exec'[r] \subseteq exec[r]
    BY <1>5 DEF LoopMove, ScheduleMove, AdvanceMove, DispatchMove, ledgerVars, Domains
  <2> QED BY <1>0, <2>1, NothingLearned DEF SameSlot, slotVars, historyVars
<1>6. CASE GoneMove(r)
  <2>1. PlanGone(r)
    BY <1>6 DEF GoneMove, QuietlyGone, FailsGone, SucceedsMove
  <2>2. exec'[r] = {} /\ UNCHANGED <<effects, historyVars>>
    BY <2>1 DEF PlanGone, DropPlan, Domains
  <2>3. phase'[Direct(r)] = "idle"
    BY <2>1, DropFreesSlots, NodeSlots DEF PlanGone
  <2> QED BY <2>2, <2>3, NothingLearned DEF historyVars
<1>7. CASE TakeCallMove(r) \/ CallEndsMove(r)
  <2>1. exec'[r] = {}
    <3>1. pc[r] \notin Planning
      BY <1>7, <1>0 DEF TakeCallMove, CallEndsMove, Planning, Shape, Places, RecordMove,
         RecordPreDispatchError, RecordExecution, RecordExecutionError
    <3> QED BY <1>7, <3>1 DEF Shape, Places, Fresh, TakeCallMove, CallEndsMove, planVars
  <2>2. CallEndsMove(r) => phase'[Direct(r)] = "idle"
    BY <1>0, FreeIsOneSlot DEF CallEndsMove
  <2> QED BY <1>7, <2>1, <2>2, DirectLearns DEF TakeCallMove, CallEndsMove
<1>8. ASSUME NEW o \in Slots, BrokerMove(r, o) PROVE Effs(r)'
  <2>0. SlotMove(o) /\ OneSlot(o) /\ RunOf[o] = r /\ UNCHANGED exec /\ phase[o] # "idle"
    BY <1>8, SlotIsOneSlot DEF BrokerMove, planVars, SlotMove, SlotAuthorizes, SlotDenied, SlotDispatches,
       SlotGivesUp, SlotWaits, SlotBegins, SlotGraces, SlotSucceeds, SlotFails, PrepPhases, AtTool
  <2>1. CASE o = Direct(r)
    <3>1. exec[r] = {}
      BY <1>0, <2>0, <2>1 DEF Shape, Places
    <3> QED BY <2>0, <2>1, <3>1, DirectLearns
  <2>2. ASSUME NEW i \in exec[r], o = Node(r, i) PROVE Effs(r)'
    BY <2>0, <2>2, NodeLearns
  <2>3. ASSUME NEW i \in Nodes \ exec[r], o = Node(r, i) PROVE Effs(r)'
    <3>1. phase[o] \notin Dispatched \cup {"ready"}
      <4>1. phase[o] = "ready" => i \in exec[r]
        BY <1>0, <1>8, <2>3, NodeSlots DEF BrokerMove
      <4> QED BY <2>3, <4>1 DEF Shape, Places
    <3>2. UNCHANGED <<effects, starts, confirmed>>
      BY <2>0, <3>1 DEF SlotMove, SlotAuthorizes, SlotDenied, SlotDispatches, SlotGivesUp, SlotWaits,
         SlotBegins, SlotGraces, SlotSucceeds, SlotFails, Dispatched, ExecPhases, AtTool, ledgerVars,
         historyVars
    <3>3. SameSlot(Direct(r)) /\ \A j \in exec[r] : SameSlot(Node(r, j))
      BY <1>0, <2>0, <2>3, OneNode
    <3> QED BY <2>0, <3>2, <3>3, NothingLearned
  <2> QED BY <2>0, <2>1, <2>2, <2>3, NodeSlots
<1>9. CASE StopStep(r)
  BY <1>1, <1>9 DEF StopStep, Cancel, Expire, planVars, ledgerVars
<1> QED BY <1>2, <1>3, <1>4, <1>5, <1>6, <1>7, <1>8, <1>9 DEF Move

LEMMA OthersKeepEffs ==
  ASSUME Domains, NEW q \in Runs, Effs(q), Untouched(q)
  PROVE  Effs(q)'
<1>1. /\ effects'[q] = effects[q] /\ starts'[q] = starts[q] /\ confirmed'[q] = confirmed[q]
      /\ exec'[q] = exec[q] /\ exec[q] \subseteq Nodes
  BY DEF Untouched, SamePlan, SameLedger, Domains
<1>2. /\ Direct(q) \in Slots /\ RunOf[Direct(q)] = q /\ SameSlot(Direct(q))
      /\ \A i \in exec[q] : Node(q, i) \in Slots /\ RunOf[Node(q, i)] = q /\ SameSlot(Node(q, i))
  BY <1>1, NodeSlots DEF Untouched, SameSlots
<1> SUFFICES ASSUME NEW s \in Sigs, Mutates(s)
             PROVE  /\ EffectKnown(q, s)' /\ CallEffect(Direct(q), s)'
                    /\ \A i \in exec'[q] : CallEffect(Node(q, i), s)'
  BY DEF Effs
<1>3. EffectKnown(q, s)'
  BY <1>1, SameEffectKnown DEF Effs, SameEffect
<1>4. CallEffect(Direct(q), s)'
  BY <1>1, <1>2, SameCallEffect DEF Effs, SameSlot
<1>5. ASSUME NEW i \in exec[q] PROVE CallEffect(Node(q, i), s)'
  <2>1. CallEffect(Node(q, i), s)
    BY <1>5 DEF Effs
  <2> QED BY <1>1, <1>2, <1>5, <2>1, SameCallEffect DEF SameSlot
<1> QED BY <1>1, <1>3, <1>4, <1>5

\* A recovery is asked for by a plan that is given up, and nothing begins until it
\* is accepted.
LEMMA RecoveryBegins ==
  ASSUME Domains, Domains', NEW r \in Runs, Shape(r), Move(r),
         pc'[r] \in {"ask", "model"}, ask'[r] = "recovery"
  PROVE  \/ PlanGone(r)
         \/ /\ pc[r] \in {"ask", "model"} /\ ask[r] = "recovery"
            /\ UNCHANGED <<starts, confirmed>>
<1>1. CASE ControlMove(r)
  BY <1>1 DEF ControlMove, Domains, historyVars
<1>2. ASSUME NEW p \in Plans, PlannerPlans(r, p) PROVE FALSE
  BY <1>2 DEF PlannerPlans, Goto, Domains
<1>3. ASSUME NEW i \in Nodes, NodeMove(r, i) PROVE FALSE
  BY <1>3 DEF NodeMove, PreflightMove, GateMove, WaveMove, ReuseMove, RecordNodeMove
<1>4. CASE LoopMove(r)
  BY <1>4 DEF LoopMove, ScheduleMove, AdvanceMove, DispatchMove, Domains
<1>5. CASE GoneMove(r)
  BY <1>5 DEF GoneMove, QuietlyGone, FailsGone, SucceedsMove
<1>6. CASE TakeCallMove(r)
  BY <1>6 DEF TakeCallMove, Domains
<1>7. CASE CallEndsMove(r)
  <2>1. pc[r] = "calls"
    BY <1>7 DEF CallEndsMove, RecordMove, RecordPreDispatchError, RecordExecution, RecordExecutionError,
       Shape, Places
  <2> QED BY <1>7, <2>1 DEF CallEndsMove, Domains
<1>8. ASSUME NEW o \in Slots, BrokerMove(r, o) PROVE FALSE
  <2>1. pc[r] \in {"ask", "model"} /\ phase[o] # "idle" /\ RunOf[o] = r
    BY <1>8 DEF BrokerMove, SlotMove, SlotAuthorizes, SlotDenied, SlotDispatches, SlotGivesUp, SlotWaits,
       SlotBegins, SlotGraces, SlotSucceeds, SlotFails, PrepPhases, AtTool
  <2>2. phase[Direct(r)] = "idle" /\ \A i \in Nodes : phase[Node(r, i)] = "idle"
    BY <2>1 DEF Shape, Places, Fresh, Planning
  <2> QED BY <2>1, <2>2, NodeSlots
<1>9. CASE StopStep(r)
  BY <1>9 DEF StopStep, Cancel, Expire, askVars, historyVars
<1> QED BY <1>1, <1>2, <1>3, <1>4, <1>5, <1>6, <1>7, <1>8, <1>9 DEF Move

\* The ledger is asked first: a recovery leaves no effect in doubt behind.
LEMMA MoveKeepsRecovers ==
  ASSUME Domains, Domains', NEW r \in Runs, Shape(r), Effs(r), Recovers(r), Move(r)
  PROVE  Recovers(r)'
<1> SUFFICES ASSUME pc'[r] \in {"ask", "model"}, ask'[r] = "recovery", NEW s \in Sigs, Mutates(s)
             PROVE  starts'[r][s] = confirmed'[r][s]
  BY DEF Recovers
<1>1. CASE PlanGone(r)
  <2>1. MayRecover(r) /\ UNCHANGED <<starts, confirmed>>
    BY <1>1 DEF PlanGone, Domains, historyVars
  <2>2. effects[r][s] \in {"none", "completed"}
    BY <2>1 DEF MayRecover, RecoveryIsSafe
  <2>3. EffectKnown(r, s) /\ starts[r][s] \in Nat /\ confirmed[r][s] \in Nat
    BY DEF Effs, Domains, BrokerTypeOK
  <2> QED BY <2>1, <2>2, <2>3 DEF EffectKnown
<1>2. CASE /\ pc[r] \in {"ask", "model"} /\ ask[r] = "recovery"
           /\ UNCHANGED <<starts, confirmed>>
  BY <1>2 DEF Recovers
<1> QED BY <1>1, <1>2, RecoveryBegins

EffectsInv == ShapeInv /\ \A r \in Runs : Effs(r) /\ Recovers(r)

LEMMA InitKnowsEffects == Init => EffectsInv
<1> SUFFICES ASSUME Init PROVE EffectsInv
  OBVIOUS
<1>1. ShapeInv
  BY InitIsShaped
<1>2. ASSUME NEW r \in Runs PROVE Effs(r) /\ Recovers(r)
  <2>1. \A o \in Slots : phase[o] = "idle"
    BY DEF Init, BrokerInit
  <2>2. /\ exec[r] = {} /\ phase[Direct(r)] = "idle"
        /\ \A s \in Sigs : starts[r][s] = 0 /\ confirmed[r][s] = 0
    BY <2>1, NodeSlots DEF Init, BrokerInit
  <2>3. Effs(r)
    BY <2>2 DEF Effs, EffectKnown, CallEffect, Unclassified, Dispatched, PrepPhases, ExecPhases, AtTool
  <2> QED BY <2>2, <2>3 DEF Recovers
<1> QED BY <1>1, <1>2 DEF EffectsInv

LEMMA EffectsStep == EffectsInv /\ [Next]_vars => EffectsInv'
<1> SUFFICES ASSUME EffectsInv, [Next]_vars PROVE EffectsInv'
  OBVIOUS
<1>0. ShapeInv /\ ShapeInv' /\ Domains /\ Domains'
  BY ShapeStep DEF EffectsInv, ShapeInv
<1>1. CASE UNCHANGED vars
  BY <1>0, <1>1 DEF EffectsInv, Effs, EffectKnown, CallEffect, Recovers, vars, brokerVars, askVars, planVars
<1>2. CASE Next
  <2>1. PICK r \in Runs : Move(r) /\ \A q \in Runs \ {r} : Untouched(q)
    BY <1>0, <1>2, NextMoves, StepMoves
  <2>2. Shape(r) /\ Effs(r) /\ Recovers(r)
    BY <1>0 DEF EffectsInv, ShapeInv
  <2>3. Effs(r)' /\ Recovers(r)'
    BY <1>0, <2>1, <2>2, MoveKeepsEffs, MoveKeepsRecovers
  <2>4. ASSUME NEW q \in Runs \ {r} PROVE Effs(q)' /\ Recovers(q)'
    <3>1. Effs(q)'
      BY <1>0, <2>1, OthersKeepEffs DEF EffectsInv
    <3>2. Recovers(q)'
      BY <2>1 DEF EffectsInv, Recovers, Untouched, SameControl, SameLedger
    <3> QED BY <3>1, <3>2
  <2> QED BY <1>0, <2>3, <2>4 DEF EffectsInv
<1> QED BY <1>1, <1>2

(* Whatever the plans, their bindings and what the model answers: a run    *)
(* begins no state-changing signature twice, and asks for a second plan    *)
(* only when every state change of the first is known to have succeeded.   *)
THEOREM EffectsAreSound == Safe => []EffectsSound
<1>1. EffectsInv => EffectsSound
  BY DEF EffectsInv, Effs, EffectKnown, Recovers, EffectsSound, EffectAtMostOnce,
     RecoveryAfterKnownEffects
<1> QED BY <1>1, InitKnowsEffects, EffectsStep, PTL DEF Safe

-----------------------------------------------------------------------------
(* The ledger of a run.                                                    *)

\* A call that is counted and not classified yet; a call that is not settled.
Owing(o) == phase[o] \in Unclassified \/ (phase[o] = "prepErr" /\ PreDispatchErrorCounts(o))

Owed(r) == {i \in 0..MaxNodes : Owing(<<r, i>>)}
InHand(r) == {i \in 0..MaxNodes : phase[<<r, i>>] \in Dispatched}

\* Nothing else of the run is being decided: what o does to the counters, no
\* other call takes for its own.
Calm(o) == \A p \in Slots \ {o} : RunOf[p] = RunOf[o] => phase[p] \in Quiet \cup Dispatched

Led(r) ==
  /\ usage[r]["calls"] = Classified(usage[r]) + dropped[r] + Cardinality(Owed(r))
  /\ usage[r]["issued"] = Settled(usage[r]) + Cardinality(InHand(r))
  /\ \A o \in Slots : RunOf[o] = r =>
       /\ phase[o] \in PrepPhases => PreDispatchErrorCounts(o)
       /\ phase[o] \notin Quiet \cup Dispatched => Calm(o)

Owes(o) == IF Owing(o) THEN 1 ELSE 0
Holds(o) == IF phase[o] \in Dispatched THEN 1 ELSE 0

\* What a call does to the counters of its run, it accounts for by its phase.
LedgerStep(o) ==
  LET u == usage[RunOf[o]]
      v == usage'[RunOf[o]]
  IN /\ v["calls"] + Classified(u) + Owes(o) = u["calls"] + Classified(v) + Owes(o)'
     /\ v["issued"] + Settled(u) + Holds(o) = u["issued"] + Settled(v) + Holds(o)'
     /\ phase'[o] \in PrepPhases => PreDispatchErrorCounts(o)'

\* The counters stay, or a call becomes counted, or classified, or issued, or settled.
LEMMA StillStep ==
  ASSUME NEW o \in Slots, RunOf[o] \in Runs, usage \in [Runs -> [Counters -> Nat]],
         usage'[RunOf[o]] = usage[RunOf[o]],
         Owing(o)' <=> Owing(o), phase'[o] \in Dispatched <=> phase[o] \in Dispatched,
         phase'[o] \in PrepPhases => PreDispatchErrorCounts(o)'
  PROVE  LedgerStep(o)
BY DEF LedgerStep, Owes, Holds

LEMMA CountedStep ==
  ASSUME NEW o \in Slots, RunOf[o] \in Runs, usage \in [Runs -> [Counters -> Nat]],
         Bump(RunOf[o], {"calls"}), ~Owing(o), phase[o] \notin Dispatched,
         phase'[o] \in Unclassified \cup {"prepErr"},
         phase'[o] # "ready" => PreDispatchErrorCounts(o)'
  PROVE  LedgerStep(o)
<1> DEFINE u == usage[RunOf[o]]
           v == usage'[RunOf[o]]
<1>1. /\ v["calls"] = u["calls"] + 1 /\ v["issued"] = u["issued"]
      /\ Classified(v) = Classified(u) /\ Settled(v) = Settled(u)
      /\ u["calls"] \in Nat /\ u["issued"] \in Nat /\ Classified(u) \in Nat /\ Settled(u) \in Nat
  BY BumpOpens, SumsAreNatural
<1>2. Owing(o)' /\ phase'[o] \notin Dispatched /\ (phase'[o] \in PrepPhases => PreDispatchErrorCounts(o)')
  BY DEF Owing, Unclassified, Dispatched, PrepPhases, ExecPhases
<1>3. Owes(o) = 0 /\ Owes(o)' = 1 /\ Holds(o) = 0 /\ Holds(o)' = 0
  BY <1>2 DEF Owes, Holds
<1> HIDE DEF u, v
<1>4. v["calls"] + Classified(u) + Owes(o) = u["calls"] + Classified(v) + Owes(o)'
  BY <1>1, <1>3, SMTT(30)
<1>5. v["issued"] + Settled(u) + Holds(o) = u["issued"] + Settled(v) + Holds(o)'
  BY <1>1, <1>3, SMTT(30)
<1> QED BY <1>2, <1>4, <1>5, Zenon DEF LedgerStep, u, v

LEMMA ClassifiedStep ==
  ASSUME NEW o \in Slots, RunOf[o] \in Runs, usage \in [Runs -> [Counters -> Nat]],
         NEW c \in {"reused", "rejected", "aborted"}, Bump(RunOf[o], {c}),
         Owing(o), phase[o] \notin Dispatched,
         phase'[o] \in {"idle", "rejected", "reused", "limit"}
  PROVE  LedgerStep(o)
<1> DEFINE u == usage[RunOf[o]]
           v == usage'[RunOf[o]]
<1>1. /\ v["calls"] = u["calls"] /\ v["issued"] = u["issued"]
      /\ Classified(v) = Classified(u) + 1 /\ Settled(v) = Settled(u)
      /\ u["calls"] \in Nat /\ u["issued"] \in Nat /\ Classified(u) \in Nat /\ Settled(u) \in Nat
  BY BumpClassifies, SumsAreNatural
<1>2. ~Owing(o)' /\ phase'[o] \notin Dispatched /\ phase'[o] \notin PrepPhases
  BY DEF Owing, Unclassified, Dispatched, PrepPhases, ExecPhases
<1>3. Owes(o) = 1 /\ Owes(o)' = 0 /\ Holds(o) = 0 /\ Holds(o)' = 0
  BY <1>2 DEF Owes, Holds
<1> HIDE DEF u, v
<1>4. v["calls"] + Classified(u) + Owes(o) = u["calls"] + Classified(v) + Owes(o)'
  BY <1>1, <1>3, SMTT(30)
<1>5. v["issued"] + Settled(u) + Holds(o) = u["issued"] + Settled(v) + Holds(o)'
  BY <1>1, <1>3, SMTT(30)
<1> QED BY <1>2, <1>4, <1>5, Zenon DEF LedgerStep, u, v

LEMMA AnsweredStep ==
  ASSUME NEW o \in Slots, RunOf[o] \in Runs, usage \in [Runs -> [Counters -> Nat]],
         NEW c \in {"reused", "rejected"}, Bump(RunOf[o], {"calls", c}),
         phase[o] = "idle", phase'[o] \in {"rejected", "reused", "limit"}
  PROVE  LedgerStep(o)
<1> DEFINE u == usage[RunOf[o]]
           v == usage'[RunOf[o]]
<1>1. /\ v["calls"] = u["calls"] + 1 /\ v["issued"] = u["issued"]
      /\ Classified(v) = Classified(u) + 1 /\ Settled(v) = Settled(u)
      /\ u["calls"] \in Nat /\ u["issued"] \in Nat /\ Classified(u) \in Nat /\ Settled(u) \in Nat
  BY BumpAdmits, SumsAreNatural
<1>2. /\ ~Owing(o) /\ ~Owing(o)' /\ phase[o] \notin Dispatched /\ phase'[o] \notin Dispatched
      /\ phase'[o] \notin PrepPhases
  BY DEF Owing, Unclassified, Dispatched, PrepPhases, ExecPhases
<1>3. Owes(o) = 0 /\ Owes(o)' = 0 /\ Holds(o) = 0 /\ Holds(o)' = 0
  BY <1>2 DEF Owes, Holds
<1> HIDE DEF u, v
<1>4. v["calls"] + Classified(u) + Owes(o) = u["calls"] + Classified(v) + Owes(o)'
  BY <1>1, <1>3, SMTT(30)
<1>5. v["issued"] + Settled(u) + Holds(o) = u["issued"] + Settled(v) + Holds(o)'
  BY <1>1, <1>3, SMTT(30)
<1> QED BY <1>2, <1>4, <1>5, Zenon DEF LedgerStep, u, v

LEMMA IssuedStep ==
  ASSUME NEW o \in Slots, RunOf[o] \in Runs, usage \in [Runs -> [Counters -> Nat]],
         Bump(RunOf[o], {"issued"}), phase[o] = "ready", phase'[o] = "starting"
  PROVE  LedgerStep(o)
<1> DEFINE u == usage[RunOf[o]]
           v == usage'[RunOf[o]]
<1>1. /\ v["calls"] = u["calls"] /\ v["issued"] = u["issued"] + 1
      /\ Classified(v) = Classified(u) + 1 /\ Settled(v) = Settled(u)
      /\ u["calls"] \in Nat /\ u["issued"] \in Nat /\ Classified(u) \in Nat /\ Settled(u) \in Nat
  BY BumpIssues, SumsAreNatural
<1>2. /\ Owing(o) /\ ~Owing(o)' /\ phase[o] \notin Dispatched /\ phase'[o] \in Dispatched
      /\ phase'[o] \notin PrepPhases
  BY DEF Owing, Unclassified, Dispatched, PrepPhases, ExecPhases
<1>3. Owes(o) = 1 /\ Owes(o)' = 0 /\ Holds(o) = 0 /\ Holds(o)' = 1
  BY <1>2 DEF Owes, Holds
<1> HIDE DEF u, v
<1>4. v["calls"] + Classified(u) + Owes(o) = u["calls"] + Classified(v) + Owes(o)'
  BY <1>1, <1>3, SMTT(30)
<1>5. v["issued"] + Settled(u) + Holds(o) = u["issued"] + Settled(v) + Holds(o)'
  BY <1>1, <1>3, SMTT(30)
<1> QED BY <1>2, <1>4, <1>5, Zenon DEF LedgerStep, u, v

LEMMA SettledStep ==
  ASSUME NEW o \in Slots, RunOf[o] \in Runs, usage \in [Runs -> [Counters -> Nat]],
         NEW c \in {"completed", "failed", "cancelled"}, Bump(RunOf[o], {c}),
         phase[o] \in Dispatched, phase'[o] = "idle"
  PROVE  LedgerStep(o)
<1> DEFINE u == usage[RunOf[o]]
           v == usage'[RunOf[o]]
<1>1. /\ v["calls"] = u["calls"] /\ v["issued"] = u["issued"]
      /\ Classified(v) = Classified(u) /\ Settled(v) = Settled(u) + 1
      /\ u["calls"] \in Nat /\ u["issued"] \in Nat /\ Classified(u) \in Nat /\ Settled(u) \in Nat
  BY BumpSettles, SumsAreNatural
<1>2. /\ ~Owing(o) /\ ~Owing(o)' /\ phase[o] \in Dispatched /\ phase'[o] \notin Dispatched
      /\ phase'[o] \notin PrepPhases
  BY DEF Owing, Unclassified, Dispatched, PrepPhases, ExecPhases
<1>3. Owes(o) = 0 /\ Owes(o)' = 0 /\ Holds(o) = 1 /\ Holds(o)' = 0
  BY <1>2 DEF Owes, Holds
<1> HIDE DEF u, v
<1>4. v["calls"] + Classified(u) + Owes(o) = u["calls"] + Classified(v) + Owes(o)'
  BY <1>1, <1>3, SMTT(30)
<1>5. v["issued"] + Settled(u) + Holds(o) = u["issued"] + Settled(v) + Holds(o)'
  BY <1>1, <1>3, SMTT(30)
<1> QED BY <1>2, <1>4, <1>5, Zenon DEF LedgerStep, u, v

\* What prepare does.
LEMMA PrepareSteps ==
  ASSUME BrokerTypeOK, NEW o \in Slots, NEW s \in Sigs, PrepareMove(o, s)
  PROVE  LedgerStep(o)
<1> DEFINE r == RunOf[o]
           n == usage[r]["calls"]
<1>0. r \in Runs /\ usage \in [Runs -> [Counters -> Nat]]
  BY SlotRuns DEF BrokerTypeOK
<1>1. phase[o] = "idle" /\ before'[o] = <<n, Classified(usage[r])>> /\ n \in Nat
      /\ ~Owing(o) /\ phase[o] \notin Dispatched
  BY <1>0, SumsAreNatural DEF PrepareMove, Owing, Unclassified, Dispatched, PrepPhases, ExecPhases
<1>2. CASE PrepareRefused(o)
  <2>1. /\ phase'[o] \in {"prepErr", "limit"} /\ usage' = usage /\ ~PreDispatchErrorCounts(o)'
    BY <1>1, <1>2 DEF PrepareRefused, PreDispatchErrorCounts
  <2>2. ~Owing(o)' /\ phase'[o] \notin Dispatched \cup PrepPhases
    BY <2>1 DEF Owing, Unclassified, Dispatched, PrepPhases, ExecPhases
  <2> QED BY <1>0, <1>1, <2>1, <2>2, StillStep
<1>3. CASE PrepareUnknown(o) \/ AdmittedCall(o, s)
  <2>1. phase'[o] \in {"prepErr", "policy"} /\ Bump(r, {"calls"})
    BY <1>3 DEF PrepareUnknown, AdmittedCall
  <2>2. usage'[r]["calls"] = n + 1 /\ Classified(usage'[r]) = Classified(usage[r])
    BY <1>0, <2>1, BumpOpens
  <2>3. PreDispatchErrorCounts(o)'
    BY <1>1, <2>2 DEF PreDispatchErrorCounts
  <2> QED BY <1>0, <1>1, <2>1, <2>3, CountedStep DEF Unclassified, PrepPhases
<1>4. CASE PrepareResolved(o)
  BY <1>0, <1>1, <1>4, AnsweredStep DEF PrepareResolved
<1> QED BY <1>2, <1>3, <1>4 DEF PrepareMove

LEMMA DeferSteps ==
  ASSUME BrokerTypeOK, NEW o \in Slots, DeferMove(o)
  PROVE  LedgerStep(o)
<1>0. RunOf[o] \in Runs /\ usage \in [Runs -> [Counters -> Nat]] /\ AnySig \in Sigs
      /\ phase \in [Slots -> Phase]
  BY SlotRuns, AnySigInSigs DEF BrokerTypeOK
<1>1. CASE PrepareMove(o, AnySig)
  BY <1>0, <1>1, PrepareSteps
<1>2. CASE Admitting(o, AnySig) /\ Bump(RunOf[o], {"calls"}) /\ phase' = [phase EXCEPT ![o] = "ready"]
  <2>1. phase[o] = "idle" /\ phase'[o] = "ready"
    BY <1>0, <1>2 DEF Admitting, Preparing
  <2> QED BY <1>0, <1>2, <2>1, CountedStep
          DEF Owing, Unclassified, Dispatched, PrepPhases, ExecPhases
<1> QED BY <1>1, <1>2 DEF DeferMove

\* Revalidation takes up a call that is counted already.
LEMMA RevalidateSteps ==
  ASSUME BrokerTypeOK, NEW r \in Runs, NEW i \in Nodes, NEW s \in Sigs, Revalidated(r, i, s),
         phase[Node(r, i)] = "ready", usage[r]["calls"] > 0
  PROVE  LedgerStep(Node(r, i))
<1> DEFINE o == Node(r, i)
<1>0. o \in Slots /\ RunOf[o] = r /\ usage \in [Runs -> [Counters -> Nat]]
  BY NodeSlots DEF BrokerTypeOK
<1>1. before'[o] = <<0, Classified(usage[r])>>
  BY DEF Revalidated
<1>2. Owing(o) /\ phase[o] \notin Dispatched
  BY DEF Owing, Unclassified, Dispatched, PrepPhases, ExecPhases
<1>3. \/ phase'[o] \in {"prepErr", "policy", "ready"} /\ usage' = usage
      \/ phase'[o] \in {"reused", "limit"} /\ (Bump(r, {"reused"}) \/ Bump(r, {"rejected"}))
  BY DEF Revalidated
<1> HIDE DEF o
<1>4. CASE phase'[o] \in {"prepErr", "policy", "ready"} /\ usage' = usage
  <2>1. PreDispatchErrorCounts(o)'
    BY <1>0, <1>1, <1>4 DEF PreDispatchErrorCounts
  <2>2. Owing(o)' /\ phase'[o] \notin Dispatched
    BY <1>4, <2>1 DEF Owing, Unclassified, Dispatched, PrepPhases, ExecPhases
  <2> QED BY <1>0, <1>2, <1>4, <2>1, <2>2, StillStep DEF o
<1>5. CASE phase'[o] \in {"reused", "limit"} /\ (Bump(r, {"reused"}) \/ Bump(r, {"rejected"}))
  BY <1>0, <1>2, <1>5, ClassifiedStep DEF o
<1> QED BY <1>3, <1>4, <1>5 DEF o

\* Authorization, dispatch and execution.
LEMMA SlotSteps ==
  ASSUME BrokerTypeOK, NEW o \in Slots, SlotMove(o), phase[o] \in PrepPhases => PreDispatchErrorCounts(o)
  PROVE  LedgerStep(o)
<1>0. RunOf[o] \in Runs /\ usage \in [Runs -> [Counters -> Nat]] /\ before' = before
  BY SlotRuns DEF BrokerTypeOK, SlotMove
<1> USE DEF Owing, Unclassified, Dispatched, PrepPhases, ExecPhases
<1>1. CASE SlotAuthorizes(o)
  <2>1. usage' = usage /\ phase'[o] \in {"approval", "ready", "prepErr"} /\ phase[o] \in PrepPhases
    BY <1>1 DEF SlotAuthorizes, ledgerVars
  <2>2. PreDispatchErrorCounts(o)'
    BY <1>0, <2>1 DEF PreDispatchErrorCounts
  <2> QED BY <1>0, <2>1, <2>2, StillStep
<1>2. CASE SlotDenied(o)
  BY <1>0, <1>2, ClassifiedStep DEF SlotDenied
<1>3. CASE SlotDispatches(o)
  BY <1>0, <1>3, IssuedStep DEF SlotDispatches
<1>4. CASE SlotGivesUp(o) \/ SlotWaits(o) \/ SlotBegins(o) \/ SlotGraces(o) \/ SlotSucceeds(o) \/ SlotFails(o)
  <2>1. phase[o] \in Dispatched /\ phase'[o] \in Dispatched /\ UNCHANGED usage
    BY <1>4 DEF SlotGivesUp, SlotWaits, SlotBegins, SlotGraces, SlotSucceeds, SlotFails, AtTool,
       ledgerVars
  <2> QED BY <1>0, <2>1, StillStep
<1> QED BY <1>1, <1>2, <1>3, <1>4 DEF SlotMove

\* A call that is over is recorded.
LEMMA RecordSteps ==
  ASSUME BrokerTypeOK, NEW o \in Slots, RecordMove(o), phase'[o] = "idle"
  PROVE  LedgerStep(o)
<1>0. RunOf[o] \in Runs /\ usage \in [Runs -> [Counters -> Nat]]
  BY SlotRuns DEF BrokerTypeOK
<1> USE DEF Owing, Unclassified, Dispatched, PrepPhases, ExecPhases
<1>1. CASE phase[o] \in {"rejected", "reused", "limit"} /\ UNCHANGED ledgerVars
  BY <1>0, <1>1, StillStep DEF ledgerVars
<1>2. CASE RecordPreDispatchError(o)
  <2>1. CASE PreDispatchErrorCounts(o)
    <3>1. phase[o] = "prepErr" /\ (Bump(RunOf[o], {"aborted"}) \/ Bump(RunOf[o], {"rejected"}))
      BY <1>2, <2>1 DEF RecordPreDispatchError
    <3> QED BY <1>0, <2>1, <3>1, ClassifiedStep
  <2>2. CASE ~PreDispatchErrorCounts(o)
    <3>1. phase[o] = "prepErr" /\ usage' = usage
      BY <1>2, <2>2 DEF RecordPreDispatchError
    <3> QED BY <1>0, <2>2, <3>1, StillStep
  <2> QED BY <2>1, <2>2
<1>3. CASE RecordExecution(o) \/ RecordExecutionError(o)
  <2>1. /\ phase[o] \in Dispatched
        /\ \E c \in {"completed", "failed", "cancelled"} : Bump(RunOf[o], {c})
    BY <1>3 DEF RecordExecution, RecordExecutionError
  <2> QED BY <1>0, <2>1, SettledStep
<1> QED BY <1>1, <1>2, <1>3 DEF RecordMove

-----------------------------------------------------------------------------
\* Sets that agree but for one element.
LEMMA OneElement ==
  ASSUME NEW S, NEW T, NEW k, IsFiniteSet(S), IsFiniteSet(T), S \ {k} = T \ {k}
  PROVE  /\ Cardinality(S) \in Nat /\ Cardinality(T) \in Nat
         /\ Cardinality(T) + (IF k \in S THEN 1 ELSE 0) = Cardinality(S) + (IF k \in T THEN 1 ELSE 0)
<1> DEFINE R == S \ {k}
<1>1. IsFiniteSet(R) /\ Cardinality(R) \in Nat
  BY FS_RemoveElement, FS_CardinalityType
<1>2. k \notin R
  OBVIOUS
<1>3. S = IF k \in S THEN R \cup {k} ELSE R
  OBVIOUS
<1>4. T = IF k \in T THEN R \cup {k} ELSE R
  OBVIOUS
<1>5. Cardinality(R \cup {k}) = Cardinality(R) + 1
  BY <1>1, <1>2, FS_AddElement
<1> HIDE DEF R
<1>6. Cardinality(S) = IF k \in S THEN Cardinality(R) + 1 ELSE Cardinality(R)
  <2>1. CASE k \in S
    <3>1. Cardinality(S) = Cardinality(R \cup {k})
      BY <1>3, <2>1
    <3> QED BY <1>5, <2>1, <3>1
  <2>2. CASE k \notin S
    <3>1. S = R
      BY <1>3, <2>2
    <3> QED BY <2>2, <3>1
  <2> QED BY <2>1, <2>2
<1>7. Cardinality(T) = IF k \in T THEN Cardinality(R) + 1 ELSE Cardinality(R)
  <2>1. CASE k \in T
    <3>1. Cardinality(T) = Cardinality(R \cup {k})
      BY <1>4, <2>1
    <3> QED BY <1>5, <2>1, <3>1
  <2>2. CASE k \notin T
    <3>1. T = R
      BY <1>4, <2>2
    <3> QED BY <2>2, <3>1
  <2> QED BY <2>1, <2>2
<1> QED BY <1>1, <1>6, <1>7

LEMMA CountsAreFinite ==
  ASSUME NEW S \in SUBSET (0..MaxNodes)
  PROVE  IsFiniteSet(S) /\ Cardinality(S) \in Nat
<1>1. IsFiniteSet(0..MaxNodes)
  BY PlanAssumption, FS_Interval
<1> QED BY <1>1, FS_Subset, FS_CardinalityType

LEMMA SlotIndex ==
  ASSUME NEW r \in Runs
  PROVE  /\ \A i \in 0..MaxNodes : <<r, i>> \in Slots /\ RunOf[<<r, i>>] = r
         /\ \A o \in Slots : RunOf[o] = r => \E i \in 0..MaxNodes : o = <<r, i>>
         /\ \A i, j \in 0..MaxNodes : <<r, i>> = <<r, j>> => i = j
BY PlanAssumption

\* A step of one call, while nothing else of the run is being decided.
LEMMA OneCallKeepsLedger ==
  ASSUME Domains, Domains', NEW r \in Runs, Led(r), NEW o \in Slots, RunOf[o] = r, Calm(o), OneSlot(o),
         dropped'[r] = dropped[r], LedgerStep(o)
  PROVE  Led(r)'
<1>0. /\ usage \in [Runs -> [Counters -> Nat]] /\ usage' \in [Runs -> [Counters -> Nat]]
      /\ dropped[r] \in Nat
  BY DEF Domains, BrokerTypeOK
<1>1. PICK k \in 0..MaxNodes : o = <<r, k>>
  BY SlotIndex
<1>2. \A p \in Slots \ {o} : RunOf[p] = r => phase[p] \in Quiet \cup Dispatched /\ SameSlot(p)
  BY DEF Calm, OneSlot
<1>3. ASSUME NEW p \in Slots \ {o}, RunOf[p] = r
      PROVE  Owing(p)' <=> Owing(p)
  BY <1>2, <1>3 DEF Owing, SameSlot, Quiet, Dispatched, Unclassified, PrepPhases, ExecPhases
<1>4. \A i \in (0..MaxNodes) \ {k} : <<r, i>> \in Slots \ {o} /\ RunOf[<<r, i>>] = r
  BY <1>1, SlotIndex
<1>5. Owed(r) \ {k} = Owed(r)' \ {k}
  BY <1>3, <1>4 DEF Owed
<1>6. InHand(r) \ {k} = InHand(r)' \ {k}
  BY <1>2, <1>4 DEF InHand, SameSlot
<1>7. /\ k \in Owed(r) <=> Owing(o)
      /\ k \in Owed(r)' <=> Owing(o)'
      /\ k \in InHand(r) <=> phase[o] \in Dispatched
      /\ k \in InHand(r)' <=> phase'[o] \in Dispatched
  BY <1>1 DEF Owed, InHand
<1>8. IsFiniteSet(Owed(r)) /\ IsFiniteSet(Owed(r)') /\ IsFiniteSet(InHand(r)) /\ IsFiniteSet(InHand(r)')
  <2>1. /\ Owed(r) \in SUBSET (0..MaxNodes) /\ Owed(r)' \in SUBSET (0..MaxNodes)
        /\ InHand(r) \in SUBSET (0..MaxNodes) /\ InHand(r)' \in SUBSET (0..MaxNodes)
    BY DEF Owed, InHand
  <2> QED BY <2>1, CountsAreFinite
<1> DEFINE n == Cardinality(Owed(r))
           n1 == Cardinality(Owed(r)')
           h == Cardinality(InHand(r))
           h1 == Cardinality(InHand(r)')
           c == usage[r]["calls"]
           c1 == usage'[r]["calls"]
           i == usage[r]["issued"]
           i1 == usage'[r]["issued"]
           q == Classified(usage[r])
           q1 == Classified(usage'[r])
           s == Settled(usage[r])
           s1 == Settled(usage'[r])
           w == Owes(o)
           w1 == Owes(o)'
           v == Holds(o)
           v1 == Holds(o)'
           d == dropped[r]
<1>9. n \in Nat /\ n1 \in Nat /\ n1 + w = n + w1 /\ w \in {0, 1} /\ w1 \in {0, 1}
  <2>1. /\ n \in Nat /\ n1 \in Nat
        /\ n1 + (IF k \in Owed(r) THEN 1 ELSE 0) = n + (IF k \in Owed(r)' THEN 1 ELSE 0)
    BY <1>5, <1>8, OneElement
  <2>2. w = (IF k \in Owed(r) THEN 1 ELSE 0) /\ w1 = (IF k \in Owed(r)' THEN 1 ELSE 0)
    BY <1>7, Zenon DEF Owes
  <2> HIDE DEF n, n1, w, w1
  <2> QED BY <2>1, <2>2
<1>10. h \in Nat /\ h1 \in Nat /\ h1 + v = h + v1 /\ v \in {0, 1} /\ v1 \in {0, 1}
  <2>1. /\ h \in Nat /\ h1 \in Nat
        /\ h1 + (IF k \in InHand(r) THEN 1 ELSE 0) = h + (IF k \in InHand(r)' THEN 1 ELSE 0)
    BY <1>6, <1>8, OneElement
  <2>2. v = (IF k \in InHand(r) THEN 1 ELSE 0) /\ v1 = (IF k \in InHand(r)' THEN 1 ELSE 0)
    BY <1>7, Zenon DEF Holds
  <2> HIDE DEF h, h1, v, v1
  <2> QED BY <2>1, <2>2
<1>11. /\ c \in Nat /\ c1 \in Nat /\ i \in Nat /\ i1 \in Nat
       /\ q \in Nat /\ q1 \in Nat /\ s \in Nat /\ s1 \in Nat /\ d \in Nat
  <2>1. c \in Nat /\ i \in Nat /\ q \in Nat /\ s \in Nat
    BY <1>0, SumsAreNatural
  <2>2. \A u \in [Counters -> Nat] : u["calls"] \in Nat /\ u["issued"] \in Nat /\ Classified(u) \in Nat
                                     /\ Settled(u) \in Nat
    BY DEF Counters, Classified, Settled
  <2> QED BY <1>0, <2>1, <2>2
<1>12. /\ c = q + d + n /\ i = s + h
       /\ c1 + q + w = c + q1 + w1
       /\ i1 + s + v = i + s1 + v1
  BY DEF Led, LedgerStep
<1>13. c1 = q1 + d + n1 /\ i1 = s1 + h1
  <2> HIDE DEF n, n1, h, h1, c, c1, i, i1, q, q1, s, s1, w, w1, v, v1, d
  <2>1. c1 = q1 + d + n1
    BY <1>9, <1>11, <1>12, SMTT(60)
  <2>2. i1 = s1 + h1
    BY <1>10, <1>11, <1>12, SMTT(60)
  <2> QED BY <2>1, <2>2
<1>14. ASSUME NEW p \in Slots, RunOf[p] = r
       PROVE  /\ phase'[p] \in PrepPhases => PreDispatchErrorCounts(p)'
              /\ phase'[p] \notin Quiet \cup Dispatched => Calm(p)'
  <2>1. CASE p = o
    <3>1. Calm(o)'
      BY <1>2 DEF Calm, SameSlot
    <3>2. phase'[o] \in PrepPhases => PreDispatchErrorCounts(o)'
      BY DEF LedgerStep
    <3> QED BY <2>1, <3>1, <3>2
  <2>2. CASE p # o
    <3>1. phase'[p] \in Quiet \cup Dispatched
      BY <1>2, <1>14, <2>2 DEF SameSlot
    <3> QED BY <3>1 DEF Quiet, Dispatched, PrepPhases, ExecPhases
  <2> QED BY <2>1, <2>2
<1> QED BY <1>13, <1>14 DEF Led

\* A prepared call is on the ledger.
LEMMA PreparedIsCounted ==
  ASSUME Domains, NEW r \in Runs, Led(r), NEW i \in Nodes, phase[Node(r, i)] = "ready"
  PROVE  usage[r]["calls"] > 0
<1>1. i \in Owed(r) /\ Owed(r) \in SUBSET (0..MaxNodes)
  BY PlanAssumption DEF Owed, Owing, Unclassified, Node, Nodes
<1>2. Cardinality(Owed(r)) \in Nat /\ Cardinality(Owed(r)) # 0
  BY <1>1, CountsAreFinite, FS_EmptySet
<1>3. usage[r]["calls"] \in Nat /\ Classified(usage[r]) \in Nat /\ dropped[r] \in Nat
  BY SumsAreNatural DEF Domains, BrokerTypeOK
<1>4. usage[r]["calls"] = Classified(usage[r]) + dropped[r] + Cardinality(Owed(r))
  BY DEF Led
<1> DEFINE n == Cardinality(Owed(r))
           c == Classified(usage[r])
<1> HIDE DEF n, c
<1> QED BY <1>2, <1>3, <1>4 DEF n, c

LEMMA NodesAreCalm ==
  ASSUME NEW r \in Runs, phase[Direct(r)] = "idle",
         \A j \in Nodes : phase[Node(r, j)] \in Quiet \cup Dispatched, NEW o \in Slots, RunOf[o] = r
  PROVE  Calm(o)
<1>1. "idle" \in Quiet
  BY DEF Quiet
<1> QED BY <1>1, NodeSlots DEF Calm

LEMMA NodeMoveKeepsLedger ==
  ASSUME Domains, Domains', NEW r \in Runs, Shape(r), Led(r), NEW i \in Nodes, NodeMove(r, i)
  PROVE  Led(r)'
<1> DEFINE o == Node(r, i)
<1>0. /\ o \in Slots /\ RunOf[o] = r /\ BrokerTypeOK /\ OneSlot(o)
      /\ phase[Direct(r)] = "idle" /\ UNCHANGED dropped
  BY NodeSlots, NodeMoveSlot, NodeMoveFrame DEF Domains
<1>1. \A j \in Nodes : phase[Node(r, j)] \in Quiet \cup Dispatched
  BY DEF NodeMove, PreflightMove, GateMove, WaveMove, ReuseMove, RecordNodeMove, Passed, Quiet, Shape,
     Places
<1>2. Calm(o)
  BY <1>0, <1>1, NodesAreCalm
<1>3. LedgerStep(o)
  <2>1. CASE PreflightMove(r, i)
    <3>1. plan[r].sigs[i] \subseteq Sigs
      BY PlanParts DEF Domains
    <3> QED BY <1>0, <2>1, <3>1, PrepareSteps, DeferSteps DEF PreflightMove
  <2>2. CASE GateMove(r, i) \/ WaveMove(r, i)
    <3>1. phase[o] = "ready"
      BY <2>2 DEF GateMove, WaveMove, Shape, Loops
    <3>2. PICK s \in Sigs : Revalidate(r, i, s)
      BY <2>2, BoundToSigs DEF GateMove, WaveMove
    <3> QED BY <1>0, <3>1, <3>2, RevalidateMoves, PreparedIsCounted, RevalidateSteps
  <2>3. CASE ReuseMove(r, i)
    <3>1. phase'[o] = "idle" /\ RecordMove(o)
      BY <1>0, <2>3, FreeIsOneSlot DEF ReuseMove, RecordMove
    <3> QED BY <1>0, <3>1, RecordSteps
  <2>4. CASE RecordNodeMove(r, i)
    <3>1. phase'[o] = "idle" /\ RecordMove(o)
      BY <1>0, <2>4, FreeIsOneSlot DEF RecordNodeMove, RecordMove
    <3> QED BY <1>0, <3>1, RecordSteps
  <2> QED BY <2>1, <2>2, <2>3, <2>4 DEF NodeMove
<1> QED BY <1>0, <1>2, <1>3, OneCallKeepsLedger

LEMMA DirectKeepsLedger ==
  ASSUME Domains, Domains', NEW r \in Runs, Shape(r), Led(r), TakeCallMove(r) \/ CallEndsMove(r)
  PROVE  Led(r)'
<1> DEFINE o == Direct(r)
<1>0. o \in Slots /\ RunOf[o] = r /\ BrokerTypeOK /\ UNCHANGED dropped
  BY NodeSlots DEF Domains, TakeCallMove, CallEndsMove, planVars
<1>1. \A j \in Nodes : phase[Node(r, j)] = "idle"
  <2>1. pc[r] \notin Planning
    BY DEF TakeCallMove, Planning, CallEndsMove, Shape, Places, RecordMove, RecordPreDispatchError,
       RecordExecution, RecordExecutionError
  <2> QED BY <2>1 DEF Shape, Places, Fresh
<1>2. Calm(o)
  BY <1>1, NodeSlots DEF Calm, Quiet
<1>3. OneSlot(o)
  BY <1>0, PrepareIsOneSlot, FreeIsOneSlot DEF TakeCallMove, CallEndsMove
<1>4. LedgerStep(o)
  BY <1>0, PrepareSteps, FreeIsOneSlot, RecordSteps DEF TakeCallMove, CallEndsMove
<1> QED BY <1>0, <1>2, <1>3, <1>4, OneCallKeepsLedger

LEMMA BrokerKeepsLedger ==
  ASSUME Domains, Domains', NEW r \in Runs, Shape(r), Led(r), NEW o \in Slots, BrokerMove(r, o)
  PROVE  Led(r)'
<1>0. RunOf[o] = r /\ SlotMove(o) /\ OneSlot(o) /\ BrokerTypeOK /\ UNCHANGED dropped
  BY SlotIsOneSlot DEF BrokerMove, planVars, Domains
<1>1. phase[o] \in PrepPhases \cup {"ready"} \cup Dispatched
  BY <1>0 DEF SlotMove, SlotAuthorizes, SlotDenied, SlotDispatches, SlotGivesUp, SlotWaits, SlotBegins,
     SlotGraces, SlotSucceeds, SlotFails, PrepPhases, Dispatched, ExecPhases, AtTool
<1>2. Calm(o)
  <2>1. CASE phase[o] \in PrepPhases
    <3>1. phase[o] \notin Quiet \cup Dispatched
      BY <2>1 DEF Quiet, Dispatched, PrepPhases, ExecPhases
    <3> QED BY <1>0, <3>1 DEF Led
  <2>2. CASE o = Direct(r)
    <3>1. pc[r] = "calls"
      BY <1>1, <2>2 DEF Shape, Places, PrepPhases, Dispatched, ExecPhases
    <3>2. \A j \in Nodes : phase[Node(r, j)] = "idle"
      BY <3>1 DEF Shape, Places, Planning, Fresh
    <3> QED BY <2>2, <3>2, NodeSlots DEF Calm, Quiet
  <2>3. CASE phase[o] \notin PrepPhases /\ o # Direct(r)
    <3>1. PICK i \in Nodes : o = Node(r, i)
      BY <1>0, <2>3, NodeSlots
    <3>2. pc[r] = "execute"
      BY <1>1, <2>3, <3>1 DEF BrokerMove, Shape, Places
    <3>3. phase[Direct(r)] = "idle" /\ \A j \in Nodes : phase[Node(r, j)] \in Quiet \cup Dispatched
      BY <3>2 DEF Shape, Places
    <3> QED BY <1>0, <3>3, NodesAreCalm
  <2> QED BY <2>1, <2>2, <2>3
<1>3. LedgerStep(o)
  BY <1>0, SlotSteps DEF Led
<1> QED BY <1>0, <1>2, <1>3, OneCallKeepsLedger

\* While a plan is executed, all that counts is in its nodes.
LEMMA NodesCount ==
  ASSUME NEW r \in Runs, phase[Direct(r)] = "idle"
  PROVE  /\ Owed(r) = {i \in Nodes : Owing(Node(r, i))}
         /\ InHand(r) = {i \in Nodes : phase[Node(r, i)] \in Dispatched}
<1>1. Nodes \subseteq 0..MaxNodes /\ \A i \in 0..MaxNodes : i = 0 \/ i \in Nodes
  BY PlanAssumption DEF Nodes
<1>2. ~Owing(<<r, 0>>) /\ phase[<<r, 0>>] \notin Dispatched
  BY DEF Direct, Owing, Unclassified, Dispatched, PrepPhases, ExecPhases
<1> QED BY <1>1, <1>2, Zenon DEF Owed, InHand, Node

\* A plan that is given up leaves the calls it had prepared to finalize_usage.
LEMMA GoneKeepsLedger ==
  ASSUME Domains, Domains', NEW r \in Runs, Shape(r), Led(r), GoneMove(r)
  PROVE  Led(r)'
<1> DEFINE R == {i \in Nodes : phase[Node(r, i)] = "ready"}
<1>0. /\ PlanGone(r) /\ pc[r] \in Planning /\ phase[Direct(r)] = "idle"
      /\ dropped'[r] = dropped[r] + Cardinality(R) /\ BrokerTypeOK
      /\ usage \in [Runs -> [Counters -> Nat]] /\ usage' \in [Runs -> [Counters -> Nat]]
      /\ dropped[r] \in Nat
  <2>1. PlanGone(r)
    BY Zenon DEF GoneMove, QuietlyGone, FailsGone, SucceedsMove
  <2>2. pc[r] \in Planning
    BY <2>1 DEF PlanGone
  <2>5. phase[Direct(r)] = "idle"
    BY <2>2 DEF Shape, Places, Planning
  <2>3. /\ BrokerTypeOK /\ usage \in [Runs -> [Counters -> Nat]] /\ usage' \in [Runs -> [Counters -> Nat]]
        /\ dropped \in [Runs -> Nat] /\ dropped' \in [Runs -> Nat]
    BY DEF Domains, BrokerTypeOK
  <2>4. dropped'[r] = dropped[r] + Cardinality(R)
    BY <2>1, <2>3 DEF PlanGone, DropPlan
  <2> QED BY <2>1, <2>2, <2>3, <2>4, <2>5
<1>1. \A o \in Slots : RunOf[o] = r => phase'[o] = "idle"
  BY <1>0, DropFreesSlots DEF PlanGone
<1>2. Owed(r)' = {} /\ InHand(r)' = {}
  BY <1>1, SlotIndex DEF Owed, InHand, Owing, Unclassified, Dispatched, PrepPhases, ExecPhases
<1>3. Cardinality(Owed(r)') = 0 /\ Cardinality(InHand(r)') = 0 /\ Cardinality(R) \in Nat
      /\ IsFiniteSet(R)
  <2>1. R \in SUBSET Nodes
    OBVIOUS
  <2> HIDE DEF R
  <2> QED BY <1>2, <2>1, FS_EmptySet, NodesAreFinite
<1>4. \A o \in Slots : RunOf[o] = r =>
        /\ phase'[o] \in PrepPhases => PreDispatchErrorCounts(o)'
        /\ phase'[o] \notin Quiet \cup Dispatched => Calm(o)'
  BY <1>1 DEF PrepPhases, Quiet
<1>5. ASSUME NEW k \in Nodes, \A j \in Nodes \ {k} : phase[Node(r, j)] \in Quiet,
             phase[Node(r, k)] \notin Dispatched, ~Owing(Node(r, k)) \/ phase[Node(r, k)] = "ready"
      PROVE  Owed(r) = R /\ InHand(r) = {}
  BY <1>0, <1>5, NodesCount DEF Owing, Quiet, Unclassified, Dispatched, PrepPhases, ExecPhases
<1>6. ASSUME UNCHANGED usage, Owed(r) = R, InHand(r) = {} PROVE Led(r)'
  <2>1. /\ usage[r]["calls"] = Classified(usage[r]) + dropped[r] + Cardinality(R)
        /\ usage[r]["issued"] = Settled(usage[r]) + 0
    BY <1>6, FS_EmptySet DEF Led
  <2>2. Classified(usage[r]) \in Nat /\ Settled(usage[r]) \in Nat
    BY <1>0, SumsAreNatural
  <2>3. /\ usage'[r]["calls"] = Classified(usage'[r]) + dropped'[r] + 0
        /\ usage'[r]["issued"] = Settled(usage'[r]) + 0
    <3> DEFINE n == Cardinality(R)
               c == Classified(usage[r])
    <3>1. n \in Nat /\ c \in Nat /\ dropped'[r] = dropped[r] + n /\ usage[r]["calls"] = c + dropped[r] + n
      BY <1>0, <1>3, <2>1, <2>2
    <3>2. usage'[r]["calls"] = usage[r]["calls"] /\ Classified(usage'[r]) = c
      BY <1>6
    <3> HIDE DEF n, c, R
    <3>3. usage[r]["calls"] = c + dropped'[r] + 0
      BY <1>0, <3>1
    <3> QED BY <1>6, <2>1, <3>2, <3>3
  <2> QED BY <1>3, <1>4, <2>3 DEF Led
<1>7. CASE QuietlyGone(r) \/ SucceedsMove(r)
  <2>1. UNCHANGED usage
    BY <1>7 DEF QuietlyGone, SucceedsMove
  <2>2. \A j \in Nodes : phase[Node(r, j)] \in Quiet
    BY <1>7 DEF QuietlyGone, SucceedsMove, Shape, Places, Loops, Passed, Quiet
  <2>3. Owed(r) = R /\ InHand(r) = {}
    BY <1>0, <2>2, NodesCount DEF Owing, Quiet, Unclassified, Dispatched, PrepPhases, ExecPhases
  <2> QED BY <1>6, <2>1, <2>3
<1>8. ASSUME NEW k \in Nodes, phase[Node(r, k)] \in {"limit", "rejected", "prepErr"}
      PROVE  \A j \in Nodes \ {k} : phase[Node(r, j)] \in Quiet
  <2>1. phase[Node(r, k)] \notin Quiet \cup Dispatched /\ Node(r, k) \in Slots /\ RunOf[Node(r, k)] = r
    BY <1>8, NodeSlots DEF Quiet, Dispatched, ExecPhases
  <2>2. pc[r] # "execute"
    BY <2>1 DEF Shape, Places
  <2>3. Calm(Node(r, k))
    BY <2>1 DEF Led
  <2>4. ASSUME NEW j \in Nodes \ {k} PROVE phase[Node(r, j)] \in Quiet \cup Dispatched
    BY <2>1, <2>3, NodeSlots DEF Calm
  <2> QED BY <2>2, <2>4 DEF Shape, Places
<1>9. ASSUME NEW k \in Nodes, phase[Node(r, k)] \in {"limit", "rejected"}, UNCHANGED usage
       PROVE  Led(r)'
  <2>1. phase[Node(r, k)] \notin Dispatched /\ ~Owing(Node(r, k))
    BY <1>9 DEF Owing, Unclassified, Dispatched, PrepPhases, ExecPhases
  <2> QED BY <1>5, <1>6, <1>8, <1>9, <2>1
<1>10. ASSUME NEW k \in Nodes, RecordPreDispatchError(Node(r, k))
       PROVE  Led(r)'
  <2> DEFINE o == Node(r, k)
  <2>1. phase[o] = "prepErr" /\ o \in Slots /\ RunOf[o] = r
    BY <1>10, NodeSlots DEF RecordPreDispatchError
  <2>2. \A j \in Nodes \ {k} : phase[Node(r, j)] \in Quiet
    BY <1>8, <2>1
  <2>3. CASE ~PreDispatchErrorCounts(o)
    <3>1. UNCHANGED usage
      BY <1>10, <2>3 DEF RecordPreDispatchError
    <3>2. phase[o] \notin Dispatched /\ ~Owing(o)
      BY <2>1, <2>3 DEF Owing, Unclassified, Dispatched, PrepPhases, ExecPhases
    <3> QED BY <1>5, <1>6, <2>2, <3>1, <3>2
  <2>4. CASE PreDispatchErrorCounts(o)
    <3>1. Bump(r, {"aborted"}) \/ Bump(r, {"rejected"})
      BY <1>10, <2>1, <2>4 DEF RecordPreDispatchError
    <3>2. /\ usage'[r]["calls"] = usage[r]["calls"] /\ usage'[r]["issued"] = usage[r]["issued"]
          /\ Classified(usage'[r]) = Classified(usage[r]) + 1 /\ Settled(usage'[r]) = Settled(usage[r])
          /\ Classified(usage[r]) \in Nat /\ Settled(usage[r]) \in Nat
      BY <1>0, <3>1, BumpClassifies, SumsAreNatural
    <3>3. Owed(r) = R \cup {k} /\ k \notin R /\ InHand(r) = {}
      BY <1>0, <2>1, <2>2, <2>4, NodesCount
         DEF Owing, Quiet, Unclassified, Dispatched, PrepPhases, ExecPhases
    <3>4. Cardinality(Owed(r)) = Cardinality(R) + 1 /\ Cardinality(InHand(r)) = 0
      <4> HIDE DEF R
      <4> QED BY <1>3, <3>3, FS_AddElement, FS_EmptySet
    <3>5. /\ usage[r]["calls"] = Classified(usage[r]) + dropped[r] + Cardinality(Owed(r))
          /\ usage[r]["issued"] = Settled(usage[r]) + Cardinality(InHand(r))
      BY DEF Led
    <3>6. /\ usage'[r]["calls"] = Classified(usage'[r]) + dropped'[r] + 0
          /\ usage'[r]["issued"] = Settled(usage'[r]) + 0
      <4> DEFINE n == Cardinality(R)
                 m == Cardinality(Owed(r))
                 h == Cardinality(InHand(r))
                 c == Classified(usage[r])
                 c1 == Classified(usage'[r])
                 d == dropped[r]
                 d1 == dropped'[r]
                 u == usage'[r]["calls"]
      <4>1. n \in Nat /\ m = n + 1 /\ h = 0 /\ c \in Nat /\ c1 = c + 1 /\ d \in Nat /\ d1 = d + n
            /\ u = c + d + m
        BY <1>0, <1>3, <3>2, <3>4, <3>5
      <4>2. usage'[r]["issued"] = Settled(usage'[r]) + h
        BY <3>2, <3>5
      <4> HIDE DEF n, m, h, c, c1, d, d1, u, R
      <4>3. u = c1 + d1 + 0
        BY <4>1
      <4> QED BY <4>1, <4>2, <4>3 DEF c1, d1, u
    <3> QED BY <1>3, <1>4, <3>6 DEF Led
  <2> QED BY <2>3, <2>4
<1>11. CASE FailsGone(r)
  BY <1>9, <1>10, <1>11 DEF FailsGone
<1> QED BY <1>7, <1>11 DEF GoneMove

\* A step that leaves the calls and the counters of a run alone.
LEMMA SameKeepsLedger ==
  ASSUME NEW r \in Runs, Led(r), usage'[r] = usage[r], dropped'[r] = dropped[r],
         \A o \in Slots : RunOf[o] = r => phase'[o] = phase[o] /\ before'[o] = before[o]
  PROVE  Led(r)'
<1>1. \A o \in Slots : RunOf[o] = r => /\ PreDispatchErrorCounts(o)' <=> PreDispatchErrorCounts(o)
                                       /\ Calm(o)' <=> Calm(o)
  BY DEF PreDispatchErrorCounts, Calm
<1>2. Owed(r)' = Owed(r) /\ InHand(r)' = InHand(r)
  BY <1>1, SlotIndex DEF Owed, InHand, Owing
<1> QED BY <1>1, <1>2 DEF Led

LEMMA MoveKeepsLedgers ==
  ASSUME Domains, Domains', NEW r \in Runs, Shape(r), Led(r), Move(r)
  PROVE  Led(r)'
<1>1. ASSUME NEW i \in Nodes, NodeMove(r, i) PROVE Led(r)'
  BY <1>1, NodeMoveKeepsLedger
<1>2. ASSUME UNCHANGED <<usage, dropped, phase, before>> PROVE Led(r)'
  BY <1>2, SameKeepsLedger
<1>3. CASE ControlMove(r) \/ LoopMove(r) \/ StopStep(r)
  BY <1>2, <1>3 DEF ControlMove, LoopMove, ScheduleMove, AdvanceMove, DispatchMove, StopStep, Cancel,
     Expire, planVars, ledgerVars, slotVars
<1>4. ASSUME NEW p \in Plans, PlannerPlans(r, p) PROVE Led(r)'
  BY <1>2, <1>4 DEF PlannerPlans, OutOfBroker, ledgerVars, slotVars
<1> QED
  BY <1>1, <1>3, <1>4, GoneKeepsLedger, DirectKeepsLedger, BrokerKeepsLedger DEF Move

LedgerInv == ShapeInv /\ \A r \in Runs : Led(r)

LEMMA InitBalances == Init => LedgerInv
<1> SUFFICES ASSUME Init PROVE LedgerInv
  OBVIOUS
<1>1. ShapeInv
  BY InitIsShaped
<1>2. ASSUME NEW r \in Runs PROVE Led(r)
  <2>1. /\ \A o \in Slots : phase[o] = "idle"
        /\ dropped[r] = 0 /\ usage[r]["calls"] = 0 /\ usage[r]["issued"] = 0
        /\ Classified(usage[r]) = 0 /\ Settled(usage[r]) = 0
    BY DEF Init, BrokerInit, Classified, Settled, Counters
  <2>2. Owed(r) = {} /\ InHand(r) = {}
    BY <2>1, SlotIndex DEF Owed, InHand, Owing, Unclassified, Dispatched, PrepPhases, ExecPhases
  <2>3. Cardinality(Owed(r)) = 0 /\ Cardinality(InHand(r)) = 0
    BY <2>2, FS_EmptySet
  <2> QED BY <2>1, <2>3 DEF Led, PrepPhases, Quiet
<1> QED BY <1>1, <1>2 DEF LedgerInv

LEMMA LedgerStays == LedgerInv /\ [Next]_vars => LedgerInv'
<1> SUFFICES ASSUME LedgerInv, [Next]_vars PROVE LedgerInv'
  OBVIOUS
<1>0. ShapeInv /\ ShapeInv' /\ Domains /\ Domains'
  BY ShapeStep DEF LedgerInv, ShapeInv
<1>1. CASE UNCHANGED vars
  <2>1. UNCHANGED <<usage, dropped, phase, before>>
    BY <1>1 DEF vars, brokerVars, planVars
  <2> QED BY <1>0, <2>1, SameKeepsLedger DEF LedgerInv
<1>2. CASE Next
  <2>1. PICK r \in Runs : Move(r) /\ \A q \in Runs \ {r} : Untouched(q)
    BY <1>0, <1>2, NextMoves, StepMoves
  <2>2. Led(r)'
    BY <1>0, <2>1, MoveKeepsLedgers DEF LedgerInv, ShapeInv
  <2>3. ASSUME NEW q \in Runs \ {r} PROVE Led(q)'
    BY <2>1, SameKeepsLedger DEF LedgerInv, Untouched, SameLedger, SamePlan, SameSlots, SameSlot
  <2> QED BY <1>0, <2>2, <2>3 DEF LedgerInv
<1> QED BY <1>1, <1>2

(* However a run ends, what finalize_usage adds to its aborted calls is    *)
(* exactly the calls its plans prepared and gave up, and every call it     *)
(* issued is settled, for every plan, any number of calls in flight and    *)
(* every interleaving of them.                                             *)
THEOREM LedgersBalance == Safe => []LedgerBalances
<1>1. LedgerInv => LedgerBalances
  <2> SUFFICES ASSUME LedgerInv, NEW r \in Runs, pc[r] = "done"
               PROVE  /\ usage[r]["calls"] = Classified(usage[r]) + dropped[r]
                      /\ usage[r]["issued"] = Settled(usage[r])
    BY DEF LedgerBalances
  <2>1. \A o \in Slots : RunOf[o] = r => phase[o] = "idle"
    BY NodeSlots DEF LedgerInv, ShapeInv, Shape, Places, Fresh, Planning
  <2>2. Owed(r) = {} /\ InHand(r) = {}
    BY <2>1, SlotIndex DEF Owed, InHand, Owing, Unclassified, Dispatched, PrepPhases, ExecPhases
  <2>3. /\ usage[r]["calls"] = Classified(usage[r]) + dropped[r] + 0
        /\ usage[r]["issued"] = Settled(usage[r]) + 0
    BY <2>2, FS_EmptySet DEF LedgerInv, Led
  <2>4. Classified(usage[r]) \in Nat /\ Settled(usage[r]) \in Nat /\ dropped[r] \in Nat
    BY SumsAreNatural DEF LedgerInv, ShapeInv, Domains, BrokerTypeOK
  <2> QED BY <2>3, <2>4
<1> QED BY <1>1, InitBalances, LedgerStays, PTL DEF Safe

-----------------------------------------------------------------------------
(* The model call kept for the report on a plan.                           *)

Reserves(r) ==
  /\ pc[r] = "ask" /\ ask[r] \in Optional => CanSpend(r)
  /\ pc[r] = "model" /\ ask[r] \in Optional => HasCapacity(r)
  /\ pc[r] \in Planning => HasCapacity(r)

ReserveInv ==
  /\ pc \in [Runs -> Pc]
  /\ ask \in [Runs -> Ask]
  /\ modelCalls \in [Runs -> Nat]
  /\ \A r \in Runs : Reserves(r)

\* A step that leaves the control of the run and its meter alone.
LEMMA StayReserves ==
  ASSUME ReserveInv, UNCHANGED <<pc, ask, modelCalls>>
  PROVE  ReserveInv'
BY DEF ReserveInv, Reserves, CanSpend, HasCapacity

\* A step to another place than a request: into a plan only with a call left.
LEMMA MoveReserves ==
  ASSUME ReserveInv, NEW r \in Runs, NEW l \in Pc \ {"ask", "model"}, Goto(r, l),
         l \in Planning => HasCapacity(r), UNCHANGED <<ask, modelCalls>>
  PROVE  ReserveInv'
BY DEF ReserveInv, Reserves, CanSpend, HasCapacity, Goto, Planning

LEMMA FinishReserves ==
  ASSUME ReserveInv, NEW r \in Runs, NEW st, Finish(r, st), UNCHANGED askVars
  PROVE  ReserveInv'
BY MoveReserves DEF Finish, Pc, Planning, askVars

\* A request: an optional one only if another call is left for the synthesis.
LEMMA AskReserves ==
  ASSUME ReserveInv, NEW r \in Runs, NEW why \in Ask, AskFor(r, why),
         why \in Optional => CanSpend(r)
  PROVE  ReserveInv'
BY DEF ReserveInv, Reserves, CanSpend, HasCapacity, AskFor, Goto, Planning, Pc

LEMMA GoOnReserves ==
  ASSUME ReserveInv, NEW r \in Runs, NEW why \in Ask, GoOn(r, why),
         why \in Optional => CanSpend(r)
  PROVE  ReserveInv'
BY AskReserves, FinishReserves DEF GoOn

\* Sending the request and retrying it.
LEMMA RequestReserves ==
  ASSUME ReserveInv, NEW r \in Runs, SendRequest(r) \/ ModelRetries(r)
  PROVE  ReserveInv'
<1> USE PlanLimitAssumption DEF ReserveInv
<1>1. CASE SendRequest(r)
  <2>1. /\ pc[r] = "ask" /\ HasCapacity(r) /\ pc' = [pc EXCEPT ![r] = "model"]
        /\ modelCalls' = [modelCalls EXCEPT ![r] = modelCalls[r] + 1] /\ ask' = ask
    BY <1>1 DEF SendRequest, Goto
  <2>2. \A p \in Runs : Reserves(p)'
    BY <2>1 DEF Reserves, CanSpend, HasCapacity, Planning
  <2> QED BY <2>1, <2>2 DEF Pc
<1>2. CASE ModelRetries(r)
  BY <1>2 DEF ModelRetries, Goto, Reserves, CanSpend, HasCapacity, Planning, Pc
<1> QED BY <1>1, <1>2

\* How the execution of a plan ends.
LEMMA PlanTerminatesReserves ==
  ASSUME ReserveInv, NEW r \in Runs, NEW st, PlanTerminates(r, st)
  PROVE  ReserveInv'
BY FinishReserves DEF PlanTerminates

LEMMA PreflightFailedReserves ==
  ASSUME ReserveInv, NEW r \in Runs, PreflightFailed(r)
  PROVE  ReserveInv'
BY AskReserves, FinishReserves DEF PreflightFailed, Ask, Optional

LEMMA PlanFailedReserves ==
  ASSUME ReserveInv, NEW r \in Runs, PlanFailed(r)
  PROVE  ReserveInv'
BY GoOnReserves, FinishReserves DEF PlanFailed, MayRecover, Ask

\* A step that asks, executes or ends a plan.
LEMMA PlanReserves ==
  ASSUME ReserveInv, NEW r \in Runs,
         \/ PreflightNode(r) \/ PreflightFails(r) \/ PreflightPasses(r) \/ Schedule(r)
         \/ PlanSucceeds(r) \/ GateNode(r) \/ GateOpens(r) \/ GateFails(r) \/ WaveNode(r)
         \/ WaveNodeReused(r) \/ WaveFails(r) \/ Dispatch(r) \/ RecordNode(r) \/ WaveEnds(r)
  PROVE  ReserveInv'
<1>1. pc[r] \in Planning => HasCapacity(r)
  BY DEF ReserveInv, Reserves
<1>2. ASSUME NEW l \in Planning, pc[r] \in Planning, Goto(r, l), UNCHANGED askVars
      PROVE  ReserveInv'
  BY <1>1, <1>2, MoveReserves DEF Planning, Pc, askVars
<1>3. CASE PreflightNode(r) \/ GateNode(r) \/ WaveNode(r) \/ RecordNode(r)
  BY <1>3, StayReserves DEF PreflightNode, GateNode, WaveNode, RecordNode, askVars
<1>4. CASE PreflightFails(r)
  BY <1>4, PreflightFailedReserves, PlanTerminatesReserves DEF PreflightFails, Fails
<1>5. CASE GateFails(r) \/ WaveFails(r)
  BY <1>5, PlanFailedReserves, PlanTerminatesReserves DEF GateFails, WaveFails, Fails
<1>6. CASE PreflightPasses(r)
  BY <1>2, <1>6, PlanTerminatesReserves DEF PreflightPasses, Planning
<1>7. CASE Schedule(r)
  BY <1>2, <1>7 DEF Schedule, Planning
<1>8. CASE PlanSucceeds(r)
  BY <1>8, GoOnReserves DEF PlanSucceeds, Ask, Optional
<1>9. CASE GateOpens(r)
  BY <1>2, <1>9 DEF GateOpens, Planning
<1>10. CASE WaveNodeReused(r)
  BY <1>10, StayReserves, PlanTerminatesReserves DEF WaveNodeReused, askVars
<1>11. CASE Dispatch(r)
  BY <1>2, <1>11, PlanTerminatesReserves DEF Dispatch, Planning
<1>12. CASE WaveEnds(r)
  BY <1>2, <1>12, PlanFailedReserves, PlanTerminatesReserves DEF WaveEnds, Planning
<1> QED
  BY <1>3, <1>4, <1>5, <1>6, <1>7, <1>8, <1>9, <1>10, <1>11, <1>12

\* An answer of the model.
LEMMA ModelReserves ==
  ASSUME ReserveInv, NEW r \in Runs, ModelStep(r)
  PROVE  ReserveInv'
<1>1. CASE ModelRetries(r)
  BY <1>1, RequestReserves
<1>2. ASSUME Goto(r, "direct"), UNCHANGED askVars PROVE ReserveInv'
  BY <1>2, MoveReserves DEF Pc, Planning, askVars
<1>3. CASE ModelFails(r)
  BY <1>2, <1>3, FinishReserves DEF ModelFails
<1>4. CASE PlannerDeclines(r)
  BY <1>2, <1>4 DEF PlannerDeclines
<1>5. CASE PlannerInvalid(r)
  BY <1>2, <1>5, GoOnReserves, FinishReserves DEF PlannerInvalid, Ask
<1>6. ASSUME NEW p \in Plans, PlannerPlans(r, p) PROVE ReserveInv'
  <2>1. HasCapacity(r)
    BY <1>6 DEF PlannerPlans, ReserveInv, Reserves
  <2> QED BY <1>6, <2>1, MoveReserves DEF PlannerPlans, Pc, Planning, askVars
<1>7. CASE AnswerEnds(r)
  BY <1>7, FinishReserves DEF AnswerEnds
<1>8. CASE AnswerInvalid(r)
  BY <1>8, AskReserves DEF AnswerInvalid, Ask, Optional
<1>9. CASE AnswerCalls(r)
  BY <1>9, MoveReserves DEF AnswerCalls, Pc, Planning, askVars
<1> QED
  BY <1>1, <1>3, <1>4, <1>5, <1>6, <1>7, <1>8, <1>9 DEF ModelStep

\* A step of the run that waits for nobody.
LEMMA RunReserves ==
  ASSUME ReserveInv, NEW r \in Runs, RunStep(r)
  PROVE  ReserveInv'
<1>1. CASE RefuseRequest(r) \/ ModelStopped(r)
  BY <1>1, FinishReserves DEF RefuseRequest, ModelStopped
<1>2. ASSUME NEW s \in Sigs, TakeCall(r, s) PROVE ReserveInv'
  BY <1>2, MoveReserves DEF TakeCall, Pc, Planning, askVars
<1>3. CASE CallEnds(r)
  BY <1>3, StayReserves, FinishReserves DEF CallEnds, askVars
<1>4. CASE TurnOver(r)
  BY <1>4, AskReserves DEF TurnOver, Ask, Optional
<1>5. CASE UNCHANGED <<pc, askVars, planVars>>
  BY <1>5, StayReserves DEF askVars
<1> QED
  BY <1>1, <1>2, <1>3, <1>4, <1>5, RequestReserves, PlanReserves DEF RunStep

(* However many calls, retries and nodes are allowed, a plan is only ever  *)
(* executed while a model call is left to report on it.                    *)
THEOREM PlansKeepASynthesisCall == Safe => []SynthesisReserved
<1>1. Init => ReserveInv
  BY PlanLimitAssumption DEF Init, ReserveInv, Reserves, CanSpend, HasCapacity, Pc, Ask, Planning
<1>2. ReserveInv /\ [Next]_vars => ReserveInv'
  <2> SUFFICES ASSUME ReserveInv, [Next]_vars PROVE ReserveInv'
    OBVIOUS
  <2>1. CASE UNCHANGED vars
    BY <2>1, StayReserves DEF vars, askVars
  <2>2. ASSUME NEW r \in Runs, AnswerStep(r) \/ StopStep(r) PROVE ReserveInv'
    BY <2>2, StayReserves DEF AnswerStep, StopStep, askVars
  <2> QED BY <2>1, <2>2, RunReserves, ModelReserves DEF Next
<1>3. ReserveInv => SynthesisReserved
  BY DEF ReserveInv, Reserves, SynthesisReserved
<1> QED BY <1>1, <1>2, <1>3, PTL DEF Safe
=============================================================================
