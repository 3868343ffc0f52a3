-------------------------- MODULE ProgrammaticProofs --------------------------
(***************************************************************************)
(* Theorems about Programmatic, for every set of runs, signatures and      *)
(* slots, every batch a program may ask for and every limit.               *)
(*                                                                         *)
(* The invariant of a run has five parts.  Batches says what the slots of  *)
(* its batch may be doing, by its place in the engine; Reserve, which      *)
(* model calls are held back for the answer; Counts, what of its ledger    *)
(* is still owed; Told, what it knows of state changes; Confirms, that     *)
(* what began without a failure is running or confirmed.                   *)
(***************************************************************************)
EXTENDS Programmatic, BrokerProofs, FiniteSetTheorems

-----------------------------------------------------------------------------
(* The invariant.                                                          *)

Undecided == {"policy", "approval", "limit", "prepErr"}
Resolved == {"rejected", "reused"}
Bad == {"grace", "execFail", "execErr"}

\* The calls of a run that are counted and not classified, that are issued and
\* not settled, and that execute a signature.
Pending(r) == {o \in SlotsOf(r) : phase[o] \in Unclassified}
InHand(r) == {o \in SlotsOf(r) : phase[o] \in Dispatched}
Running(r, s) == {o \in SlotsOf(r) : phase[o] = "running" /\ call[o] = s}

Spent(r) == IF r \in Adaptive THEN 1 ELSE 0

\* A batch is prepared in order, one call at a time, and dispatched when every
\* call is decided; several calls are parallel-safe reads.
Batches(r) ==
  /\ wanted[r] \in Seq(Sigs) /\ Len(wanted[r]) <= Len(SlotAt[r])
  /\ taken[r] \in 0..Len(wanted[r])
  /\ pc[r] \notin {"batch", "exec"} => wanted[r] = << >>
  /\ pc[r] = "exec" => taken[r] = Len(wanted[r])
  /\ \A o \in SlotsOf(r) \ Taken(r) : phase[o] = "idle"
  /\ \A i \in 1..taken[r] : call[SlotAt[r][i]] = wanted[r][i]
  /\ pc[r] = "batch" => \A i \in 1..taken[r] :
       \/ Decided(SlotAt[r][i])
       \/ i = taken[r] /\ phase[SlotAt[r][i]] \in Undecided
  /\ pc[r] = "exec" => \A o \in Taken(r) : phase[o] \in Resolved \cup Dispatched
  /\ Len(wanted[r]) > 1 => \A i \in 1..Len(wanted[r]) : wanted[r][i] \in ParallelSafe

Reserve(r) ==
  /\ pc[r] = "start" => modelCalls[r] = Spent(r)
  /\ pc[r] = "generate" => modelCalls[r] + 2 <= MaxModelCalls
  /\ pc[r] \in {"candidate", "vm", "batch", "exec", "synthesize"} => modelCalls[r] < MaxModelCalls
  /\ pc[r] = "direct" /\ Spent(r) + 2 <= MaxModelCalls => modelCalls[r] < MaxModelCalls
  /\ pc[r] \in {"start", "generate", "candidate", "direct"} => \A s \in Sigs : starts[r][s] = 0

Counts(r) ==
  /\ usage[r]["calls"] >= Classified(usage[r]) + Cardinality(Pending(r))
  /\ usage[r]["issued"] = Settled(usage[r]) + Cardinality(InHand(r))
  /\ pc[r] \in {"start", "done"} => usage[r]["calls"] = Classified(usage[r])

Told(r) ==
  /\ ~dispatched[r] => InHand(r) = {} /\ \A s \in Sigs : effects[r][s] = "none"
  /\ \A s \in Sigs :
       /\ ~Mutates(s) => effects[r][s] = "none"
       /\ pc[r] # "done" => effects[r][s] # "uncertain"
       /\ effects[r][s] = "dispatched" => pc[r] = "done" \/ \E o \in InHand(r) : call[o] = s
       /\ pc[r] = "done" /\ effects[r][s] \in {"dispatched", "uncertain"} => status[r] = "Failed"

Confirms(r) ==
  /\ status[r] = "Completed" => pc[r] = "done" /\ starts[r] = confirmed[r]
  /\ (pc[r] # "done" /\ \A o \in SlotsOf(r) : phase[o] \notin Bad) =>
       \A s \in Sigs : starts[r][s] = confirmed[r][s] + Cardinality(Running(r, s))

Domains ==
  /\ BrokerTypeOK
  /\ pc \in [Runs -> Pc]
  /\ modelCalls \in [Runs -> 0..MaxModelCalls]
  /\ attempt \in [Runs -> 0..1]
  /\ wanted \in [Runs -> Seq(Sigs)]
  /\ taken \in [Runs -> Nat]
  /\ dispatched \in [Runs -> BOOLEAN]
  /\ admissions \in Nat

RunInv(r) == Batches(r) /\ Reserve(r) /\ Counts(r) /\ Told(r) /\ Confirms(r)

AdmissionInv ==
  /\ IsFiniteSet({r \in Runs : Admitted(r)})
  /\ AdmissionsBalance

IInv == Domains /\ AdmissionInv /\ \A r \in Runs : RunInv(r)

-----------------------------------------------------------------------------
(* Slots and sets of calls.                                                *)

LEMMA SlotsInOrder ==
  ASSUME NEW r \in Runs
  PROVE  /\ SlotAt[r] \in Seq(Slots) /\ Len(SlotAt[r]) \in Nat
         /\ \A i \in 1..Len(SlotAt[r]) : SlotAt[r][i] \in SlotsOf(r)
         /\ \A i, j \in 1..Len(SlotAt[r]) : SlotAt[r][i] = SlotAt[r][j] => i = j
<1>1. SlotAt[r] \in Seq(Slots)
  BY ProgrammaticAssumption
<1>2. Len(SlotAt[r]) \in Nat /\ \A i \in 1..Len(SlotAt[r]) : SlotAt[r][i] \in Slots
  BY <1>1
<1> QED BY <1>1, <1>2, ProgrammaticAssumption DEF SlotsOf

LEMMA WantedInOrder ==
  ASSUME Domains, NEW r \in Runs
  PROVE  /\ wanted[r] \in Seq(Sigs) /\ Len(wanted[r]) \in Nat /\ taken[r] \in Nat
         /\ \A i \in 1..Len(wanted[r]) : wanted[r][i] \in Sigs
<1>1. wanted[r] \in Seq(Sigs) /\ taken[r] \in Nat
  BY DEF Domains
<1> QED BY <1>1

\* The first slots of a run are finitely many.
LEMMA SlotsAreFinite ==
  ASSUME NEW r \in Runs, NEW n \in Nat
  PROVE  IsFiniteSet({SlotAt[r][i] : i \in 1..n})
<1> DEFINE T == {SlotAt[r][i] : i \in 1..n}
           f == [i \in 1..n |-> SlotAt[r][i]]
<1>1. f \in Surjection(1..n, T)
  BY DEF Surjection
<1>2. IsFiniteSet(1..n)
  BY FS_Interval
<1> HIDE DEF T, f
<1>3. IsFiniteSet(T)
  BY <1>1, <1>2, FS_Surjection
<1> QED BY <1>3 DEF T

LEMMA CallsAreFinite ==
  ASSUME Domains, NEW r \in Runs, Batches(r)
  PROVE  /\ IsFiniteSet(Taken(r)) /\ Taken(r) \subseteq Batch(r) /\ Batch(r) \subseteq SlotsOf(r)
         /\ \A T \in SUBSET Taken(r) : IsFiniteSet(T) /\ Cardinality(T) \in Nat
<1>1. IsFiniteSet(Taken(r))
  BY SlotsAreFinite, WantedInOrder DEF Taken
<1>2. /\ taken[r] \in Nat /\ Len(wanted[r]) \in Nat /\ Len(SlotAt[r]) \in Nat
      /\ taken[r] <= Len(wanted[r]) /\ Len(wanted[r]) <= Len(SlotAt[r])
  BY WantedInOrder, SlotsInOrder DEF Batches
<1>3. \A i \in 1..taken[r] : i \in 1..Len(wanted[r])
  BY <1>2
<1>4. \A i \in 1..Len(wanted[r]) : i \in 1..Len(SlotAt[r])
  BY <1>2
<1>5. Taken(r) \subseteq Batch(r) /\ Batch(r) \subseteq SlotsOf(r)
  BY <1>3, <1>4, SlotsInOrder DEF Taken, Batch
<1>6. \A T \in SUBSET Taken(r) : IsFiniteSet(T) /\ Cardinality(T) \in Nat
  BY <1>1, FS_Subset, FS_CardinalityType
<1> QED BY <1>1, <1>5, <1>6

\* The sets of calls a ledger counts are of calls taken up.
LEMMA CountedAreTaken ==
  ASSUME NEW r \in Runs, Batches(r)
  PROVE  /\ Pending(r) \subseteq Taken(r) /\ InHand(r) \subseteq Taken(r)
         /\ \A s \in Sigs : Running(r, s) \subseteq Taken(r)
BY DEF Batches, Pending, InHand, Running, Unclassified, Dispatched, PrepPhases, ExecPhases

\* Where nothing is wanted nothing is in flight.
LEMMA NothingInFlight ==
  ASSUME Domains, NEW r \in Runs, Batches(r), wanted[r] = << >>
  PROVE  /\ taken[r] = 0 /\ \A o \in SlotsOf(r) : phase[o] = "idle"
         /\ Pending(r) = {} /\ InHand(r) = {} /\ \A s \in Sigs : Running(r, s) = {}
<1>1. Len(wanted[r]) = 0
  OBVIOUS
<1>2. taken[r] = 0
  BY <1>1 DEF Batches
<1>3. Taken(r) = {}
  BY <1>2 DEF Taken
<1>4. \A o \in SlotsOf(r) : phase[o] = "idle"
  BY <1>3 DEF Batches
<1> QED BY <1>2, <1>4
        DEF Pending, InHand, Running, Unclassified, Dispatched, PrepPhases, ExecPhases

-----------------------------------------------------------------------------
(* A run that another one's step leaves alone.                             *)

SameCalls(r) ==
  /\ wanted'[r] = wanted[r] /\ taken'[r] = taken[r]
  /\ \A o \in SlotsOf(r) : phase'[o] = phase[o] /\ call'[o] = call[o]

SameLedger(r) ==
  /\ usage'[r] = usage[r] /\ effects'[r] = effects[r] /\ dispatched'[r] = dispatched[r]
  /\ starts'[r] = starts[r] /\ confirmed'[r] = confirmed[r]

Untouched(r) ==
  /\ SameCalls(r) /\ SameLedger(r)
  /\ pc'[r] = pc[r] /\ modelCalls'[r] = modelCalls[r] /\ status'[r] = status[r]

LEMMA SameCounted ==
  ASSUME NEW r \in Runs, SameCalls(r)
  PROVE  /\ Pending(r)' = Pending(r) /\ InHand(r)' = InHand(r)
         /\ \A s \in Sigs : Running(r, s)' = Running(r, s)
BY DEF SameCalls, Pending, InHand, Running, SlotsOf

LEMMA SameBatches ==
  ASSUME Domains, NEW r \in Runs, Batches(r), SameCalls(r), pc'[r] = pc[r]
  PROVE  Batches(r)'
<1>1. \A i \in 1..taken[r] : SlotAt[r][i] \in SlotsOf(r)
  BY CallsAreFinite DEF Taken
<1>2. Taken(r)' = Taken(r) /\ SlotsOf(r)' = SlotsOf(r)
  BY DEF Taken, SameCalls, SlotsOf
<1>3. \A o \in Taken(r) : o \in SlotsOf(r)
  BY <1>1 DEF Taken
<1> QED BY <1>1, <1>2, <1>3 DEF Batches, SameCalls, Decided

LEMMA OthersKeep ==
  ASSUME Domains, NEW r \in Runs, RunInv(r), Untouched(r)
  PROVE  RunInv(r)'
<1>1. /\ Pending(r)' = Pending(r) /\ InHand(r)' = InHand(r)
      /\ \A s \in Sigs : Running(r, s)' = Running(r, s)
  BY SameCounted DEF Untouched
<1>2. Batches(r)'
  BY SameBatches DEF RunInv, Untouched
<1>3. Reserve(r)'
  BY DEF RunInv, Untouched, SameLedger, Reserve, Spent
<1>4. Counts(r)'
  BY <1>1 DEF RunInv, Untouched, SameLedger, Counts
<1>5. Told(r)'
  <2>1. \A o \in InHand(r) : call'[o] = call[o]
    BY DEF Untouched, SameCalls, InHand
  <2> QED BY <1>1, <2>1 DEF RunInv, Untouched, SameLedger, Told
<1>6. Confirms(r)'
  <2>1. \A o \in SlotsOf(r) : phase'[o] = phase[o]
    BY DEF Untouched, SameCalls
  <2>2. SlotsOf(r)' = SlotsOf(r)
    BY DEF SlotsOf
  <2> QED BY <1>1, <2>1, <2>2 DEF RunInv, Untouched, SameLedger, Confirms
<1> QED BY <1>2, <1>3, <1>4, <1>5, <1>6 DEF RunInv

-----------------------------------------------------------------------------
(* Admissions.                                                             *)

Outside == {"start", "direct", "done"}

LEMMA AdmissionMoves ==
  ASSUME pc \in [Runs -> Pc], admissions \in Nat, AdmissionInv, NEW r \in Runs, NEW l, Goto(r, l),
         \/ admissions' = admissions /\ (pc[r] \in Outside <=> l \in Outside)
         \/ admissions > 0 /\ admissions' = admissions - 1 /\ pc[r] \in Outside /\ l \notin Outside
         \/ admissions' = admissions + 1 /\ pc[r] \notin Outside /\ l \in Outside
  PROVE  AdmissionInv' /\ admissions' \in Nat
<1> DEFINE A == {q \in Runs : Admitted(q)}
           B == {q \in Runs : Admitted(q)'}
<1>1. \A q \in Runs : (Admitted(q) <=> pc[q] \notin Outside) /\ (Admitted(q)' <=> pc'[q] \notin Outside)
  BY DEF Admitted, Outside
<1>2. pc'[r] = l /\ \A q \in Runs \ {r} : pc'[q] = pc[q]
  BY DEF Goto
<1>3. IsFiniteSet(A) /\ Cardinality(A) \in Nat /\ admissions + Cardinality(A) = MaxVms
  BY FS_CardinalityType DEF AdmissionInv, AdmissionsBalance
<1>4. r \in A <=> pc[r] \notin Outside
  BY <1>1
<1>5. r \in B <=> l \notin Outside
  BY <1>1, <1>2
<1>6. \A q \in Runs \ {r} : q \in A <=> q \in B
  BY <1>1, <1>2
<1>7. A \subseteq Runs /\ B \subseteq Runs
  OBVIOUS
<1>8. IsFiniteSet(B) /\ admissions' \in Nat /\ admissions' + Cardinality(B) = MaxVms
  <2> HIDE DEF A, B
  <2>1. CASE r \in A <=> r \in B
    <3>1. A = B
      BY <1>6, <1>7, <2>1
    <3>2. admissions' = admissions
      BY <1>4, <1>5, <2>1
    <3> QED BY <1>3, <3>1, <3>2
  <2>2. CASE r \notin A /\ r \in B
    <3>1. B = A \cup {r}
      BY <1>6, <1>7, <2>2
    <3>2. IsFiniteSet(B) /\ Cardinality(B) = Cardinality(A) + 1
      BY <1>3, <2>2, <3>1, FS_AddElement
    <3>3. admissions > 0 /\ admissions' = admissions - 1
      BY <1>4, <1>5, <2>2
    <3>4. MaxVms \in Nat
      BY ProgrammaticAssumption
    <3> QED BY <1>3, <3>2, <3>3, <3>4
  <2>3. CASE r \in A /\ r \notin B
    <3>1. B = A \ {r}
      BY <1>6, <1>7, <2>3
    <3>2. IsFiniteSet(B) /\ Cardinality(B) = Cardinality(A) - 1
      BY <1>3, <2>3, <3>1, FS_RemoveElement
    <3>3. admissions' = admissions + 1
      BY <1>4, <1>5, <2>3
    <3>4. MaxVms \in Nat
      BY ProgrammaticAssumption
    <3> QED BY <1>3, <3>2, <3>3, <3>4
  <2> QED BY <2>1, <2>2, <2>3
<1> QED BY <1>8 DEF AdmissionInv, AdmissionsBalance

LEMMA AdmissionsStay ==
  ASSUME AdmissionInv, UNCHANGED <<pc, admissions>>
  PROVE  AdmissionInv'
BY DEF AdmissionInv, AdmissionsBalance, Admitted


-----------------------------------------------------------------------------
(* Steps between batches: the model writes, the VM returns, no call moves. *)

\* Outside a batch nothing of the run is in flight.
LEMMA Quiet ==
  ASSUME Domains, NEW r \in Runs, RunInv(r), pc[r] \notin {"batch", "exec"}
  PROVE  /\ wanted[r] = << >> /\ taken[r] = 0
         /\ \A o \in SlotsOf(r) : phase[o] = "idle"
         /\ Pending(r) = {} /\ InHand(r) = {} /\ \A s \in Sigs : Running(r, s) = {}
<1>1. Batches(r) /\ wanted[r] = << >>
  BY DEF RunInv, Batches
<1> QED BY <1>1, NothingInFlight

\* The phase of a call in an authorized batch is not one of execute.
LEMMA NothingExecutes ==
  ASSUME Domains, NEW r \in Runs, RunInv(r), pc[r] # "exec"
  PROVE  InHand(r) = {}
<1>1. CASE pc[r] # "batch"
  BY <1>1, Quiet
<1>2. CASE pc[r] = "batch"
  <2>1. \A o \in Taken(r) : phase[o] \in {"ready", "rejected", "reused"} \cup Undecided
    BY <1>2 DEF RunInv, Batches, Taken, Decided
  <2>2. \A o \in SlotsOf(r) \ Taken(r) : phase[o] = "idle"
    BY DEF RunInv, Batches
  <2> QED BY <2>1, <2>2 DEF InHand, Dispatched, ExecPhases, Undecided
<1> QED BY <1>1, <1>2

LEMMA NoneIsZero == Cardinality({}) = 0
BY FS_EmptySet

LEMMA ControlKeeps ==
  ASSUME Domains, AdmissionInv, NEW r \in Runs, RunInv(r),
         NEW l \in Pc \ {"start", "batch", "exec", "done"}, pc[r] \notin {"batch", "exec", "done"},
         Goto(r, l), OutOfBroker, OutOfBatch,
         attempt' \in [Runs -> 0..1], modelCalls' \in [Runs -> 0..MaxModelCalls],
         \A p \in Runs \ {r} : modelCalls'[p] = modelCalls[p],
         \/ admissions' = admissions /\ (pc[r] \in Outside <=> l \in Outside)
         \/ admissions > 0 /\ admissions' = admissions - 1 /\ pc[r] \in Outside /\ l \notin Outside
         \/ admissions' = admissions + 1 /\ pc[r] \notin Outside /\ l \in Outside,
         Reserve(r)'
  PROVE  Domains' /\ AdmissionInv' /\ RunInv(r)' /\ \A p \in Runs \ {r} : Untouched(p)
<1>1. /\ usage' = usage /\ seen' = seen /\ effects' = effects /\ status' = status
      /\ stop' = stop /\ phase' = phase /\ call' = call /\ err' = err /\ before' = before
      /\ holder' = holder /\ starts' = starts /\ confirmed' = confirmed
      /\ wanted' = wanted /\ taken' = taken /\ dispatched' = dispatched
  BY DEF OutOfBroker, OutOfBatch, brokerVars
<1>2. pc \in [Runs -> Pc] /\ admissions \in Nat
  BY DEF Domains
<1>3. pc'[r] = l /\ pc' \in [Runs -> Pc] /\ \A p \in Runs \ {r} : pc'[p] = pc[p]
  BY <1>2 DEF Goto
<1>4. AdmissionInv' /\ admissions' \in Nat
  BY <1>2, AdmissionMoves
<1>5. Domains'
  BY <1>1, <1>3, <1>4 DEF Domains, BrokerTypeOK
<1>6. SameCalls(r) /\ SameLedger(r) /\ \A p \in Runs \ {r} : Untouched(p)
  BY <1>1, <1>3 DEF SameCalls, SameLedger, Untouched
<1>7. /\ Pending(r)' = Pending(r) /\ InHand(r)' = InHand(r)
      /\ \A s \in Sigs : Running(r, s)' = Running(r, s)
  BY <1>6, SameCounted
<1>8. /\ wanted[r] = << >> /\ taken[r] = 0 /\ \A o \in SlotsOf(r) : phase[o] = "idle"
      /\ InHand(r) = {}
  BY Quiet
<1>9. Batches(r)'
  <2>1. Batches(r)
    BY DEF RunInv
  <2>2. SlotsOf(r)' = SlotsOf(r)
    BY DEF SlotsOf
  <2>3. \A i \in 1..taken[r] : FALSE
    BY <1>8
  <2>4. \A i \in 1..Len(wanted[r]) : FALSE
    BY <1>8
  <2> QED BY <1>1, <1>3, <1>8, <2>1, <2>2, <2>3, <2>4 DEF Batches
<1>10. Counts(r)'
  BY <1>1, <1>3, <1>7 DEF RunInv, Counts
<1>11. Told(r)'
  BY <1>1, <1>3, <1>7, <1>8 DEF RunInv, Told
<1>12. Confirms(r)'
  <2>1. SlotsOf(r)' = SlotsOf(r)
    BY DEF SlotsOf
  <2>2. Confirms(r)
    BY DEF RunInv
  <2> QED BY <1>1, <1>3, <1>7, <2>1, <2>2 DEF Confirms
<1> QED BY <1>4, <1>5, <1>6, <1>9, <1>10, <1>11, <1>12 DEF RunInv

Control(r) ==
  \/ Admit(r) \/ HandBack(r) \/ RequestProgram(r) \/ ProgramAccepted(r) \/ RepairProgram(r)
  \/ FallBack(r) \/ VmReturns(r) \/ RequestSynthesis(r)

LEMMA MoreCalls ==
  ASSUME Domains, NEW r \in Runs, modelCalls[r] < MaxModelCalls,
         modelCalls' = [modelCalls EXCEPT ![r] = @ + 1]
  PROVE  /\ modelCalls' \in [Runs -> 0..MaxModelCalls] /\ modelCalls'[r] = modelCalls[r] + 1
         /\ \A p \in Runs \ {r} : modelCalls'[p] = modelCalls[p]
BY ProgrammaticAssumption DEF Domains

LEMMA ControlSteps ==
  ASSUME Domains, AdmissionInv, NEW r \in Runs, RunInv(r), Control(r)
  PROVE  Domains' /\ AdmissionInv' /\ RunInv(r)' /\ \A p \in Runs \ {r} : Untouched(p)
<1>1. /\ pc \in [Runs -> Pc] /\ modelCalls \in [Runs -> 0..MaxModelCalls]
      /\ attempt \in [Runs -> 0..1] /\ MaxModelCalls \in Nat /\ modelCalls[r] \in Nat
  BY ProgrammaticAssumption DEF Domains
<1>2. Reserve(r)
  BY DEF RunInv
<1>3. Spent(r) \in {0, 1}
  BY DEF Spent
<1> DEFINE Kept == Domains' /\ AdmissionInv' /\ RunInv(r)' /\ \A p \in Runs \ {r} : Untouched(p)
<1>4. ASSUME NEW l, Goto(r, l) PROVE pc'[r] = l
  BY <1>1, <1>4 DEF Goto
<1>5. ASSUME OutOfBroker PROVE starts' = starts
  BY <1>5 DEF OutOfBroker, brokerVars
<1> USE DEF Pc, Outside
<1>6. CASE Admit(r)
  <2>1. /\ pc[r] = "start" /\ Goto(r, "generate") /\ OutOfBroker /\ OutOfBatch
        /\ modelCalls' = modelCalls /\ attempt' = attempt
        /\ admissions > 0 /\ admissions' = admissions - 1 /\ MaxModelCalls - modelCalls[r] >= 2
    BY <1>6 DEF Admit
  <2>2. Reserve(r)'
    BY <1>1, <1>2, <1>4, <1>5, <2>1 DEF Reserve
  <2> QED BY <1>1, <2>1, <2>2, ControlKeeps
<1>7. CASE HandBack(r)
  <2>1. /\ pc[r] = "start" /\ Goto(r, "direct") /\ OutOfBroker /\ OutOfBatch
        /\ modelCalls' = modelCalls /\ attempt' = attempt /\ admissions' = admissions
    BY <1>7 DEF HandBack
  <2>2. Reserve(r)'
    BY <1>1, <1>2, <1>3, <1>4, <1>5, <2>1 DEF Reserve, Spent
  <2> QED BY <1>1, <2>1, <2>2, ControlKeeps
<1>8. CASE RequestProgram(r)
  <2>1. /\ pc[r] = "generate" /\ Goto(r, "candidate") /\ OutOfBroker /\ OutOfBatch
        /\ modelCalls[r] < MaxModelCalls /\ modelCalls' = [modelCalls EXCEPT ![r] = @ + 1]
        /\ attempt' = attempt /\ admissions' = admissions
    BY <1>8 DEF RequestProgram, Request
  <2>2. /\ modelCalls' \in [Runs -> 0..MaxModelCalls] /\ modelCalls'[r] = modelCalls[r] + 1
        /\ \A p \in Runs \ {r} : modelCalls'[p] = modelCalls[p]
    BY <2>1, MoreCalls
  <2>3. Reserve(r)'
    BY <1>1, <1>2, <1>4, <1>5, <2>1, <2>2 DEF Reserve
  <2> QED BY <1>1, <2>1, <2>2, <2>3, ControlKeeps
<1>9. CASE ProgramAccepted(r)
  <2>1. /\ pc[r] = "candidate" /\ Goto(r, "vm") /\ OutOfBroker /\ OutOfBatch
        /\ modelCalls' = modelCalls /\ attempt' = attempt /\ admissions' = admissions
    BY <1>9 DEF ProgramAccepted
  <2>2. Reserve(r)'
    BY <1>1, <1>2, <1>4, <1>5, <2>1 DEF Reserve
  <2> QED BY <1>1, <2>1, <2>2, ControlKeeps
<1>10. CASE RepairProgram(r)
  <2>1. /\ pc[r] = "candidate" /\ Goto(r, "generate") /\ OutOfBroker /\ OutOfBatch
        /\ modelCalls' = modelCalls /\ attempt' = [attempt EXCEPT ![r] = 1]
        /\ admissions' = admissions /\ MaxModelCalls - modelCalls[r] > 1
    BY <1>10 DEF RepairProgram, MayRepair
  <2>2. Reserve(r)'
    BY <1>1, <1>2, <1>4, <1>5, <2>1 DEF Reserve
  <2>3. attempt' \in [Runs -> 0..1]
    BY <1>1, <2>1
  <2> QED BY <1>1, <2>1, <2>2, <2>3, ControlKeeps
<1>11. CASE FallBack(r)
  <2>1. /\ pc[r] = "candidate" /\ Goto(r, "direct") /\ OutOfBroker /\ OutOfBatch
        /\ modelCalls' = modelCalls /\ attempt' = attempt /\ admissions' = admissions + 1
    BY <1>11 DEF FallBack
  <2>2. Reserve(r)'
    BY <1>1, <1>2, <1>4, <1>5, <2>1 DEF Reserve
  <2> QED BY <1>1, <2>1, <2>2, ControlKeeps
<1>12. CASE VmReturns(r)
  <2>1. /\ pc[r] = "vm" /\ Goto(r, "synthesize") /\ OutOfBroker /\ OutOfBatch
        /\ modelCalls' = modelCalls /\ attempt' = attempt /\ admissions' = admissions
    BY <1>12 DEF VmReturns
  <2>2. Reserve(r)'
    BY <1>1, <1>2, <1>4, <1>5, <2>1 DEF Reserve
  <2> QED BY <1>1, <2>1, <2>2, ControlKeeps
<1>13. CASE RequestSynthesis(r)
  <2>1. /\ pc[r] = "synthesize" /\ Goto(r, "synthesis") /\ OutOfBroker /\ OutOfBatch
        /\ modelCalls[r] < MaxModelCalls /\ modelCalls' = [modelCalls EXCEPT ![r] = @ + 1]
        /\ attempt' = attempt /\ admissions' = admissions
    BY <1>13 DEF RequestSynthesis, Request
  <2>2. /\ modelCalls' \in [Runs -> 0..MaxModelCalls]
        /\ \A p \in Runs \ {r} : modelCalls'[p] = modelCalls[p]
    BY <2>1, MoreCalls
  <2>3. Reserve(r)'
    BY <1>4, <2>1 DEF Reserve
  <2> QED BY <1>1, <2>1, <2>2, <2>3, ControlKeeps
<1> QED BY <1>6, <1>7, <1>8, <1>9, <1>10, <1>11, <1>12, <1>13 DEF Control

-----------------------------------------------------------------------------
(* Steps that end a run.                                                   *)

LEMMA RefuseKeeps ==
  ASSUME Domains, AdmissionInv, NEW r \in Runs, RunInv(r), Refuse(r)
  PROVE  Domains' /\ AdmissionInv' /\ RunInv(r)' /\ \A p \in Runs \ {r} : Untouched(p)
<1>1. /\ pc \in [Runs -> Pc] /\ admissions \in Nat /\ status \in [Runs -> Status]
  BY DEF Domains, BrokerTypeOK
<1>2. PICK e \in Errors : status' = [status EXCEPT ![r] = ErrorStatus(e)]
  BY DEF Refuse
<1>3. /\ pc[r] = "start" /\ Goto(r, "done") /\ admissions' = admissions
      /\ usage' = usage /\ seen' = seen /\ effects' = effects
      /\ stop' = stop /\ phase' = phase /\ call' = call /\ err' = err /\ before' = before
      /\ holder' = holder /\ starts' = starts /\ confirmed' = confirmed
      /\ wanted' = wanted /\ taken' = taken /\ dispatched' = dispatched
      /\ modelCalls' = modelCalls /\ attempt' = attempt
  BY DEF Refuse, OutOfBatch, ledgerVars, slotVars, historyVars
<1>4. ErrorStatus(e) \in Status \ {"Completed"}
  BY DEF ErrorStatus, Status
<1>5. /\ pc'[r] = "done" /\ pc' \in [Runs -> Pc] /\ \A p \in Runs \ {r} : pc'[p] = pc[p]
  BY <1>1, <1>3 DEF Goto, Pc
<1>6. /\ status'[r] # "Completed" /\ status' \in [Runs -> Status]
      /\ \A p \in Runs \ {r} : status'[p] = status[p]
  BY <1>1, <1>2, <1>4
<1>7. AdmissionInv' /\ admissions' \in Nat
  BY <1>1, <1>3, AdmissionMoves DEF Outside
<1>8. Domains'
  BY <1>3, <1>5, <1>6, <1>7 DEF Domains, BrokerTypeOK
<1>9. SameCalls(r) /\ \A p \in Runs \ {r} : Untouched(p)
  BY <1>3, <1>5, <1>6 DEF SameCalls, SameLedger, Untouched
<1>10. /\ Pending(r)' = Pending(r) /\ InHand(r)' = InHand(r)
       /\ \A s \in Sigs : Running(r, s)' = Running(r, s)
  BY <1>9, SameCounted
<1>11. /\ wanted[r] = << >> /\ taken[r] = 0 /\ \A o \in SlotsOf(r) : phase[o] = "idle"
       /\ InHand(r) = {}
  BY <1>3, Quiet
<1>12. Batches(r)'
  <2>1. Batches(r) /\ SlotsOf(r)' = SlotsOf(r)
    BY DEF RunInv, SlotsOf
  <2>2. (\A i \in 1..taken[r] : FALSE) /\ (\A i \in 1..Len(wanted[r]) : FALSE)
    BY <1>11
  <2> QED BY <1>3, <1>5, <1>11, <2>1, <2>2 DEF Batches
<1>13. Reserve(r)'
  BY <1>5 DEF Reserve
<1>14. Counts(r)'
  BY <1>3, <1>5, <1>10 DEF RunInv, Counts
<1>15. Told(r)'
  <2>1. Told(r)
    BY DEF RunInv
  <2>2. \A s \in Sigs : effects[r][s] \notin {"dispatched", "uncertain"}
    BY <1>3, <1>11, <2>1 DEF Told
  <2> QED BY <1>3, <1>5, <1>10, <1>11, <2>1, <2>2 DEF Told
<1>16. Confirms(r)'
  BY <1>5, <1>6 DEF Confirms
<1> QED BY <1>7, <1>8, <1>9, <1>12, <1>13, <1>14, <1>15, <1>16 DEF RunInv

\* The locals of a run's calls are dropped.
LEMMA FreedSlots ==
  ASSUME Domains, NEW r \in Runs, FreeSlots(r)
  PROVE  /\ phase' \in [Slots -> Phase] /\ call' \in [Slots -> Sigs]
         /\ err' \in [Slots -> Errors] /\ before' \in [Slots -> Nat \X Nat]
         /\ wanted' \in [Runs -> Seq(Sigs)] /\ taken' \in [Runs -> Nat]
         /\ wanted'[r] = << >> /\ taken'[r] = 0
         /\ \A o \in SlotsOf(r) : phase'[o] = "idle"
         /\ Pending(r)' = {} /\ InHand(r)' = {} /\ \A s \in Sigs : Running(r, s)' = {}
         /\ \A p \in Runs \ {r} : SameCalls(p)
<1>1. /\ phase' = [o \in Slots |-> IF RunOf[o] = r THEN "idle" ELSE phase[o]]
      /\ call' = [o \in Slots |-> IF RunOf[o] = r THEN AnySig ELSE call[o]]
      /\ err' = [o \in Slots |-> IF RunOf[o] = r THEN "none" ELSE err[o]]
      /\ before' = [o \in Slots |-> IF RunOf[o] = r THEN <<0, 0>> ELSE before[o]]
      /\ wanted' = [wanted EXCEPT ![r] = << >>] /\ taken' = [taken EXCEPT ![r] = 0]
  BY DEF FreeSlots
<1>2. /\ phase \in [Slots -> Phase] /\ call \in [Slots -> Sigs] /\ err \in [Slots -> Errors]
      /\ before \in [Slots -> Nat \X Nat] /\ wanted \in [Runs -> Seq(Sigs)] /\ taken \in [Runs -> Nat]
  BY DEF Domains, BrokerTypeOK
<1>3. phase' \in [Slots -> Phase] /\ call' \in [Slots -> Sigs]
  BY <1>1, <1>2, AnySigInSigs DEF Phase
<1>4. err' \in [Slots -> Errors] /\ before' \in [Slots -> Nat \X Nat]
  BY <1>1, <1>2 DEF Errors
<1>5. << >> \in Seq(Sigs)
  OBVIOUS
<1>6. wanted' \in [Runs -> Seq(Sigs)] /\ wanted'[r] = << >>
      /\ \A p \in Runs \ {r} : wanted'[p] = wanted[p]
  BY <1>1, <1>2, <1>5
<1>7. taken' \in [Runs -> Nat] /\ taken'[r] = 0 /\ \A p \in Runs \ {r} : taken'[p] = taken[p]
  BY <1>1, <1>2
<1>8. \A o \in SlotsOf(r) : phase'[o] = "idle"
  BY <1>1 DEF SlotsOf
<1>9. Pending(r)' = {} /\ InHand(r)' = {} /\ \A s \in Sigs : Running(r, s)' = {}
  BY <1>8 DEF Pending, InHand, Running, SlotsOf, Unclassified, Dispatched, PrepPhases, ExecPhases
<1>10. \A p \in Runs \ {r} : SameCalls(p)
  BY <1>1, <1>6, <1>7 DEF SameCalls, SlotsOf
<1> QED BY <1>3, <1>4, <1>6, <1>7, <1>8, <1>9, <1>10

\* Without calls, a run's batch is in order wherever it is but in a batch.
LEMMA EmptyBatch ==
  ASSUME NEW r \in Runs, wanted'[r] = << >>, taken'[r] = 0, pc'[r] \notin {"batch", "exec"},
         \A o \in SlotsOf(r) : phase'[o] = "idle"
  PROVE  Batches(r)'
<1>1. << >> \in Seq(Sigs) /\ Len(<< >>) = 0
  OBVIOUS
<1>2. Len(SlotAt[r]) \in Nat
  BY SlotsInOrder
<1>3. SlotsOf(r)' = SlotsOf(r)
  BY DEF SlotsOf
<1>4. taken'[r] \in 0..Len(wanted'[r]) /\ Len(wanted'[r]) = 0
  BY <1>1
<1>5. (\A i \in 1..taken'[r] : FALSE) /\ (\A i \in 1..Len(wanted'[r]) : FALSE)
  BY <1>4
<1> QED BY <1>1, <1>2, <1>3, <1>4, <1>5 DEF Batches

LEMMA FinalizedBalances ==
  ASSUME NEW u \in [Counters -> Nat], u["calls"] >= Classified(u)
  PROVE  /\ Finalized(u) \in [Counters -> Nat]
         /\ Finalized(u)["calls"] = Classified(Finalized(u))
         /\ Finalized(u)["issued"] = u["issued"] /\ Settled(Finalized(u)) = Settled(u)
<1> DEFINE n == u["aborted"] + u["calls"] - Classified(u)
           v == Finalized(u)
<1>1. v = [u EXCEPT !["aborted"] = n]
  BY DEF Finalized
<1>2. \A c \in Counters : u[c] \in Nat
  OBVIOUS
<1>3. n \in Nat
  BY <1>2 DEF Classified, Counters
<1>4. v["aborted"] = n /\ (\A c \in Counters \ {"aborted"} : v[c] = u[c]) /\ v \in [Counters -> Nat]
  <2> HIDE DEF n
  <2> QED BY <1>1, <1>3 DEF Counters
<1>5. /\ v["calls"] = u["calls"] /\ v["issued"] = u["issued"] /\ v["reused"] = u["reused"]
      /\ v["rejected"] = u["rejected"] /\ v["completed"] = u["completed"]
      /\ v["failed"] = u["failed"] /\ v["cancelled"] = u["cancelled"]
  BY <1>4 DEF Counters
<1> HIDE DEF v
<1>6. v["calls"] = Classified(v) /\ Settled(v) = Settled(u)
  BY <1>2, <1>4, <1>5 DEF Classified, Settled, Counters
<1> QED BY <1>4, <1>5, <1>6 DEF v

\* Whatever ends a run inside its program leaves the ledger balanced and the
\* admission returned, provided the status tells what the ledger does not know.
LEMMA EndKeeps ==
  ASSUME Domains, AdmissionInv, NEW r \in Runs, RunInv(r), pc[r] \notin Outside,
         NEW st \in Status, NEW u \in [Counters -> Nat], EndRun(r, st, u),
         u["calls"] >= Classified(u), u["issued"] = Settled(u),
         effects' \in [Runs -> [Sigs -> Effect]],
         \A p \in Runs \ {r} : effects'[p] = effects[p],
         ~dispatched[r] => \A s \in Sigs : effects'[r][s] = "none",
         \A s \in Sigs : /\ ~Mutates(s) => effects'[r][s] = "none"
                         /\ effects'[r][s] \in {"dispatched", "uncertain"} => st = "Failed",
         st = "Completed" => starts[r] = confirmed[r]
  PROVE  Domains' /\ AdmissionInv' /\ RunInv(r)' /\ \A p \in Runs \ {r} : Untouched(p)
<1>1. /\ pc \in [Runs -> Pc] /\ admissions \in Nat /\ status \in [Runs -> Status]
      /\ usage \in [Runs -> [Counters -> Nat]]
  BY DEF Domains, BrokerTypeOK
<1>2. /\ Goto(r, "done") /\ status' = [status EXCEPT ![r] = st]
      /\ usage' = [usage EXCEPT ![r] = Finalized(u)] /\ admissions' = admissions + 1
      /\ FreeSlots(r)
      /\ seen' = seen /\ stop' = stop /\ holder' = holder /\ starts' = starts
      /\ confirmed' = confirmed /\ modelCalls' = modelCalls /\ attempt' = attempt
      /\ dispatched' = dispatched
  BY DEF EndRun, historyVars
<1>3. /\ pc'[r] = "done" /\ pc' \in [Runs -> Pc] /\ \A p \in Runs \ {r} : pc'[p] = pc[p]
  BY <1>1, <1>2 DEF Goto, Pc
<1>4. /\ status'[r] = st /\ status' \in [Runs -> Status]
      /\ \A p \in Runs \ {r} : status'[p] = status[p]
  BY <1>1, <1>2
<1>5. /\ Finalized(u) \in [Counters -> Nat]
      /\ Finalized(u)["calls"] = Classified(Finalized(u))
      /\ Finalized(u)["issued"] = Settled(Finalized(u))
  BY FinalizedBalances
<1>6. /\ usage'[r] = Finalized(u) /\ usage' \in [Runs -> [Counters -> Nat]]
      /\ \A p \in Runs \ {r} : usage'[p] = usage[p]
  BY <1>1, <1>2, <1>5
<1>7. AdmissionInv' /\ admissions' \in Nat
  BY <1>1, <1>2, AdmissionMoves DEF Outside
<1>8. /\ phase' \in [Slots -> Phase] /\ call' \in [Slots -> Sigs]
      /\ err' \in [Slots -> Errors] /\ before' \in [Slots -> Nat \X Nat]
      /\ wanted' \in [Runs -> Seq(Sigs)] /\ taken' \in [Runs -> Nat]
      /\ wanted'[r] = << >> /\ taken'[r] = 0
      /\ \A o \in SlotsOf(r) : phase'[o] = "idle"
      /\ Pending(r)' = {} /\ InHand(r)' = {}
      /\ \A p \in Runs \ {r} : SameCalls(p)
  BY <1>2, FreedSlots
<1>9. Domains'
  BY <1>2, <1>3, <1>4, <1>6, <1>7, <1>8 DEF Domains, BrokerTypeOK
<1>10. \A p \in Runs \ {r} : Untouched(p)
  BY <1>2, <1>3, <1>4, <1>6, <1>8 DEF SameLedger, Untouched
<1>11. Batches(r)'
  BY <1>3, <1>8, EmptyBatch
<1>12. Reserve(r)'
  BY <1>3 DEF Reserve
<1>13. Counts(r)'
  <2>1. usage'[r]["calls"] = Classified(usage'[r]) /\ usage'[r]["issued"] = Settled(usage'[r])
    BY <1>5, <1>6
  <2>2. /\ usage'[r]["calls"] \in Nat /\ Classified(usage'[r]) \in Nat /\ Settled(usage'[r]) \in Nat
    <3>1. \A c \in Counters : usage'[r][c] \in Nat
      BY <1>6
    <3> QED BY <3>1 DEF Classified, Settled, Counters
  <2> QED BY <1>8, <2>1, <2>2, NoneIsZero DEF Counts
<1>14. Told(r)'
  BY <1>2, <1>3, <1>4, <1>8 DEF Told
<1>15. Confirms(r)'
  BY <1>2, <1>3, <1>4 DEF Confirms
<1> QED BY <1>7, <1>9, <1>10, <1>11, <1>12, <1>13, <1>14, <1>15 DEF RunInv

LEMMA LedgerCounts ==
  ASSUME Domains, NEW r \in Runs, RunInv(r)
  PROVE  /\ usage[r] \in [Counters -> Nat]
         /\ usage[r]["calls"] \in Nat /\ usage[r]["issued"] \in Nat
         /\ Classified(usage[r]) \in Nat /\ Settled(usage[r]) \in Nat
         /\ Cardinality(Pending(r)) \in Nat /\ Cardinality(InHand(r)) \in Nat
<1>1. usage \in [Runs -> [Counters -> Nat]]
  BY DEF Domains, BrokerTypeOK
<1>2. Batches(r)
  BY DEF RunInv
<1>3. Pending(r) \in SUBSET Taken(r) /\ InHand(r) \in SUBSET Taken(r)
  BY <1>2, CountedAreTaken
<1>4. \A T \in SUBSET Taken(r) : IsFiniteSet(T) /\ Cardinality(T) \in Nat
  BY <1>2, CallsAreFinite
<1> QED BY <1>1, <1>3, <1>4, SumsAreNatural

LEMMA FailureStatusType ==
  ASSUME NEW r, NEW e
  PROVE  /\ FailureStatus(r, e) \in Status \ {"Completed"}
         /\ dispatched[r] => FailureStatus(r, e) = "Failed"
<1>1. ErrorStatus(e) \in Status \ {"Completed"}
  BY DEF ErrorStatus, Status
<1> QED BY <1>1 DEF FailureStatus, Status

\* A run with nothing in hand knows every effect.
LEMMA EffectsKnown ==
  ASSUME NEW r \in Runs, RunInv(r), pc[r] # "done", InHand(r) = {}, effects \in [Runs -> [Sigs -> Effect]]
  PROVE  \A s \in Sigs : effects[r][s] \notin {"dispatched", "uncertain"}
BY DEF RunInv, Told

LEMMA FailKeeps ==
  ASSUME Domains, AdmissionInv, NEW r \in Runs, RunInv(r),
         pc[r] \notin Outside \cup {"exec"}, NEW e, Fail(r, e)
  PROVE  Domains' /\ AdmissionInv' /\ RunInv(r)' /\ \A p \in Runs \ {r} : Untouched(p)
<1>1. InHand(r) = {} /\ pc[r] # "done" /\ pc[r] \notin Outside
  BY NothingExecutes DEF Outside
<1>2. effects \in [Runs -> [Sigs -> Effect]] /\ effects' = effects
  BY DEF Domains, BrokerTypeOK, Fail
<1>3. Told(r) /\ Counts(r)
  BY DEF RunInv
<1>4. \A s \in Sigs : effects[r][s] \notin {"dispatched", "uncertain"}
  BY <1>1, <1>2, EffectsKnown
<1>5. usage[r] \in [Counters -> Nat] /\ usage[r]["calls"] >= Classified(usage[r])
      /\ usage[r]["issued"] = Settled(usage[r])
  BY <1>1, <1>3, LedgerCounts, NoneIsZero DEF Counts
<1>6. EndRun(r, FailureStatus(r, e), usage[r])
  BY DEF Fail
<1>7. FailureStatus(r, e) \in Status /\ FailureStatus(r, e) # "Completed"
  BY FailureStatusType
<1>8. \A s \in Sigs : ~Mutates(s) => effects'[r][s] = "none"
  BY <1>2, <1>3 DEF Told
<1>9. ~dispatched[r] => \A s \in Sigs : effects'[r][s] = "none"
  BY <1>2, <1>3 DEF Told
<1> HIDE DEF Outside
<1> QED BY <1>1, <1>2, <1>4, <1>5, <1>6, <1>7, <1>8, <1>9, EndKeeps

Fails(r) ==
  \/ RequestFails(r) \/ CallFails(r) \/ VmStopped(r) \/ VmFails(r) \/ FanOutRefused(r)
  \/ BatchStopped(r) \/ BatchRefused(r)

LEMMA FailingSteps ==
  ASSUME Domains, AdmissionInv, NEW r \in Runs, RunInv(r), Fails(r)
  PROVE  Domains' /\ AdmissionInv' /\ RunInv(r)' /\ \A p \in Runs \ {r} : Untouched(p)
<1>1. PICK e : pc[r] \notin Outside \cup {"exec"} /\ Fail(r, e)
  <2> USE DEF Outside
  <2>1. CASE RequestFails(r) BY <2>1, Zenon DEF RequestFails
  <2>2. CASE CallFails(r) BY <2>2, Zenon DEF CallFails
  <2>3. CASE VmStopped(r) BY <2>3 DEF VmStopped
  <2>4. CASE VmFails(r) BY <2>4 DEF VmFails
  <2>5. CASE FanOutRefused(r) BY <2>5 DEF FanOutRefused
  <2>6. CASE BatchStopped(r) BY <2>6 DEF BatchStopped
  <2>7. CASE BatchRefused(r) BY <2>7 DEF BatchRefused
  <2> QED BY <2>1, <2>2, <2>3, <2>4, <2>5, <2>6, <2>7 DEF Fails
<1> QED BY <1>1, FailKeeps

LEMMA SynthesizedKeeps ==
  ASSUME Domains, AdmissionInv, NEW r \in Runs, RunInv(r), Synthesized(r)
  PROVE  Domains' /\ AdmissionInv' /\ RunInv(r)' /\ \A p \in Runs \ {r} : Untouched(p)
<1>1. pc[r] = "synthesis" /\ EndRun(r, "Completed", usage[r]) /\ effects' = effects
  BY DEF Synthesized
<1>2. /\ InHand(r) = {} /\ \A s \in Sigs : Running(r, s) = {}
      /\ \A o \in SlotsOf(r) : phase[o] = "idle"
  BY <1>1, Quiet
<1>3. /\ effects \in [Runs -> [Sigs -> Effect]] /\ starts \in [Runs -> [Sigs -> Nat]]
      /\ confirmed \in [Runs -> [Sigs -> Nat]]
  BY DEF Domains, BrokerTypeOK
<1>4. Told(r) /\ Counts(r) /\ Confirms(r)
  BY DEF RunInv
<1>5. \A s \in Sigs : effects[r][s] \notin {"dispatched", "uncertain"}
  BY <1>1, <1>2, <1>3, EffectsKnown
<1>6. usage[r] \in [Counters -> Nat] /\ usage[r]["calls"] >= Classified(usage[r])
      /\ usage[r]["issued"] = Settled(usage[r])
  BY <1>2, <1>4, LedgerCounts, NoneIsZero DEF Counts
<1>7. \A s \in Sigs : starts[r][s] = confirmed[r][s]
  <2>1. \A o \in SlotsOf(r) : phase[o] \notin Bad
    BY <1>2 DEF Bad
  <2>2. \A s \in Sigs : starts[r][s] = confirmed[r][s] + Cardinality(Running(r, s))
    BY <1>1, <1>4, <2>1 DEF Confirms
  <2>3. \A s \in Sigs : Cardinality(Running(r, s)) = 0
    BY <1>2, NoneIsZero
  <2>4. \A s \in Sigs : confirmed[r][s] \in Nat
    BY <1>3
  <2> QED BY <2>2, <2>3, <2>4
<1>8. starts[r] = confirmed[r]
  BY <1>3, <1>7
<1>9. pc[r] \notin Outside /\ "Completed" \in Status
  BY <1>1 DEF Outside, Status
<1>10. /\ ~dispatched[r] => \A s \in Sigs : effects'[r][s] = "none"
       /\ \A s \in Sigs : ~Mutates(s) => effects'[r][s] = "none"
  BY <1>1, <1>4 DEF Told
<1> QED BY <1>1, <1>3, <1>5, <1>6, <1>8, <1>9, <1>10, EndKeeps

-----------------------------------------------------------------------------
(* Steps of a batch.                                                       *)

LEMMA YieldKeeps ==
  ASSUME Domains, AdmissionInv, NEW r \in Runs, RunInv(r), NEW b \in Seq(Sigs), Yield(r, b),
         Len(b) <= Len(SlotAt[r]),
         Len(b) > 1 => \A i \in 1..Len(b) : b[i] \in ParallelSafe
  PROVE  Domains' /\ AdmissionInv' /\ RunInv(r)' /\ \A p \in Runs \ {r} : Untouched(p)
<1>1. /\ pc \in [Runs -> Pc] /\ admissions \in Nat /\ wanted \in [Runs -> Seq(Sigs)]
  BY DEF Domains
<1>2. /\ pc[r] = "vm" /\ Goto(r, "batch") /\ wanted' = [wanted EXCEPT ![r] = b]
      /\ usage' = usage /\ seen' = seen /\ effects' = effects /\ status' = status
      /\ stop' = stop /\ phase' = phase /\ call' = call /\ err' = err /\ before' = before
      /\ holder' = holder /\ starts' = starts /\ confirmed' = confirmed
      /\ modelCalls' = modelCalls /\ attempt' = attempt /\ taken' = taken
      /\ dispatched' = dispatched /\ admissions' = admissions
  BY DEF Yield, OutOfBroker, brokerVars
<1>3. pc'[r] = "batch" /\ pc' \in [Runs -> Pc] /\ \A p \in Runs \ {r} : pc'[p] = pc[p]
  BY <1>1, <1>2 DEF Goto, Pc
<1>4. wanted'[r] = b /\ wanted' \in [Runs -> Seq(Sigs)] /\ \A p \in Runs \ {r} : wanted'[p] = wanted[p]
  BY <1>1, <1>2
<1>5. AdmissionInv' /\ admissions' \in Nat
  BY <1>1, <1>2, AdmissionMoves DEF Outside
<1>6. Domains'
  BY <1>2, <1>3, <1>4, <1>5 DEF Domains, BrokerTypeOK
<1>7. \A p \in Runs \ {r} : Untouched(p)
  BY <1>2, <1>3, <1>4 DEF SameCalls, SameLedger, Untouched
<1>8. /\ taken[r] = 0 /\ InHand(r) = {} /\ \A o \in SlotsOf(r) : phase[o] = "idle"
  BY <1>2, Quiet
<1>9. /\ Pending(r)' = Pending(r) /\ InHand(r)' = InHand(r) /\ SlotsOf(r)' = SlotsOf(r)
      /\ \A s \in Sigs : Running(r, s)' = Running(r, s)
  BY <1>2 DEF Pending, InHand, Running, SlotsOf
<1>10. Batches(r)'
  <2>1. Len(b) \in Nat /\ taken'[r] = 0 /\ \A i \in 1..taken'[r] : FALSE
    BY <1>2, <1>8
  <2> QED BY <1>2, <1>3, <1>4, <1>8, <1>9, <2>1 DEF Batches
<1>11. Reserve(r)'
  BY <1>2, <1>3 DEF RunInv, Reserve
<1>12. Counts(r)'
  BY <1>2, <1>3, <1>9 DEF RunInv, Counts
<1>13. Told(r)'
  BY <1>2, <1>3, <1>8, <1>9 DEF RunInv, Told
<1>14. Confirms(r)'
  BY <1>2, <1>3, <1>9 DEF RunInv, Confirms
<1> QED BY <1>5, <1>6, <1>7, <1>10, <1>11, <1>12, <1>13, <1>14 DEF RunInv

LEMMA YieldingSteps ==
  ASSUME Domains, AdmissionInv, NEW r \in Runs, RunInv(r), VmInvokes(r) \/ VmFansOut(r)
  PROVE  Domains' /\ AdmissionInv' /\ RunInv(r)' /\ \A p \in Runs \ {r} : Untouched(p)
<1>1. Len(SlotAt[r]) \in Nat /\ SlotAt[r] \in Seq(Slots)
  BY SlotsInOrder
<1>2. CASE VmInvokes(r)
  <2>1. PICK s \in Sigs : Yield(r, <<s>>)
    BY <1>2 DEF VmInvokes
  <2>2. <<s>> \in Seq(Sigs) /\ Len(<<s>>) = 1
    OBVIOUS
  <2>3. Len(SlotAt[r]) >= 1
    BY <1>1, <1>2 DEF VmInvokes
  <2>4. PICK b \in Seq(Sigs) : Len(b) = 1 /\ Yield(r, b)
    BY <2>1, <2>2, Zenon
  <2>5. Len(b) <= Len(SlotAt[r]) /\ ~(Len(b) > 1)
    BY <1>1, <2>3, <2>4
  <2> QED BY <2>4, <2>5, YieldKeeps
<1>3. CASE VmFansOut(r)
  <2>1. PICK b \in FanOuts(r) : FanOutAdmitted(b) /\ Yield(r, b)
    BY <1>3 DEF VmFansOut
  <2>2. PICK n \in 1..Len(SlotAt[r]) : b \in [1..n -> Sigs]
    BY <2>1 DEF FanOuts
  <2>3. b \in Seq(Sigs) /\ Len(b) = n /\ DOMAIN b = 1..n
    BY <1>1, <2>2
  <2>4. Len(b) <= Len(SlotAt[r]) /\ \A i \in 1..Len(b) : b[i] \in ParallelSafe
    BY <1>1, <2>1, <2>2, <2>3 DEF FanOutAdmitted
  <2> QED BY <2>1, <2>3, <2>4, YieldKeeps
<1> QED BY <1>2, <1>3

\* Growing a ledger by the call prepare took up.
LEMMA PrepareCounts ==
  ASSUME Domains, NEW r \in Runs, RunInv(r), NEW o \in SlotsOf(r), NEW s \in Sigs, PrepareMove(o, s)
  PROVE  /\ \A p \in SlotsOf(r) \ {o} : phase'[p] = phase[p] /\ call'[p] = call[p]
         /\ phase'[o] \in {"policy", "prepErr", "limit", "rejected", "reused"}
         /\ InHand(r)' = InHand(r) /\ \A t \in Sigs : Running(r, t)' = Running(r, t)
         /\ usage'[r]["calls"] >= Classified(usage'[r]) + Cardinality(Pending(r)')
         /\ usage'[r]["issued"] = Settled(usage'[r]) + Cardinality(InHand(r)')
<1>1. o \in Slots /\ RunOf[o] = r
  BY DEF SlotsOf
<1>2. /\ phase[o] = "idle"
      /\ \A p \in Slots \ {o} : phase'[p] = phase[p] /\ call'[p] = call[p]
  BY DEF PrepareMove
<1>3. usage \in [Runs -> [Counters -> Nat]]
  BY DEF Domains, BrokerTypeOK
<1>4. phase'[o] \in {"policy", "prepErr", "limit", "rejected", "reused"}
  BY DEF PrepareMove, AdmittedCall, PrepareRefused, PrepareUnknown, PrepareResolved
<1>5. InHand(r)' = InHand(r) /\ \A t \in Sigs : Running(r, t)' = Running(r, t)
  BY <1>1, <1>2, <1>4 DEF InHand, Running, SlotsOf, Dispatched, ExecPhases
<1>6. Pending(r)' = IF phase'[o] = "policy" THEN Pending(r) \cup {o} ELSE Pending(r)
  BY <1>1, <1>2, <1>4 DEF Pending, SlotsOf, Unclassified, PrepPhases
<1>7. o \notin Pending(r)
  BY <1>2 DEF Pending, Unclassified, PrepPhases
<1>8. IsFiniteSet(Pending(r))
  BY CallsAreFinite, CountedAreTaken DEF RunInv
<1>9. /\ usage[r]["calls"] \in Nat /\ usage[r]["issued"] \in Nat
      /\ Classified(usage[r]) \in Nat /\ Settled(usage[r]) \in Nat
      /\ Cardinality(Pending(r)) \in Nat /\ Cardinality(InHand(r)) \in Nat
  BY LedgerCounts
<1>10. /\ usage[r]["calls"] >= Classified(usage[r]) + Cardinality(Pending(r))
       /\ usage[r]["issued"] = Settled(usage[r]) + Cardinality(InHand(r))
  BY DEF RunInv, Counts
<1>11. CASE AdmittedCall(o, s)
  <2>1. phase'[o] = "policy" /\ Bump(r, {"calls"})
    BY <1>1, <1>11 DEF AdmittedCall
  <2>2. Cardinality(Pending(r)') = Cardinality(Pending(r)) + 1
    BY <1>6, <1>7, <1>8, <2>1, FS_AddElement
  <2>3. /\ usage'[r]["calls"] = usage[r]["calls"] + 1
        /\ usage'[r]["issued"] = usage[r]["issued"]
        /\ Classified(usage'[r]) = Classified(usage[r])
        /\ Settled(usage'[r]) = Settled(usage[r])
    BY <1>3, <2>1, BumpOpens
  <2> QED BY <1>1, <1>2, <1>4, <1>5, <1>9, <1>10, <2>2, <2>3 DEF SlotsOf
<1>12. CASE phase'[o] # "policy" /\ usage' = usage
  BY <1>1, <1>2, <1>4, <1>5, <1>6, <1>10, <1>12 DEF SlotsOf
<1>13. CASE phase'[o] # "policy" /\ Bump(r, {"calls"})
  <2>1. /\ usage'[r]["calls"] = usage[r]["calls"] + 1
        /\ usage'[r]["issued"] = usage[r]["issued"]
        /\ Classified(usage'[r]) = Classified(usage[r])
        /\ Settled(usage'[r]) = Settled(usage[r])
    BY <1>3, <1>13, BumpOpens
  <2> QED BY <1>1, <1>2, <1>4, <1>5, <1>6, <1>9, <1>10, <1>13, <2>1 DEF SlotsOf
<1>14. CASE phase'[o] # "policy" /\ (Bump(r, {"calls", "rejected"}) \/ Bump(r, {"calls", "reused"}))
  <2>1. /\ usage'[r]["calls"] = usage[r]["calls"] + 1
        /\ usage'[r]["issued"] = usage[r]["issued"]
        /\ Classified(usage'[r]) = Classified(usage[r]) + 1
        /\ Settled(usage'[r]) = Settled(usage[r])
    BY <1>3, <1>14, BumpAdmits
  <2> QED BY <1>1, <1>2, <1>4, <1>5, <1>6, <1>9, <1>10, <1>14, <2>1 DEF SlotsOf
<1>15. \/ AdmittedCall(o, s)
       \/ phase'[o] # "policy" /\ usage' = usage
       \/ phase'[o] # "policy" /\ Bump(r, {"calls"})
       \/ phase'[o] # "policy" /\ (Bump(r, {"calls", "rejected"}) \/ Bump(r, {"calls", "reused"}))
  BY <1>1 DEF PrepareMove, PrepareRefused, PrepareUnknown, PrepareResolved
<1> QED BY <1>11, <1>12, <1>13, <1>14, <1>15

LEMMA PrepareNextKeeps ==
  ASSUME Domains, AdmissionInv, NEW r \in Runs, RunInv(r), PrepareNext(r)
  PROVE  Domains' /\ AdmissionInv' /\ RunInv(r)' /\ \A p \in Runs \ {r} : Untouched(p)
<1>0. PICK n, o, s : n = taken[r] + 1 /\ o = SlotAt[r][n] /\ s = wanted[r][n]
  OBVIOUS
<1>1. /\ wanted[r] \in Seq(Sigs) /\ Len(wanted[r]) \in Nat /\ taken[r] \in Nat
      /\ Len(SlotAt[r]) \in Nat /\ Len(wanted[r]) <= Len(SlotAt[r])
  BY WantedInOrder, SlotsInOrder DEF RunInv, Batches
<1>2. /\ pc[r] = "batch" /\ taken[r] < Len(wanted[r]) /\ \A p \in Taken(r) : Decided(p)
      /\ taken' = [taken EXCEPT ![r] = n] /\ Prepare(o, s)
      /\ pc' = pc /\ modelCalls' = modelCalls /\ attempt' = attempt /\ wanted' = wanted
      /\ dispatched' = dispatched /\ admissions' = admissions
  BY <1>0 DEF PrepareNext
<1>3. n \in 1..Len(wanted[r]) /\ n \in 1..Len(SlotAt[r])
  BY <1>0, <1>1, <1>2
<1>4. s \in Sigs /\ o \in SlotsOf(r) /\ o \in Slots /\ RunOf[o] = r
  BY <1>0, <1>3, WantedInOrder, SlotsInOrder DEF SlotsOf
<1>5. BrokerTypeOK /\ taken \in [Runs -> Nat]
  BY DEF Domains
<1>6. BrokerTypeOK'
  BY <1>2, <1>4, <1>5, PrepareType
<1>7. PrepareMove(o, s)
  BY <1>2, <1>4, <1>5, PrepareMoves
<1>8. taken'[r] = n /\ taken' \in [Runs -> Nat] /\ \A p \in Runs \ {r} : taken'[p] = taken[p]
  BY <1>0, <1>1, <1>2, <1>5
<1>9. AdmissionInv'
  BY <1>2, AdmissionsStay
<1>10. Domains'
  BY <1>2, <1>6, <1>8 DEF Domains
<1>11. /\ \A p \in Slots \ {o} : phase'[p] = phase[p] /\ call'[p] = call[p]
       /\ call'[o] = s /\ effects' = effects /\ starts' = starts /\ confirmed' = confirmed
       /\ status' = status \/ status' = [status EXCEPT ![r] = "LimitReached"]
  BY <1>4, <1>7 DEF PrepareMove, historyVars
<1>12. /\ \A p \in SlotsOf(r) \ {o} : phase'[p] = phase[p] /\ call'[p] = call[p]
       /\ phase'[o] \in {"policy", "prepErr", "limit", "rejected", "reused"}
       /\ InHand(r)' = InHand(r) /\ \A t \in Sigs : Running(r, t)' = Running(r, t)
       /\ usage'[r]["calls"] >= Classified(usage'[r]) + Cardinality(Pending(r)')
       /\ usage'[r]["issued"] = Settled(usage'[r]) + Cardinality(InHand(r)')
  BY <1>4, <1>7, PrepareCounts
<1>13. \A p \in Runs \ {r} : Untouched(p)
  <2>1. OwnRunOnly(o)
    BY <1>4, <1>5, <1>7, PrepareIsOwnRun
  <2>2. status \in [Runs -> Status]
    BY <1>5 DEF BrokerTypeOK
  <2>3. \A p \in Runs \ {r} : SameCalls(p)
    BY <1>2, <1>4, <1>8, <1>11 DEF SameCalls, SlotsOf
  <2>4. \A p \in Runs \ {r} : SameLedger(p)
    BY <1>2, <1>4, <2>1 DEF SameLedger, OwnRunOnly
  <2> QED BY <1>2, <1>11, <2>2, <2>3, <2>4 DEF Untouched
<1>14. Batches(r)
  BY DEF RunInv
<1>15. \A i \in 1..taken[r] : SlotAt[r][i] \in SlotsOf(r) \ {o}
  BY <1>0, <1>1, <1>3, SlotsInOrder
<1>17. pc'[r] = "batch"
  BY <1>2
<1>18. (1..n) = (1..taken[r]) \cup {n}
  BY <1>0, <1>1
<1>19. SlotsOf(r)' = SlotsOf(r)
  BY DEF SlotsOf
<1>20. SlotAt[r][n] = o /\ wanted[r][n] = s
  BY <1>0
<1>21. Batches(r)'
  <2>1. wanted'[r] = wanted[r] /\ taken'[r] = n /\ n \in 0..Len(wanted[r])
    BY <1>1, <1>2, <1>3, <1>8
  <2>2. Taken(r)' = Taken(r) \cup {o}
    BY <1>8, <1>18, <1>20 DEF Taken
  <2>3. \A p \in SlotsOf(r) \ Taken(r)' : phase'[p] = "idle"
    <3>1. SUFFICES ASSUME NEW p \in SlotsOf(r) \ Taken(r)' PROVE phase'[p] = "idle"
      OBVIOUS
    <3>2. p \in SlotsOf(r) \ {o} /\ p \in SlotsOf(r) \ Taken(r)
      BY <2>2, <3>1
    <3> QED BY <1>12, <1>14, <3>2 DEF Batches
  <2>4. \A i \in 1..n : call'[SlotAt[r][i]] = wanted[r][i]
    <3>1. \A i \in 1..taken[r] : call'[SlotAt[r][i]] = wanted[r][i]
      BY <1>12, <1>14, <1>15 DEF Batches
    <3> QED BY <1>11, <1>18, <1>20, <3>1
  <2>5. \A i \in 1..n : Decided(SlotAt[r][i])' \/ (i = n /\ phase'[SlotAt[r][i]] \in Undecided)
    <3>1. \A i \in 1..taken[r] : Decided(SlotAt[r][i])'
      <4>1. \A i \in 1..taken[r] : Decided(SlotAt[r][i])
        BY <1>2 DEF Taken
      <4> QED BY <1>12, <1>15, <4>1 DEF Decided
    <3>2. Decided(o)' \/ phase'[o] \in Undecided
      BY <1>12 DEF Decided, Undecided
    <3>3. Decided(SlotAt[r][n])' \/ phase'[SlotAt[r][n]] \in Undecided
      BY <1>20, <3>2
    <3> QED BY <1>18, <3>1, <3>3
  <2> QED BY <1>14, <1>17, <1>19, <2>1, <2>3, <2>4, <2>5 DEF Batches
<1>22. Reserve(r)'
  BY <1>2, <1>17 DEF RunInv, Reserve
<1>23. Counts(r)'
  BY <1>12, <1>17 DEF Counts
<1>24. Told(r)'
  <2>1. InHand(r) = {}
    BY <1>2, NothingExecutes
  <2> QED BY <1>2, <1>11, <1>12, <1>17, <2>1 DEF RunInv, Told
<1>25. Confirms(r)'
  <2>1. Confirms(r) /\ status[r] # "Completed" /\ status \in [Runs -> Status]
    BY <1>2, <1>5 DEF RunInv, Confirms, BrokerTypeOK
  <2>2. status'[r] # "Completed"
    BY <1>11, <2>1
  <2>3. phase[o] = "idle"
    BY <1>7 DEF PrepareMove
  <2>4. (\A p \in SlotsOf(r) : phase'[p] \notin Bad) => \A p \in SlotsOf(r) : phase[p] \notin Bad
    BY <1>12, <2>3 DEF Bad
  <2> QED BY <1>2, <1>11, <1>12, <1>17, <1>19, <2>1, <2>2, <2>4 DEF Confirms
<1> QED BY <1>9, <1>10, <1>13, <1>21, <1>22, <1>23, <1>24, <1>25 DEF RunInv

LEMMA DispatchKeeps ==
  ASSUME Domains, AdmissionInv, NEW r \in Runs, RunInv(r), DispatchBatch(r)
  PROVE  Domains' /\ AdmissionInv' /\ RunInv(r)' /\ \A p \in Runs \ {r} : Untouched(p)
<1> DEFINE N == Cardinality(Ready(r))
           D == [s \in Sigs |-> IF Mutates(s) /\ \E o \in Ready(r) : call[o] = s
                                  THEN "dispatched" ELSE effects[r][s]]
<1>1. /\ pc \in [Runs -> Pc] /\ admissions \in Nat /\ usage \in [Runs -> [Counters -> Nat]]
      /\ effects \in [Runs -> [Sigs -> Effect]] /\ phase \in [Slots -> Phase]
      /\ dispatched \in [Runs -> BOOLEAN]
  BY DEF Domains, BrokerTypeOK
<1>2. /\ pc[r] = "batch" /\ BatchPrepared(r) /\ Goto(r, "exec")
      /\ usage' = [usage EXCEPT ![r]["issued"] = @ + N]
      /\ phase' = [o \in Slots |-> IF o \in Ready(r) THEN "starting" ELSE phase[o]]
      /\ dispatched' = [dispatched EXCEPT ![r] = @ \/ Ready(r) # {}]
      /\ seen' = seen /\ status' = status /\ stop' = stop /\ call' = call /\ err' = err
      /\ before' = before /\ holder' = holder /\ starts' = starts /\ confirmed' = confirmed
      /\ modelCalls' = modelCalls /\ attempt' = attempt /\ wanted' = wanted /\ taken' = taken
      /\ admissions' = admissions
  BY DEF DispatchBatch, historyVars
<1>3. effects' = [effects EXCEPT ![r] = D]
  BY DEF DispatchBatch
<1>4. Batches(r) /\ Batch(r) = Taken(r) /\ Batch(r) \subseteq SlotsOf(r)
  <2>1. Batches(r) /\ taken[r] = Len(wanted[r])
    BY <1>2 DEF RunInv, BatchPrepared
  <2>2. Batch(r) = Taken(r)
    BY <2>1 DEF Batch, Taken
  <2> QED BY <2>1, <2>2, CallsAreFinite
<1>5. \A o \in Taken(r) : phase[o] \in {"ready", "rejected", "reused"}
  BY <1>2, <1>4 DEF BatchPrepared, Decided
<1>6. \A o \in SlotsOf(r) \ Taken(r) : phase[o] = "idle"
  BY <1>4 DEF Batches
<1>7. Pending(r) = Ready(r) /\ InHand(r) = {} /\ Ready(r) \subseteq Taken(r)
  BY <1>4, <1>5, <1>6
     DEF Pending, InHand, Ready, Unclassified, Dispatched, PrepPhases, ExecPhases
<1>8. N \in Nat /\ IsFiniteSet(Ready(r))
  BY <1>4, <1>7, CallsAreFinite
<1>9. Ready(r) \subseteq Slots /\ Ready(r) \subseteq SlotsOf(r)
  BY <1>4, <1>7 DEF SlotsOf
<1>10. /\ \A o \in SlotsOf(r) : phase'[o] = IF o \in Ready(r) THEN "starting" ELSE phase[o]
       /\ \A o \in Slots : o \notin SlotsOf(r) => phase'[o] = phase[o]
  BY <1>2, <1>9 DEF SlotsOf
<1>11. /\ Pending(r)' = {} /\ InHand(r)' = Ready(r)
       /\ \A s \in Sigs : Running(r, s)' = {} /\ Running(r, s) = {}
  <2>1. \A o \in SlotsOf(r) : phase'[o] \in {"starting", "rejected", "reused", "idle"}
                               /\ (phase'[o] = "starting" <=> o \in Ready(r))
    BY <1>4, <1>5, <1>6, <1>10 DEF Ready
  <2>2. SlotsOf(r)' = SlotsOf(r)
    BY DEF SlotsOf
  <2>3. Pending(r)' = {} /\ \A s \in Sigs : Running(r, s)' = {}
    BY <2>1, <2>2 DEF Pending, Running, Unclassified, PrepPhases
  <2>4. InHand(r)' = Ready(r)
    BY <1>9, <2>1, <2>2 DEF InHand, Dispatched, ExecPhases
  <2>5. \A s \in Sigs : Running(r, s) = {}
    BY <1>5, <1>6 DEF Running
  <2> QED BY <2>3, <2>4, <2>5
<1>12. pc'[r] = "exec" /\ pc' \in [Runs -> Pc] /\ \A p \in Runs \ {r} : pc'[p] = pc[p]
  BY <1>1, <1>2 DEF Goto, Pc
<1>13. D \in [Sigs -> Effect]
  BY <1>1 DEF Effect
<1>14. /\ effects' \in [Runs -> [Sigs -> Effect]] /\ effects'[r] = D
       /\ \A p \in Runs \ {r} : effects'[p] = effects[p]
  <2> HIDE DEF D
  <2> QED BY <1>1, <1>3, <1>13
<1>15. /\ usage' \in [Runs -> [Counters -> Nat]] /\ usage'[r]["issued"] = usage[r]["issued"] + N
       /\ \A c \in Counters \ {"issued"} : usage'[r][c] = usage[r][c]
       /\ \A p \in Runs \ {r} : usage'[p] = usage[p]
  <2> HIDE DEF N
  <2>1. [usage[r] EXCEPT !["issued"] = @ + N] \in [Counters -> Nat]
    BY <1>1, <1>8 DEF Counters
  <2>2. usage' = [usage EXCEPT ![r] = [usage[r] EXCEPT !["issued"] = @ + N]]
    BY <1>1, <1>2
  <2> QED BY <1>1, <2>1, <2>2 DEF Counters
<1>16. /\ dispatched' \in [Runs -> BOOLEAN] /\ (dispatched'[r] <=> dispatched[r] \/ Ready(r) # {})
       /\ \A p \in Runs \ {r} : dispatched'[p] = dispatched[p]
  BY <1>1, <1>2
<1>17. phase' \in [Slots -> Phase]
  BY <1>1, <1>2 DEF Phase, ExecPhases
<1>18. AdmissionInv' /\ admissions' \in Nat
  BY <1>1, <1>2, AdmissionMoves DEF Outside
<1>19. Domains'
  BY <1>2, <1>12, <1>14, <1>15, <1>16, <1>17, <1>18 DEF Domains, BrokerTypeOK
<1>20. \A p \in Runs \ {r} : Untouched(p)
  <2>1. \A p \in Runs \ {r} : SameCalls(p)
    BY <1>2, <1>10 DEF SameCalls, SlotsOf
  <2> QED BY <1>2, <1>12, <1>14, <1>15, <1>16, <2>1 DEF SameLedger, Untouched
<1>21. Batches(r)'
  <2>1. Taken(r)' = Taken(r) /\ SlotsOf(r)' = SlotsOf(r) /\ wanted'[r] = wanted[r] /\ taken'[r] = taken[r]
    BY <1>2 DEF Taken, SlotsOf
  <2>2. \A o \in SlotsOf(r) \ Taken(r) : phase'[o] = "idle"
    BY <1>6, <1>7, <1>10
  <2>3. \A o \in Taken(r) : phase'[o] \in Resolved \cup Dispatched
    <3>1. \A o \in Taken(r) : o \in SlotsOf(r)
      BY <1>4
    <3>2. \A o \in Taken(r) : o \notin Ready(r) => phase[o] \in {"rejected", "reused"}
      BY <1>4, <1>5 DEF Ready
    <3> QED BY <1>10, <3>1, <3>2 DEF Resolved, Dispatched, ExecPhases
  <2>4. taken[r] = Len(wanted[r])
    BY <1>2 DEF BatchPrepared
  <2> QED BY <1>2, <1>4, <1>12, <2>1, <2>2, <2>3, <2>4 DEF Batches
<1>22. Reserve(r)'
  BY <1>2, <1>12 DEF RunInv, Reserve
<1>23. Counts(r)'
  <2> DEFINE u == usage[r]
             v == usage'[r]
  <2>1. /\ u["calls"] >= Classified(u) + N /\ u["issued"] = Settled(u)
    <3>1. Counts(r) /\ Settled(usage[r]) \in Nat
      BY LedgerCounts DEF RunInv
    <3>2. Cardinality(Pending(r)) = N /\ Cardinality(InHand(r)) = 0
      BY <1>7, NoneIsZero
    <3> HIDE DEF N
    <3> QED BY <3>1, <3>2 DEF Counts
  <2>2. \A c \in Counters : u[c] \in Nat
    BY <1>1
  <2>3. v["issued"] = u["issued"] + N /\ \A c \in Counters \ {"issued"} : v[c] = u[c]
    BY <1>15
  <2> HIDE DEF u, v, N
  <2>4. /\ v["calls"] >= Classified(v) /\ v["issued"] = Settled(v) + N
        /\ v["calls"] \in Nat /\ Classified(v) \in Nat
    BY <1>8, <2>1, <2>2, <2>3 DEF Counters, Classified, Settled
  <2>5. Cardinality(InHand(r)') = N /\ Cardinality(Pending(r)') = 0
    BY <1>11, NoneIsZero DEF N
  <2>6. v = usage'[r]
    BY DEF v
  <2> QED BY <1>12, <2>4, <2>5, <2>6 DEF Counts
<1>24. Told(r)'
  <2>1. Told(r)
    BY DEF RunInv
  <2>2. \A s \in Sigs : effects[r][s] \notin {"dispatched", "uncertain"}
    BY <1>1, <1>2, <1>7, EffectsKnown
  <2>3. \A s \in Sigs : effects'[r][s] = IF Mutates(s) /\ \E o \in Ready(r) : call[o] = s
                                           THEN "dispatched" ELSE effects[r][s]
    BY <1>14
  <2>4. ~dispatched'[r] => Ready(r) = {} /\ ~dispatched[r]
    BY <1>16
  <2>5. ~dispatched'[r] => InHand(r)' = {} /\ \A s \in Sigs : effects'[r][s] = "none"
    BY <1>11, <2>1, <2>3, <2>4 DEF Told
  <2>6. \A s \in Sigs : /\ ~Mutates(s) => effects'[r][s] = "none"
                        /\ effects'[r][s] # "uncertain"
                        /\ effects'[r][s] = "dispatched" => \E o \in InHand(r)' : call'[o] = s
    BY <1>2, <1>11, <2>1, <2>2, <2>3 DEF Told
  <2> QED BY <1>12, <2>5, <2>6 DEF Told
<1>25. Confirms(r)'
  <2>1. \A o \in SlotsOf(r) : phase[o] \notin Bad
    BY <1>5, <1>6 DEF Bad
  <2>2. Confirms(r)
    BY DEF RunInv
  <2> QED BY <1>2, <1>11, <1>12, <2>1, <2>2 DEF Confirms
<1> QED BY <1>18, <1>19, <1>20, <1>21, <1>22, <1>23, <1>24, <1>25 DEF RunInv

\* What the calls of a dispatched batch leave when the last of them is over.
LEMMA BatchIsOver ==
  ASSUME Domains, NEW r \in Runs, RunInv(r), pc[r] = "exec", BatchOver(r)
  PROVE  /\ Batch(r) \subseteq SlotsOf(r) /\ IsFiniteSet(InHand(r))
         /\ {o \in Batch(r) : Over(o)} = InHand(r)
         /\ \A o \in InHand(r) : phase[o] \in {"execOk", "execFail", "execErr"}
         /\ \A o \in SlotsOf(r) \ InHand(r) : phase[o] \in {"idle", "rejected", "reused"}
         /\ \A s \in Sigs : Running(r, s) = {}
<1>1. Batches(r) /\ taken[r] = Len(wanted[r])
  BY DEF RunInv, Batches
<1>2. Batch(r) = Taken(r) /\ Batch(r) \subseteq SlotsOf(r) /\ IsFiniteSet(Taken(r))
  BY <1>1, CallsAreFinite DEF Batch, Taken
<1>3. \A o \in Batch(r) : phase[o] \in {"execOk", "execFail", "execErr", "rejected", "reused"}
  BY DEF BatchOver, Over
<1>4. \A o \in SlotsOf(r) \ Batch(r) : phase[o] = "idle"
  BY <1>1, <1>2 DEF Batches
<1>5. \A o \in SlotsOf(r) : o \in InHand(r) <=> o \in Batch(r) /\ Over(o)
  BY <1>3, <1>4 DEF InHand, Over, Dispatched, ExecPhases
<1>6. InHand(r) \subseteq SlotsOf(r)
  BY DEF InHand
<1>7. {o \in Batch(r) : Over(o)} = InHand(r)
  BY <1>2, <1>5, <1>6
<1>8. \A o \in SlotsOf(r) \ InHand(r) : phase[o] \in {"idle", "rejected", "reused"}
  BY <1>3, <1>4, <1>5 DEF Over
<1>9. IsFiniteSet(InHand(r))
  BY <1>2, <1>7, FS_Subset
<1>10. \A s \in Sigs : Running(r, s) = {}
  BY <1>3, <1>4 DEF Running
<1> QED BY <1>2, <1>3, <1>7, <1>8, <1>9, <1>10 DEF Over

\* Whichever of them count as good, every call issued is settled.
LEMMA SettledIsIssued ==
  ASSUME Domains, NEW r \in Runs, RunInv(r), pc[r] = "exec", BatchOver(r),
         NEW good \in SUBSET InHand(r)
  PROVE  LET u == SettledUsage(r, good) IN
         /\ u \in [Counters -> Nat]
         /\ u["calls"] >= Classified(u) /\ u["issued"] = Settled(u)
         /\ u["calls"] = usage[r]["calls"] /\ Classified(u) = Classified(usage[r])
<1> DEFINE bad == InHand(r) \ good
           cut == {o \in bad : phase[o] = "execErr" /\ Interrupted(err[o])}
           G == Cardinality(good)
           C == Cardinality(cut)
           F == Cardinality(bad \ cut)
           H == Cardinality(InHand(r))
           u == usage[r]
           v == SettledUsage(r, good)
<1>1. {o \in Batch(r) : Over(o)} = InHand(r) /\ IsFiniteSet(InHand(r))
  BY BatchIsOver
<1>2. v = [u EXCEPT !["completed"] = @ + G, !["cancelled"] = @ + C, !["failed"] = @ + F]
  BY <1>1 DEF SettledUsage
<1>3. /\ IsFiniteSet(good) /\ IsFiniteSet(bad) /\ IsFiniteSet(cut) /\ IsFiniteSet(bad \ cut)
      /\ G \in Nat /\ C \in Nat /\ F \in Nat /\ H \in Nat
  <2>1. good \subseteq InHand(r) /\ bad \subseteq InHand(r) /\ cut \subseteq InHand(r)
        /\ (bad \ cut) \subseteq InHand(r)
    OBVIOUS
  <2> HIDE DEF bad, cut
  <2>2. IsFiniteSet(good) /\ IsFiniteSet(bad) /\ IsFiniteSet(cut) /\ IsFiniteSet(bad \ cut)
    BY <1>1, <2>1, FS_Subset
  <2> QED BY <1>1, <2>2, FS_CardinalityType
<1>4. H = G + C + F
  <2>1. cut \subseteq bad /\ InHand(r) = good \cup bad /\ good \cap bad = {}
        /\ bad = cut \cup (bad \ cut) /\ cut \cap (bad \ cut) = {}
    OBVIOUS
  <2> HIDE DEF bad, cut
  <2>2. Cardinality(InHand(r)) = G + Cardinality(bad) - 0
    BY <1>3, <2>1, FS_Union, NoneIsZero, SMTT(30)
  <2>3. Cardinality(bad) = C + F - 0
    BY <1>3, <2>1, FS_Union, NoneIsZero
  <2> HIDE DEF G, C, F
  <2> QED BY <1>3, <2>2, <2>3
<1>5. u \in [Counters -> Nat] /\ u["calls"] >= Classified(u) /\ u["issued"] = Settled(u) + H
  <2>1. /\ u \in [Counters -> Nat] /\ Classified(u) \in Nat /\ Cardinality(Pending(r)) \in Nat
        /\ u["calls"] \in Nat
    BY LedgerCounts
  <2>2. u["calls"] >= Classified(u) + Cardinality(Pending(r)) /\ u["issued"] = Settled(u) + H
    BY DEF RunInv, Counts
  <2> HIDE DEF u, H
  <2> QED BY <2>1, <2>2
<1> HIDE DEF bad, cut, G, C, F, H, u, v
<1>6. \A c \in Counters : u[c] \in Nat
  BY <1>5
<1>7. /\ v["completed"] = u["completed"] + G /\ v["cancelled"] = u["cancelled"] + C
      /\ v["failed"] = u["failed"] + F
      /\ \A c \in Counters \ {"completed", "cancelled", "failed"} : v[c] = u[c]
      /\ v \in [Counters -> Nat]
  BY <1>2, <1>3, <1>5, <1>6 DEF Counters
<1>8. /\ Classified(v) = Classified(u) /\ v["calls"] = u["calls"] /\ v["issued"] = u["issued"]
  BY <1>6, <1>7 DEF Classified, Counters
<1>9. Settled(v) = Settled(u) + H
  <2>1. u["completed"] \in Nat /\ u["cancelled"] \in Nat /\ u["failed"] \in Nat
    BY <1>6 DEF Counters
  <2>2. Settled(v) = u["completed"] + G + (u["failed"] + F) + (u["cancelled"] + C)
    BY <1>7 DEF Settled
  <2>3. Settled(u) = u["completed"] + u["failed"] + u["cancelled"]
    BY DEF Settled
  <2> QED BY <1>3, <1>4, <2>1, <2>2, <2>3
<1> QED BY <1>5, <1>7, <1>8, <1>9 DEF u, v

\* And the ledger's word on every state-changing call of the batch.
LEMMA SettledIsKnown ==
  ASSUME Domains, NEW r \in Runs, RunInv(r), pc[r] = "exec", BatchOver(r),
         NEW good \in SUBSET InHand(r), effects' = SettledEffects(r, good)
  PROVE  /\ effects' \in [Runs -> [Sigs -> Effect]]
         /\ \A p \in Runs \ {r} : effects'[p] = effects[p]
         /\ InHand(r) = {} => effects'[r] = effects[r]
         /\ \A s \in Sigs : /\ ~Mutates(s) => effects'[r][s] = "none"
                            /\ effects'[r][s] # "dispatched"
                            /\ effects'[r][s] = "uncertain" => good # InHand(r)
<1> DEFINE Here(s) == {o \in InHand(r) : call[o] = s}
           E == [s \in Sigs |-> IF ~Mutates(s) \/ Here(s) = {} THEN effects[r][s]
                                ELSE IF Here(s) \subseteq good THEN "completed" ELSE "uncertain"]
<1>1. {o \in Batch(r) : Over(o)} = InHand(r)
  BY BatchIsOver
<1>2. \A s \in Sigs : {o \in Batch(r) : Over(o) /\ call[o] = s} = Here(s)
  BY <1>1
<1>3. effects \in [Runs -> [Sigs -> Effect]]
  BY DEF Domains, BrokerTypeOK
<1>4. effects' = [effects EXCEPT ![r] = E]
  BY <1>2 DEF SettledEffects
<1>5. E \in [Sigs -> Effect]
  BY <1>3 DEF Effect
<1>6. effects'[r] = E /\ effects' \in [Runs -> [Sigs -> Effect]]
      /\ \A p \in Runs \ {r} : effects'[p] = effects[p]
  <2> HIDE DEF E
  <2> QED BY <1>3, <1>4, <1>5
<1>7. Told(r)
  BY DEF RunInv
<1>8. ASSUME InHand(r) = {} PROVE effects'[r] = effects[r]
  <2>1. \A s \in Sigs : Here(s) = {}
    BY <1>8
  <2>2. \A s \in Sigs : E[s] = effects[r][s]
    BY <2>1
  <2>3. effects[r] \in [Sigs -> Effect]
    BY <1>3
  <2> HIDE DEF E
  <2> QED BY <1>5, <1>6, <2>2, <2>3
<1>9. ASSUME NEW s \in Sigs
      PROVE  /\ ~Mutates(s) => effects'[r][s] = "none"
             /\ effects'[r][s] # "dispatched"
             /\ effects'[r][s] = "uncertain" => good # InHand(r)
  <2>1. effects'[r][s] = IF ~Mutates(s) \/ Here(s) = {} THEN effects[r][s]
                         ELSE IF Here(s) \subseteq good THEN "completed" ELSE "uncertain"
    BY <1>6
  <2>2. /\ ~Mutates(s) => effects[r][s] = "none"
        /\ effects[r][s] # "uncertain"
        /\ effects[r][s] = "dispatched" => Here(s) # {}
    BY <1>7 DEF Told
  <2>3. Here(s) \subseteq InHand(r)
    OBVIOUS
  <2> HIDE DEF Here
  <2> QED BY <2>1, <2>2, <2>3
<1> QED BY <1>6, <1>8, <1>9

LEMMA ResumeKeeps ==
  ASSUME Domains, AdmissionInv, NEW r \in Runs, RunInv(r), ResumeVm(r)
  PROVE  Domains' /\ AdmissionInv' /\ RunInv(r)' /\ \A p \in Runs \ {r} : Untouched(p)
<1>1. /\ pc \in [Runs -> Pc] /\ admissions \in Nat /\ usage \in [Runs -> [Counters -> Nat]]
      /\ starts \in [Runs -> [Sigs -> Nat]] /\ confirmed \in [Runs -> [Sigs -> Nat]]
  BY DEF Domains, BrokerTypeOK
<1>2. pc[r] = "exec" /\ BatchOver(r)
  BY DEF ResumeVm
<1>3. /\ {o \in Batch(r) : Over(o)} = InHand(r)
      /\ \A o \in SlotsOf(r) \ InHand(r) : phase[o] \in {"idle", "rejected", "reused"}
      /\ \A s \in Sigs : Running(r, s) = {}
  BY <1>2, BatchIsOver
<1>4. /\ Goto(r, "vm") /\ FreeSlots(r)
      /\ usage' = [usage EXCEPT ![r] = SettledUsage(r, InHand(r))]
      /\ effects' = SettledEffects(r, InHand(r))
      /\ \A o \in InHand(r) : phase[o] = "execOk"
      /\ seen' = seen /\ status' = status /\ stop' = stop /\ holder' = holder
      /\ starts' = starts /\ confirmed' = confirmed /\ modelCalls' = modelCalls
      /\ attempt' = attempt /\ dispatched' = dispatched /\ admissions' = admissions
  BY <1>3 DEF ResumeVm, historyVars
<1>5. /\ SettledUsage(r, InHand(r)) \in [Counters -> Nat]
      /\ SettledUsage(r, InHand(r))["calls"] >= Classified(SettledUsage(r, InHand(r)))
      /\ SettledUsage(r, InHand(r))["issued"] = Settled(SettledUsage(r, InHand(r)))
  BY <1>2, SettledIsIssued
<1>6. /\ effects' \in [Runs -> [Sigs -> Effect]] /\ \A p \in Runs \ {r} : effects'[p] = effects[p]
      /\ InHand(r) = {} => effects'[r] = effects[r]
      /\ \A s \in Sigs : /\ ~Mutates(s) => effects'[r][s] = "none"
                         /\ effects'[r][s] # "dispatched" /\ effects'[r][s] # "uncertain"
  BY <1>2, <1>4, SettledIsKnown
<1>7. /\ phase' \in [Slots -> Phase] /\ call' \in [Slots -> Sigs]
      /\ err' \in [Slots -> Errors] /\ before' \in [Slots -> Nat \X Nat]
      /\ wanted' \in [Runs -> Seq(Sigs)] /\ taken' \in [Runs -> Nat]
      /\ wanted'[r] = << >> /\ taken'[r] = 0
      /\ \A o \in SlotsOf(r) : phase'[o] = "idle"
      /\ Pending(r)' = {} /\ InHand(r)' = {} /\ \A s \in Sigs : Running(r, s)' = {}
      /\ \A p \in Runs \ {r} : SameCalls(p)
  BY <1>4, FreedSlots
<1>8. pc'[r] = "vm" /\ pc' \in [Runs -> Pc] /\ \A p \in Runs \ {r} : pc'[p] = pc[p]
  BY <1>1, <1>4 DEF Goto, Pc
<1>9. /\ usage'[r] = SettledUsage(r, InHand(r)) /\ usage' \in [Runs -> [Counters -> Nat]]
      /\ \A p \in Runs \ {r} : usage'[p] = usage[p]
  BY <1>1, <1>4, <1>5
<1>10. AdmissionInv' /\ admissions' \in Nat
  BY <1>1, <1>2, <1>4, AdmissionMoves DEF Outside
<1>11. Domains'
  BY <1>4, <1>6, <1>7, <1>8, <1>9, <1>10 DEF Domains, BrokerTypeOK
<1>12. \A p \in Runs \ {r} : Untouched(p)
  BY <1>4, <1>6, <1>7, <1>8, <1>9 DEF SameLedger, Untouched
<1>13. Batches(r)'
  BY <1>7, <1>8, EmptyBatch
<1>14. Reserve(r)'
  BY <1>2, <1>4, <1>8 DEF RunInv, Reserve
<1>15. Counts(r)'
  <2>1. usage'[r]["calls"] >= Classified(usage'[r]) /\ usage'[r]["issued"] = Settled(usage'[r])
    BY <1>5, <1>9
  <2>2. Classified(usage'[r]) \in Nat /\ Settled(usage'[r]) \in Nat
    <3>1. \A c \in Counters : usage'[r][c] \in Nat
      BY <1>9
    <3> QED BY <3>1 DEF Classified, Settled, Counters
  <2> QED BY <1>7, <1>8, <2>1, <2>2, NoneIsZero DEF Counts
<1>16. Told(r)'
  <2>1. ~dispatched'[r] => \A s \in Sigs : effects'[r][s] = "none"
    BY <1>4, <1>6 DEF RunInv, Told
  <2> QED BY <1>6, <1>7, <1>8, <2>1 DEF Told
<1>17. Confirms(r)'
  <2>1. Confirms(r)
    BY DEF RunInv
  <2>2. \A o \in SlotsOf(r) : phase[o] \notin Bad
    BY <1>3, <1>4 DEF Bad
  <2>3. \A s \in Sigs : starts[r][s] = confirmed[r][s] + Cardinality(Running(r, s))
    BY <1>2, <2>1, <2>2 DEF Confirms
  <2>4. \A s \in Sigs : Running(r, s)' = Running(r, s)
    BY <1>3, <1>7
  <2>5. status'[r] # "Completed"
    BY <1>2, <1>4, <2>1 DEF Confirms
  <2> QED BY <1>4, <2>3, <2>4, <2>5 DEF Confirms
<1> QED BY <1>10, <1>11, <1>12, <1>13, <1>14, <1>15, <1>16, <1>17 DEF RunInv

LEMMA AbandonKeeps ==
  ASSUME Domains, AdmissionInv, NEW r \in Runs, RunInv(r), AbandonVm(r)
  PROVE  Domains' /\ AdmissionInv' /\ RunInv(r)' /\ \A p \in Runs \ {r} : Untouched(p)
<1>1. pc[r] = "exec" /\ BatchOver(r)
  BY DEF AbandonVm
<1>2. {o \in Batch(r) : Over(o)} = InHand(r)
  BY <1>1, BatchIsOver
<1>3. PICK good \in SUBSET {o \in Batch(r) : phase[o] = "execOk"}, i \in 1..Len(wanted[r]) :
        /\ Over(SlotAt[r][i])
        /\ EndRun(r, FailureStatus(r, CallError(SlotAt[r][i])), SettledUsage(r, good))
        /\ effects' = SettledEffects(r, good)
  BY Zenon DEF AbandonVm
<1>4. good \in SUBSET InHand(r) /\ SlotAt[r][i] \in InHand(r)
  <2>1. good \subseteq {o \in Batch(r) : Over(o)}
    BY DEF Over
  <2>2. SlotAt[r][i] \in Batch(r)
    BY DEF Batch
  <2> QED BY <1>2, <1>3, <2>1, <2>2
<1>5. dispatched[r]
  BY <1>4 DEF RunInv, Told
<1>6. FailureStatus(r, CallError(SlotAt[r][i])) = "Failed"
  BY <1>5 DEF FailureStatus
<1>7. /\ SettledUsage(r, good) \in [Counters -> Nat]
      /\ SettledUsage(r, good)["calls"] >= Classified(SettledUsage(r, good))
      /\ SettledUsage(r, good)["issued"] = Settled(SettledUsage(r, good))
  BY <1>1, <1>4, SettledIsIssued
<1>8. /\ effects' \in [Runs -> [Sigs -> Effect]] /\ \A p \in Runs \ {r} : effects'[p] = effects[p]
      /\ \A s \in Sigs : ~Mutates(s) => effects'[r][s] = "none"
  BY <1>1, <1>3, <1>4, SettledIsKnown
<1>9. EndRun(r, "Failed", SettledUsage(r, good))
  BY <1>3, <1>6
<1>10. "Failed" \in Status /\ pc[r] \notin Outside
  BY <1>1 DEF Status, Outside
<1> HIDE DEF Outside
<1> QED BY <1>5, <1>7, <1>8, <1>9, <1>10, EndKeeps

-----------------------------------------------------------------------------
(* Steps of one call inside the broker.                                    *)

CallMoves(o) ==
  /\ SlotMove(o) /\ phase'[o] # "starting" /\ UNCHANGED engineVars
  /\ BrokerTypeOK'

LEMMA CallsMove ==
  ASSUME Domains, NEW o \in Slots, CallStep(o) \/ AnswerStep(o)
  PROVE  CallMoves(o)
<1>1. BrokerTypeOK /\ phase \in [Slots -> Phase]
  BY DEF Domains, BrokerTypeOK
<1>2. SlotStep(o) \/ Answer(o)
  BY DEF CallStep, AnswerStep, SlotStep
<1>3. SlotMove(o) /\ BrokerTypeOK'
  BY <1>1, <1>2, SlotMoves, SlotType
<1>4. UNCHANGED engineVars
  BY DEF CallStep, AnswerStep
<1>5. phase'[o] # "starting"
  <2>1. CASE CallStep(o)
    BY <1>1, <2>1 DEF CallStep, AuthorizeStopped, ExecuteStopped, AwaitPermit, InvokeUnkeyed,
         InvokeWithPermit, Invoke, BeginGrace, EndGrace
  <2>2. CASE AnswerStep(o)
    BY <1>1, <2>2 DEF AnswerStep, Answer, PolicyAllows, PolicyAsksApproval, ApprovalGranted,
         Denied, AuthorizerFails, ToolSucceeds, ToolFails, ToolErrors
  <2> QED BY <2>1, <2>2
<1> QED BY <1>3, <1>4, <1>5 DEF CallMoves

\* A call that moves has its place in the batch of its run.
LEMMA MovingIsTaken ==
  ASSUME Domains, NEW r \in Runs, NEW o \in SlotsOf(r), RunInv(r), phase[o] # "idle"
  PROVE  pc[r] \in {"batch", "exec"} /\ o \in Taken(r)
<1>1. pc[r] \in {"batch", "exec"}
  BY Quiet
<1>2. o \in Taken(r)
  BY DEF RunInv, Batches
<1> QED BY <1>1, <1>2

\* While its batch is being authorized a call can only be decided.
LEMMA AuthorizeKeeps ==
  ASSUME Domains, NEW r \in Runs, NEW o \in SlotsOf(r), RunInv(r), pc[r] = "batch", CallMoves(o)
  PROVE  RunInv(r)'
<1>0. o \in Slots /\ RunOf[o] = r
  BY DEF SlotsOf
<1>1. Batches(r) /\ Reserve(r) /\ Counts(r) /\ Told(r) /\ Confirms(r)
  BY DEF RunInv
<1>2. /\ \A p \in Slots \ {o} : phase'[p] = phase[p]
      /\ status' = status /\ call' = call /\ phase'[o] # "starting"
      /\ pc' = pc /\ modelCalls' = modelCalls /\ wanted' = wanted /\ taken' = taken
      /\ dispatched' = dispatched
  BY DEF CallMoves, SlotMove, engineVars
<1>3. phase[o] # "idle" /\ phase[o] \notin {"rejected", "reused", "limit", "prepErr"}
  BY DEF CallMoves, SlotMove, SlotAuthorizes, SlotDenied, SlotDispatches,
     SlotGivesUp, SlotWaits, SlotBegins, SlotGraces, SlotSucceeds, SlotFails, PrepPhases, AtTool
<1>4. PICK i \in 1..taken[r] : o = SlotAt[r][i]
  BY <1>3, MovingIsTaken DEF Taken
<1>5. phase[o] \in {"ready", "policy", "approval"}
  <2>1. Decided(SlotAt[r][i]) \/ phase[SlotAt[r][i]] \in Undecided
    BY <1>1 DEF Batches
  <2> QED BY <1>3, <1>4, <2>1 DEF Decided, Undecided
<1>6. SlotAuthorizes(o) \/ SlotDenied(o)
  BY <1>2, <1>5 DEF CallMoves, SlotMove, SlotDispatches, SlotGivesUp, SlotWaits, SlotBegins,
     SlotGraces, SlotSucceeds, SlotFails, AtTool
<1>7. /\ phase[o] \in {"policy", "approval"}
      /\ phase'[o] \in {"approval", "ready", "prepErr", "rejected"}
      /\ effects' = effects /\ starts' = starts /\ confirmed' = confirmed
  <2>1. CASE SlotAuthorizes(o)
    BY <2>1 DEF SlotAuthorizes, PrepPhases, ledgerVars, historyVars
  <2>2. CASE SlotDenied(o)
    BY <2>2 DEF SlotDenied, PrepPhases, historyVars
  <2> QED BY <1>6, <2>1, <2>2
<1>8. i = taken[r]
  <2>1. Decided(SlotAt[r][i]) \/ i = taken[r]
    BY <1>1 DEF Batches
  <2>2. ~Decided(o)
    BY <1>7 DEF Decided
  <2> QED BY <1>4, <2>1, <2>2
<1>9. /\ taken[r] \in Nat /\ Len(wanted[r]) \in Nat /\ Len(SlotAt[r]) \in Nat
      /\ taken[r] <= Len(wanted[r]) /\ Len(wanted[r]) <= Len(SlotAt[r])
  BY <1>1, WantedInOrder, SlotsInOrder DEF Batches
<1>10. \A j \in 1..taken[r] : j # i => SlotAt[r][j] \in Slots \ {o}
  <2>1. SUFFICES ASSUME NEW j \in 1..taken[r], j # i PROVE SlotAt[r][j] \in Slots \ {o}
    OBVIOUS
  <2>2. i \in 1..Len(SlotAt[r]) /\ j \in 1..Len(SlotAt[r])
    BY <1>9
  <2> QED BY <1>4, <2>1, <2>2, SlotsInOrder DEF SlotsOf
<1>11. SlotsOf(r)' = SlotsOf(r) /\ Taken(r)' = Taken(r) /\ o \in Taken(r)
  BY <1>2, <1>4 DEF SlotsOf, Taken
<1>12. /\ InHand(r)' = InHand(r) /\ InHand(r) = {} /\ \A s \in Sigs : Running(r, s)' = Running(r, s)
  <2>1. InHand(r) = {}
    BY NothingExecutes
  <2>2. InHand(r)' = InHand(r) /\ \A s \in Sigs : Running(r, s)' = Running(r, s)
    BY <1>0, <1>2, <1>7 DEF InHand, Running, SlotsOf, Dispatched, ExecPhases
  <2> QED BY <2>1, <2>2
<1>13. Batches(r)'
  <2>1. ASSUME NEW j \in 1..taken[r]
        PROVE  Decided(SlotAt[r][j])' \/ (j = taken[r] /\ phase'[SlotAt[r][j]] \in Undecided)
    <3>2. CASE j = i
      <4>1. SlotAt[r][j] = o /\ j = taken[r]
        BY <1>4, <1>8, <3>2
      <4>2. phase'[SlotAt[r][j]] \in {"approval", "ready", "prepErr", "rejected"}
        BY <1>7, <4>1
      <4> QED BY <4>1, <4>2 DEF Decided, Undecided
    <3>3. CASE j # i
      <4>1. Decided(SlotAt[r][j])
        BY <1>1, <1>8, <3>3 DEF Batches
      <4>2. phase'[SlotAt[r][j]] = phase[SlotAt[r][j]]
        BY <1>2, <1>10, <3>3
      <4> QED BY <4>1, <4>2 DEF Decided
    <3> QED BY <3>2, <3>3
  <2>2. \A p \in SlotsOf(r) \ Taken(r) : phase'[p] = "idle"
    BY <1>1, <1>2, <1>11 DEF Batches, SlotsOf
  <2> QED BY <1>1, <1>2, <1>11, <2>1, <2>2 DEF Batches
<1>14. Reserve(r)'
  BY <1>1, <1>2 DEF Reserve
<1>15. Counts(r)'
  <2>1. usage \in [Runs -> [Counters -> Nat]] /\ IsFiniteSet(Pending(r))
    BY <1>1, CallsAreFinite, CountedAreTaken DEF Domains, BrokerTypeOK
  <2>2. o \in Pending(r)
    BY <1>1, <1>7 DEF Pending, Unclassified, PrepPhases
  <2>3. Pending(r)' = IF phase'[o] \in {"approval", "ready"} THEN Pending(r) ELSE Pending(r) \ {o}
    BY <1>1, <1>2, <1>7, <2>2 DEF Pending, SlotsOf, Unclassified, PrepPhases
  <2>4. Cardinality(Pending(r) \ {o}) = Cardinality(Pending(r)) - 1
    BY <2>1, <2>2, FS_RemoveElement
  <2>5. /\ usage[r]["calls"] \in Nat /\ usage[r]["issued"] \in Nat
        /\ Classified(usage[r]) \in Nat /\ Settled(usage[r]) \in Nat
        /\ Cardinality(Pending(r)) \in Nat /\ Cardinality(InHand(r)) \in Nat
    BY LedgerCounts
  <2>6. /\ usage[r]["calls"] >= Classified(usage[r]) + Cardinality(Pending(r))
        /\ usage[r]["issued"] = Settled(usage[r]) + Cardinality(InHand(r))
    BY <1>1 DEF Counts
  <2>7. CASE SlotAuthorizes(o)
    <3>1. usage' = usage
      BY <2>7 DEF SlotAuthorizes, ledgerVars
    <3> QED BY <1>2, <1>12, <2>3, <2>4, <2>5, <2>6, <3>1 DEF Counts
  <2>8. CASE SlotDenied(o)
    <3>1. Bump(r, {"rejected"}) /\ phase'[o] = "rejected"
      BY <1>0, <2>8 DEF SlotDenied
    <3>2. /\ usage'[r]["calls"] = usage[r]["calls"] /\ usage'[r]["issued"] = usage[r]["issued"]
          /\ Classified(usage'[r]) = Classified(usage[r]) + 1
          /\ Settled(usage'[r]) = Settled(usage[r])
      BY <2>1, <3>1, BumpClassifies
    <3>3. Cardinality(Pending(r)') = Cardinality(Pending(r)) - 1
      BY <2>3, <2>4, <3>1
    <3>4. pc'[r] = "batch"
      BY <1>2
    <3> QED BY <1>12, <2>5, <2>6, <3>2, <3>3, <3>4 DEF Counts
  <2> QED BY <1>6, <2>7, <2>8
<1>16. Told(r)'
  BY <1>1, <1>2, <1>7, <1>12 DEF Told
<1>17. Confirms(r)'
  <2>1. \A p \in SlotsOf(r) : phase[p] \notin Bad
    <3>1. \A p \in Taken(r) : phase[p] \in {"ready", "rejected", "reused"} \cup Undecided
      BY <1>1 DEF Batches, Taken, Decided
    <3>2. \A p \in SlotsOf(r) \ Taken(r) : phase[p] = "idle"
      BY <1>1 DEF Batches
    <3> QED BY <3>1, <3>2 DEF Bad, Undecided
  <2> QED BY <1>1, <1>2, <1>7, <1>11, <1>12, <2>1 DEF Confirms
<1> QED BY <1>13, <1>14, <1>15, <1>16, <1>17 DEF RunInv

\* Once the batch is dispatched a call can only wait, run and end.
LEMMA ExecuteKeeps ==
  ASSUME Domains, NEW r \in Runs, NEW o \in SlotsOf(r), RunInv(r), pc[r] = "exec", CallMoves(o)
  PROVE  RunInv(r)'
<1>0. o \in Slots /\ RunOf[o] = r
  BY DEF SlotsOf
<1>1. Batches(r) /\ Reserve(r) /\ Counts(r) /\ Told(r) /\ Confirms(r)
  BY DEF RunInv
<1>2. /\ \A p \in Slots \ {o} : phase'[p] = phase[p]
      /\ status' = status /\ call' = call /\ phase'[o] # "starting"
      /\ pc' = pc /\ modelCalls' = modelCalls /\ wanted' = wanted /\ taken' = taken
      /\ dispatched' = dispatched
  BY DEF CallMoves, SlotMove, engineVars
<1>3. phase[o] # "idle"
  BY DEF CallMoves, SlotMove, SlotAuthorizes, SlotDenied, SlotDispatches,
     SlotGivesUp, SlotWaits, SlotBegins, SlotGraces, SlotSucceeds, SlotFails, PrepPhases, AtTool
<1>4. o \in Taken(r)
  BY <1>3, MovingIsTaken
<1>5. phase[o] \in Resolved \cup Dispatched
  BY <1>1, <1>4 DEF Batches
<1>6. \/ SlotGivesUp(o) \/ SlotWaits(o) \/ SlotBegins(o)
      \/ SlotGraces(o) \/ SlotSucceeds(o) \/ SlotFails(o)
  BY <1>5 DEF CallMoves, SlotMove, SlotAuthorizes, SlotDenied, SlotDispatches, PrepPhases,
     Resolved, Dispatched, ExecPhases
<1>7. usage' = usage /\ effects' = effects
  BY <1>6 DEF SlotGivesUp, SlotWaits, SlotBegins, SlotGraces, SlotSucceeds, SlotFails, ledgerVars
<1>8. phase[o] \in Dispatched /\ phase'[o] \in Dispatched
  BY <1>6 DEF SlotGivesUp, SlotWaits, SlotBegins, SlotGraces, SlotSucceeds, SlotFails, AtTool,
     Dispatched, ExecPhases
<1>9. /\ SlotsOf(r)' = SlotsOf(r) /\ Taken(r)' = Taken(r)
      /\ \A p \in SlotsOf(r) \ {o} : phase'[p] = phase[p]
  BY <1>2 DEF SlotsOf, Taken
<1>10. InHand(r)' = InHand(r)
  BY <1>1, <1>8, <1>9 DEF InHand
<1>11. Pending(r)' = Pending(r)
  BY <1>1, <1>8, <1>9 DEF Pending, Dispatched, ExecPhases, Unclassified, PrepPhases
<1>12. Batches(r)'
  <2>1. \A p \in Taken(r) : phase'[p] \in Resolved \cup Dispatched
    <3>1. \A p \in Taken(r) : p \in SlotsOf(r)
      BY <1>1, CallsAreFinite
    <3>2. \A p \in Taken(r) : phase[p] \in Resolved \cup Dispatched
      BY <1>1 DEF Batches
    <3> QED BY <1>8, <1>9, <3>1, <3>2
  <2>2. \A p \in SlotsOf(r) \ Taken(r) : phase'[p] = "idle"
    BY <1>1, <1>4, <1>9 DEF Batches
  <2> QED BY <1>1, <1>2, <1>9, <2>1, <2>2 DEF Batches
<1>13. Reserve(r)'
  BY <1>1, <1>2 DEF Reserve
<1>14. Counts(r)'
  BY <1>1, <1>2, <1>7, <1>10, <1>11 DEF Counts
<1>15. Told(r)'
  BY <1>1, <1>2, <1>7, <1>10 DEF Told
<1>16. Confirms(r)'
  <2> DEFINE Clean == \A p \in SlotsOf(r) : phase[p] \notin Bad
             Clean1 == \A p \in SlotsOf(r) : phase'[p] \notin Bad
  <2>1. status'[r] # "Completed"
    BY <1>1, <1>2 DEF Confirms
  <2>2. SUFFICES ASSUME Clean1
                 PROVE  \A s \in Sigs : starts'[r][s] = confirmed'[r][s] + Cardinality(Running(r, s)')
    BY <1>9, <2>1 DEF Confirms
  <2>3. phase'[o] \notin Bad
    BY <1>1, <2>2
  <2>4. SlotWaits(o) \/ SlotBegins(o) \/ SlotSucceeds(o)
    BY <1>6, <2>3 DEF SlotGivesUp, SlotGraces, SlotFails, Bad
  <2>5. phase[o] \notin Bad
    BY <2>4 DEF SlotWaits, SlotBegins, SlotSucceeds, Bad
  <2>6. Clean
    BY <1>9, <2>2, <2>5
  <2>7. \A s \in Sigs : starts[r][s] = confirmed[r][s] + Cardinality(Running(r, s))
    BY <1>1, <2>6 DEF Confirms
  <2>8. /\ starts \in [Runs -> [Sigs -> Nat]] /\ confirmed \in [Runs -> [Sigs -> Nat]]
        /\ call[o] \in Sigs
    BY <1>0 DEF Domains, BrokerTypeOK
  <2>9. \A s \in Sigs : IsFiniteSet(Running(r, s)) /\ Cardinality(Running(r, s)) \in Nat
    BY <1>1, CallsAreFinite, CountedAreTaken
  <2>10. PICK c \in Sigs : c = call[o]
    BY <2>8
  <2>11. \A s \in Sigs \ {c} : Running(r, s)' = Running(r, s)
    BY <1>2, <1>9, <2>10 DEF Running
  <2>12. IsFiniteSet(Running(r, c)) /\ Cardinality(Running(r, c)) \in Nat
    BY <2>9
  <2>13. /\ starts[r][c] = confirmed[r][c] + Cardinality(Running(r, c))
         /\ starts[r][c] \in Nat /\ confirmed[r][c] \in Nat
    BY <2>7, <2>8
  <2>14. CASE SlotWaits(o)
    <3>1. starts' = starts /\ confirmed' = confirmed
      BY <2>14 DEF SlotWaits, historyVars
    <3>2. phase[o] # "running" /\ phase'[o] # "running"
      BY <2>14 DEF SlotWaits
    <3>3. \A s \in Sigs : Running(r, s)' = Running(r, s)
      BY <1>2, <1>9, <3>2 DEF Running
    <3> QED BY <2>7, <3>1, <3>3
  <2>15. CASE SlotBegins(o)
    <3>1. /\ starts' = [starts EXCEPT ![r][c] = @ + 1] /\ confirmed' = confirmed
          /\ phase[o] # "running" /\ phase'[o] = "running"
      BY <1>0, <2>10, <2>15 DEF SlotBegins
    <3>2. Running(r, c)' = Running(r, c) \cup {o} /\ o \notin Running(r, c)
      BY <1>1, <1>2, <1>9, <2>10, <3>1 DEF Running
    <3>3. Cardinality(Running(r, c)') = Cardinality(Running(r, c)) + 1
      BY <2>12, <3>2, FS_AddElement
    <3>4. starts'[r][c] = starts[r][c] + 1 /\ \A s \in Sigs \ {c} : starts'[r][s] = starts[r][s]
      BY <2>8, <3>1
    <3>5. confirmed'[r] = confirmed[r] /\ \A s \in Sigs : confirmed[r][s] \in Nat
      BY <2>8, <3>1
    <3>6. \A s \in Sigs \ {c} : starts'[r][s] = confirmed'[r][s] + Cardinality(Running(r, s)')
      BY <2>7, <2>11, <3>4, <3>5
    <3>7. starts'[r][c] = confirmed'[r][c] + Cardinality(Running(r, c)')
      BY <2>12, <2>13, <3>3, <3>4, <3>5
    <3> QED BY <3>6, <3>7
  <2>16. CASE SlotSucceeds(o)
    <3>1. /\ confirmed' = [confirmed EXCEPT ![r][c] = @ + 1] /\ starts' = starts
          /\ phase[o] = "running" /\ phase'[o] # "running"
      BY <1>0, <2>10, <2>16 DEF SlotSucceeds
    <3>2. Running(r, c)' = Running(r, c) \ {o} /\ o \in Running(r, c)
      BY <1>1, <1>2, <1>9, <2>10, <3>1 DEF Running
    <3>3. Cardinality(Running(r, c)') = Cardinality(Running(r, c)) - 1
      <4>1. Cardinality(Running(r, c) \ {o}) = Cardinality(Running(r, c)) - 1
        BY <2>12, <3>2, FS_RemoveElement
      <4> QED BY <3>2, <4>1
    <3>4. /\ confirmed'[r][c] = confirmed[r][c] + 1
          /\ \A s \in Sigs \ {c} : confirmed'[r][s] = confirmed[r][s]
      BY <2>8, <3>1
    <3>5. starts'[r] = starts[r] /\ \A s \in Sigs : confirmed[r][s] \in Nat
      BY <2>8, <3>1
    <3>6. \A s \in Sigs \ {c} : starts'[r][s] = confirmed'[r][s] + Cardinality(Running(r, s)')
      BY <2>7, <2>11, <3>4, <3>5
    <3>7. starts'[r][c] = confirmed'[r][c] + Cardinality(Running(r, c)')
      BY <2>12, <2>13, <3>3, <3>4, <3>5
    <3> QED BY <3>6, <3>7
  <2> QED BY <2>4, <2>14, <2>15, <2>16
<1> QED BY <1>12, <1>13, <1>14, <1>15, <1>16 DEF RunInv

LEMMA CallsKeep ==
  ASSUME Domains, AdmissionInv, NEW o \in Slots, RunInv(RunOf[o]), CallMoves(o)
  PROVE  /\ Domains' /\ AdmissionInv' /\ RunInv(RunOf[o])'
         /\ \A p \in Runs \ {RunOf[o]} : Untouched(p)
<1>1. RunOf[o] \in Runs /\ o \in SlotsOf(RunOf[o])
  BY SlotRuns DEF SlotsOf
<1>2. SlotMove(o) /\ UNCHANGED engineVars /\ BrokerTypeOK'
  BY DEF CallMoves
<1>3. Domains' /\ AdmissionInv'
  BY <1>2, AdmissionsStay DEF engineVars, Domains
<1>4. phase[o] # "idle"
  BY <1>2 DEF SlotMove, SlotAuthorizes, SlotDenied, SlotDispatches,
     SlotGivesUp, SlotWaits, SlotBegins, SlotGraces, SlotSucceeds, SlotFails, PrepPhases, AtTool
<1>5. pc[RunOf[o]] \in {"batch", "exec"}
  BY <1>1, <1>4, MovingIsTaken
<1>6. RunInv(RunOf[o])'
  BY <1>1, <1>5, AuthorizeKeeps, ExecuteKeeps
<1>7. \A p \in Runs \ {RunOf[o]} : Untouched(p)
  <2>1. OwnRunOnly(o)
    BY <1>2, MoveIsOwnRun DEF Domains
  <2> QED BY <1>2, <2>1 DEF Untouched, SameCalls, SameLedger, OwnRunOnly, SlotMove, engineVars, SlotsOf
<1> QED BY <1>3, <1>6, <1>7

LEMMA StopsKeep ==
  ASSUME Domains, AdmissionInv, NEW r \in Runs, StopStep(r)
  PROVE  Domains' /\ AdmissionInv' /\ \A p \in Runs : Untouched(p)
<1>1. /\ usage' = usage /\ seen' = seen /\ effects' = effects /\ status' = status
      /\ phase' = phase /\ call' = call /\ err' = err /\ before' = before
      /\ holder' = holder /\ starts' = starts /\ confirmed' = confirmed
      /\ UNCHANGED engineVars
  BY DEF StopStep, Cancel, Expire, ledgerVars, slotVars, historyVars
<1>2. stop' \in [Runs -> {"live", "expired", "cancelled"}]
  BY DEF Domains, BrokerTypeOK, StopStep, Cancel, Expire
<1>3. Domains'
  BY <1>1, <1>2 DEF Domains, BrokerTypeOK, engineVars
<1>4. AdmissionInv'
  BY <1>1, AdmissionsStay DEF engineVars
<1>5. \A p \in Runs : Untouched(p)
  BY <1>1 DEF engineVars, Untouched, SameCalls, SameLedger
<1> QED BY <1>3, <1>4, <1>5

-----------------------------------------------------------------------------
(* The invariant holds.                                                    *)

LEMMA InitialInv == Init => IInv
<1>1. SUFFICES ASSUME Init PROVE IInv
  OBVIOUS
<1>2. /\ MaxModelCalls \in Nat /\ MaxVms \in Nat /\ Adaptive \subseteq Runs
      /\ Adaptive # {} => MaxModelCalls >= 1
  BY ProgrammaticAssumption
<1>3. << >> \in Seq(Sigs)
  OBVIOUS
<1>4. BrokerTypeOK
  <2> USE <1>1, AnySigInSigs DEF Init, BrokerInit
  <2>1. /\ usage \in [Runs -> [Counters -> Nat]] /\ seen \in [Runs -> [Sigs -> Nat]]
        /\ effects \in [Runs -> [Sigs -> Effect]] /\ status \in [Runs -> Status]
        /\ stop \in [Runs -> {"live", "expired", "cancelled"}]
    BY DEF Effect, Status
  <2>2. /\ phase \in [Slots -> Phase] /\ call \in [Slots -> Sigs] /\ err \in [Slots -> Errors]
        /\ before \in [Slots -> Nat \X Nat] /\ holder \in [Keys -> Slots \cup {NoSlot}]
    BY DEF Phase, Errors
  <2>3. starts \in [Runs -> [Sigs -> Nat]] /\ confirmed \in [Runs -> [Sigs -> Nat]]
    OBVIOUS
  <2> QED BY <2>1, <2>2, <2>3 DEF BrokerTypeOK
<1>5. Domains
  <2>1. pc \in [Runs -> Pc] /\ attempt \in [Runs -> 0..1] /\ dispatched \in [Runs -> BOOLEAN]
    BY <1>1 DEF Init, Pc
  <2>2. modelCalls \in [Runs -> 0..MaxModelCalls]
    BY <1>1, <1>2 DEF Init
  <2>3. wanted \in [Runs -> Seq(Sigs)] /\ taken \in [Runs -> Nat] /\ admissions \in Nat
    BY <1>1, <1>2, <1>3 DEF Init
  <2> QED BY <1>4, <2>1, <2>2, <2>3 DEF Domains
<1>6. AdmissionInv
  <2>1. {r \in Runs : Admitted(r)} = {} /\ admissions = MaxVms
    BY <1>1 DEF Init, Admitted
  <2> QED BY <1>2, <2>1, FS_EmptySet DEF AdmissionInv, AdmissionsBalance
<1>7. ASSUME NEW r \in Runs PROVE RunInv(r)
  <2>1. /\ pc[r] = "start" /\ modelCalls[r] = Spent(r) /\ wanted[r] = << >> /\ taken[r] = 0
        /\ dispatched[r] = FALSE
    BY <1>1 DEF Init, Spent
  <2>2. /\ \A c \in Counters : usage[r][c] = 0
        /\ \A s \in Sigs : effects[r][s] = "none" /\ starts[r][s] = 0 /\ confirmed[r][s] = 0
        /\ status[r] = "Failed" /\ \A o \in SlotsOf(r) : phase[o] = "idle"
    BY <1>1 DEF Init, BrokerInit, SlotsOf
  <2>3. Batches(r)
    <3>1. Len(wanted[r]) = 0 /\ Len(SlotAt[r]) \in Nat
      BY <2>1, SlotsInOrder
    <3>2. (\A i \in 1..taken[r] : FALSE) /\ \A i \in 1..Len(wanted[r]) : FALSE
      BY <2>1, <3>1
    <3> QED BY <1>3, <2>1, <2>2, <3>1, <3>2 DEF Batches
  <2>4. Pending(r) = {} /\ InHand(r) = {} /\ \A s \in Sigs : Running(r, s) = {}
    BY <1>5, <2>1, <2>3, NothingInFlight
  <2>5. Reserve(r)
    BY <2>1, <2>2 DEF Reserve
  <2>6. Counts(r)
    <3>1. /\ usage[r]["calls"] = 0 /\ usage[r]["issued"] = 0
          /\ Classified(usage[r]) = 0 /\ Settled(usage[r]) = 0
      BY <2>2 DEF Counters, Classified, Settled
    <3> QED BY <2>1, <2>4, <3>1, NoneIsZero DEF Counts
  <2>7. Told(r)
    BY <2>1, <2>2, <2>4 DEF Told
  <2>8. Confirms(r)
    <3>1. \A s \in Sigs : Cardinality(Running(r, s)) = 0
      BY <2>4, NoneIsZero
    <3>2. \A s \in Sigs : starts[r][s] = confirmed[r][s] + Cardinality(Running(r, s))
      BY <2>2, <3>1
    <3>3. status[r] # "Completed"
      BY <2>2
    <3> QED BY <3>2, <3>3 DEF Confirms
  <2> QED BY <2>3, <2>5, <2>6, <2>7, <2>8 DEF RunInv
<1> QED BY <1>5, <1>6, <1>7 DEF IInv

\* The steps of one run, by what they do to its batch.
LEMMA RunsKeep ==
  ASSUME Domains, AdmissionInv, NEW r \in Runs, RunInv(r), RunStep(r) \/ ProviderStep(r)
  PROVE  Domains' /\ AdmissionInv' /\ RunInv(r)' /\ \A p \in Runs \ {r} : Untouched(p)
<1>1. CASE Control(r)
  BY <1>1, ControlSteps
<1>2. CASE Fails(r)
  BY <1>2, FailingSteps
<1>3. CASE Refuse(r)
  BY <1>3, RefuseKeeps
<1>4. CASE VmInvokes(r) \/ VmFansOut(r)
  BY <1>4, YieldingSteps
<1>5. CASE PrepareNext(r)
  BY <1>5, PrepareNextKeeps
<1>6. CASE DispatchBatch(r)
  BY <1>6, DispatchKeeps
<1>7. CASE ResumeVm(r)
  BY <1>7, ResumeKeeps
<1>8. CASE AbandonVm(r)
  BY <1>8, AbandonKeeps
<1>9. CASE Synthesized(r)
  BY <1>9, SynthesizedKeeps
<1> QED BY <1>1, <1>2, <1>3, <1>4, <1>5, <1>6, <1>7, <1>8, <1>9
        DEF RunStep, ProviderStep, Control, Fails

LEMMA StepKeepsInv == IInv /\ [Next]_vars => IInv'
<1>1. SUFFICES ASSUME IInv, [Next]_vars PROVE IInv'
  OBVIOUS
<1>2. Domains /\ AdmissionInv /\ \A r \in Runs : RunInv(r)
  BY <1>1 DEF IInv
<1>3. ASSUME NEW r \in Runs, RunStep(r) \/ ProviderStep(r) PROVE IInv'
  <2>1. Domains' /\ AdmissionInv' /\ RunInv(r)' /\ \A p \in Runs \ {r} : Untouched(p)
    BY <1>2, <1>3, RunsKeep
  <2>2. \A p \in Runs \ {r} : RunInv(p)'
    BY <1>2, <2>1, OthersKeep
  <2> QED BY <2>1, <2>2 DEF IInv
<1>4. ASSUME NEW o \in Slots, CallStep(o) \/ AnswerStep(o) PROVE IInv'
  <2>1. CallMoves(o) /\ RunOf[o] \in Runs
    BY <1>2, <1>4, CallsMove, SlotRuns
  <2>2. /\ Domains' /\ AdmissionInv' /\ RunInv(RunOf[o])'
        /\ \A p \in Runs \ {RunOf[o]} : Untouched(p)
    BY <1>2, <2>1, CallsKeep
  <2>3. \A p \in Runs \ {RunOf[o]} : RunInv(p)'
    BY <1>2, <2>2, OthersKeep
  <2> QED BY <2>2, <2>3 DEF IInv
<1>5. ASSUME NEW r \in Runs, StopStep(r) PROVE IInv'
  <2>1. Domains' /\ AdmissionInv' /\ \A p \in Runs : Untouched(p)
    BY <1>2, <1>5, StopsKeep
  <2>2. \A p \in Runs : RunInv(p)'
    BY <1>2, <2>1, OthersKeep
  <2> QED BY <2>1, <2>2 DEF IInv
<1>6. CASE UNCHANGED vars
  <2>1. brokerVars' = brokerVars /\ engineVars' = engineVars
    BY <1>6 DEF vars
  <2>2. Domains'
    BY <1>2, <2>1 DEF brokerVars, engineVars, Domains, BrokerTypeOK
  <2>3. AdmissionInv'
    BY <1>2, <2>1, AdmissionsStay DEF engineVars
  <2>4. \A p \in Runs : Untouched(p)
    BY <2>1 DEF brokerVars, engineVars, Untouched, SameCalls, SameLedger
  <2>5. \A p \in Runs : RunInv(p)'
    BY <1>2, <2>4, OthersKeep
  <2> QED BY <2>2, <2>3, <2>5 DEF IInv
<1> QED BY <1>1, <1>3, <1>4, <1>5, <1>6 DEF Next

\* Every behaviour keeps the invariant, whatever the programs ask for and
\* however the calls of a batch interleave with stops and with other runs.
THEOREM Invariance == Spec => []IInv
<1>1. Init => IInv
  BY InitialInv
<1>2. IInv /\ [Next]_vars => IInv'
  BY StepKeepsInv
<1> QED BY <1>1, <1>2, PTL DEF Spec

-----------------------------------------------------------------------------
(* What it gives.                                                          *)

\* Every variable keeps its type; no admission is returned twice.
THEOREM TypeCorrect == Spec => []TypeOK
<1>1. IInv => TypeOK
  <2>1. SUFFICES ASSUME IInv PROVE TypeOK
    OBVIOUS
  <2>2. Domains /\ AdmissionInv /\ \A r \in Runs : Batches(r)
    BY <2>1 DEF IInv, RunInv
  <2>3. Cardinality({r \in Runs : Admitted(r)}) \in Nat /\ admissions \in Nat /\ MaxVms \in Nat
    BY <2>2, FS_CardinalityType, ProgrammaticAssumption DEF AdmissionInv, Domains
  <2>4. admissions \in 0..MaxVms
    BY <2>2, <2>3 DEF AdmissionInv, AdmissionsBalance
  <2>5. \A r \in Runs : wanted[r] \in Seq(Sigs) /\ taken[r] \in 0..Len(wanted[r])
    BY <2>2 DEF Batches
  <2> QED BY <2>2, <2>4, <2>5 DEF Domains, TypeOK
<1> QED BY <1>1, Invariance, PTL

\* A run that is over has classified and settled every call its program made,
\* reports success only of confirmed calls, and names no uncertain effect
\* anything but a failure (finalize_usage, the terminal block of programmatic.rs).
THEOREM ReportsAreTrue == Spec => []ReportsTruth
<1>1. IInv => ReportsTruth
  <2>1. SUFFICES ASSUME IInv PROVE ReportsTruth
    OBVIOUS
  <2>2. Domains /\ \A r \in Runs : RunInv(r) /\ Counts(r) /\ Told(r) /\ Confirms(r)
    BY <2>1 DEF IInv, RunInv
  <2>3. LedgerBalances
    <3>1. SUFFICES ASSUME NEW r \in Runs, pc[r] = "done"
                   PROVE  usage[r]["calls"] = Classified(usage[r]) /\ usage[r]["issued"] = Settled(usage[r])
      BY DEF LedgerBalances
    <3>2. Cardinality(InHand(r)) = 0
      BY <2>2, <3>1, NothingExecutes, NoneIsZero
    <3>3. Settled(usage[r]) \in Nat
      BY <2>2, LedgerCounts
    <3> QED BY <2>2, <3>1, <3>2, <3>3 DEF Counts
  <2>4. CompletedIsConfirmed
    BY <2>2 DEF Confirms, CompletedIsConfirmed
  <2>5. UncertaintyIsTold
    BY <2>2 DEF Told, UncertaintyIsTold
  <2> QED BY <2>3, <2>4, <2>5 DEF ReportsTruth
<1> QED BY <1>1, Invariance, PTL

\* A program that returned, and a run that leaves for the direct loop, have a
\* model call left to answer with, the latter with no tool begun; an admission
\* is held by exactly the runs inside their programmatic part.
THEOREM ReservesAreKept == Spec => []ReservesHold
<1>1. IInv => ReservesHold
  <2>1. SUFFICES ASSUME IInv PROVE ReservesHold
    OBVIOUS
  <2>2. Domains /\ AdmissionInv /\ \A r \in Runs : Reserve(r)
    BY <2>1 DEF IInv, RunInv
  <2>3. \A r \in Runs : Spent(r) = IF r \in Adaptive THEN 1 ELSE 0
    BY DEF Spent
  <2>4. MaxModelCalls \in Nat /\ \A r \in Runs : Spent(r) \in Nat
    BY <2>3, ProgrammaticAssumption
  <2>5. ASSUME NEW r \in Runs
        PROVE  /\ pc[r] = "synthesize" => modelCalls[r] < MaxModelCalls
               /\ pc[r] = "direct" /\ MaxModelCalls - Spent(r) >= 2 =>
                    modelCalls[r] < MaxModelCalls /\ \A s \in Sigs : starts[r][s] = 0
    BY <2>2, <2>4 DEF Reserve
  <2>6. AnswerIsReserved
    BY <2>5 DEF AnswerIsReserved, Spent
  <2> QED BY <2>2, <2>6 DEF ReservesHold, AdmissionInv
<1> QED BY <1>1, Invariance, PTL

\* Calls of one run overlap only as parallel-safe reads of one fan-out, and none
\* executes before every call of its batch is authorized.
THEOREM BatchesAreDisciplined == Spec => []BatchDiscipline
<1>1. IInv => BatchDiscipline
  <2>1. SUFFICES ASSUME IInv, NEW o \in Slots, NEW p \in Slots,
                        RunOf[o] = RunOf[p], o # p, Executing(o)
                 PROVE  /\ phase[p] \notin PrepPhases \cup {"ready"}
                        /\ Executing(p) => {call[o], call[p]} \subseteq ParallelSafe
    BY DEF BatchDiscipline
  <2>2. PICK r \in Runs : r = RunOf[o] /\ r = RunOf[p]
    BY <2>1, SlotRuns
  <2>3. Domains /\ RunInv(r) /\ Batches(r) /\ o \in SlotsOf(r) /\ p \in SlotsOf(r)
    BY <2>1, <2>2 DEF IInv, RunInv, SlotsOf
  <2>4. o \in InHand(r)
    BY <2>1, <2>3 DEF InHand, Executing, Dispatched, ExecPhases
  <2>5. pc[r] = "exec"
    BY <2>3, <2>4, NothingExecutes
  <2>6. \A q \in SlotsOf(r) : phase[q] = "idle" \/ (q \in Taken(r) /\ phase[q] \in Resolved \cup Dispatched)
    BY <2>3, <2>5 DEF Batches
  <2>7. phase[p] \notin PrepPhases \cup {"ready"}
    BY <2>3, <2>6 DEF Resolved, Dispatched, ExecPhases, PrepPhases
  <2>8. ASSUME Executing(p) PROVE {call[o], call[p]} \subseteq ParallelSafe
    <3>1. o \in Taken(r) /\ p \in Taken(r)
      BY <2>1, <2>3, <2>6, <2>8 DEF Executing
    <3>2. PICK i, j \in 1..taken[r] : o = SlotAt[r][i] /\ p = SlotAt[r][j]
      BY <3>1 DEF Taken
    <3>3. i # j
      BY <2>1, <3>2
    <3>4. taken[r] = Len(wanted[r]) /\ taken[r] \in Nat
      BY <2>3, <2>5, WantedInOrder DEF Batches
    <3>5. Len(wanted[r]) > 1
      BY <3>2, <3>3, <3>4
    <3>6. wanted[r][i] \in ParallelSafe /\ wanted[r][j] \in ParallelSafe
      BY <2>3, <3>2, <3>4, <3>5 DEF Batches
    <3>7. call[o] = wanted[r][i] /\ call[p] = wanted[r][j]
      BY <2>3, <3>2 DEF Batches
    <3> QED BY <3>6, <3>7
  <2> QED BY <2>7, <2>8
<1> QED BY <1>1, Invariance, PTL
=============================================================================
