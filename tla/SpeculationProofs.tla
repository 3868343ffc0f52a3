-------------------------- MODULE SpeculationProofs --------------------------
(***************************************************************************)
(* Theorems about Speculation, for every set of runs, signatures and keys  *)
(* and every number of required observations.                              *)
(***************************************************************************)
EXTENDS Speculation, Integers, BrokerProofs

-----------------------------------------------------------------------------
(* The controller.  A step of the system is at most one of its operations. *)

ControllerOK ==
  /\ mode \in [Eligible -> {"Shadow", "Active"}]
  /\ exact \in [Eligible -> Nat]
  /\ meter \in [Eligible -> [Meters -> Int]]

EarnedInv == ControllerOK /\ ActiveIsEarned

\* An incident, or the host: back to Shadow, and nothing committed.
Demotes(t) ==
  /\ Trip(t)
  /\ meter' \in [Eligible -> [Meters -> Int]]
  /\ \A u \in Eligible :
       /\ meter'[u]["committed"] = meter[u]["committed"]
       /\ u # t => meter'[u] = meter[u]

Promotes(t) == Ready(t) /\ mode' = [mode EXCEPT ![t] = "Active"] /\ UNCHANGED <<exact, meter>>
Observes(t) == exact' = [exact EXCEPT ![t] = @ + 1] /\ UNCHANGED <<mode, meter>>
Issues(t) == Count(t, {"issued", "inFlight"}, {}) /\ UNCHANGED <<mode, exact>>
Commits(t) == Active(t) /\ Count(t, {"committed"}, {"inFlight"}) /\ UNCHANGED <<mode, exact>>

ControllerStep ==
  \/ UNCHANGED controllerVars
  \/ \E t \in Sigs : Demotes(t) \/ Promotes(t) \/ Observes(t) \/ Issues(t) \/ Commits(t)

\* Counting changes the counters of one tool by whole numbers.
LEMMA CountChanges ==
  ASSUME ControllerOK, NEW t, NEW up, NEW down, Count(t, up, down)
  PROVE  /\ meter' \in [Eligible -> [Meters -> Int]]
         /\ \A u \in Eligible : u # t => meter'[u] = meter[u]
         /\ t \in Eligible => \A c \in Meters :
              c \notin up \cup down => meter'[t][c] = meter[t][c]
<1> DEFINE new == [c \in Meters |->
              CASE c \in up -> meter[t][c] + 1 [] c \in down -> meter[t][c] - 1 [] OTHER -> meter[t][c]]
<1>1. meter' = [meter EXCEPT ![t] = new]
  BY DEF Count
<1>2. CASE t \in Eligible
  <2>1. \A c \in Meters : new[c] \in Int /\ (c \notin up \cup down => new[c] = meter[t][c])
    BY <1>2 DEF ControllerOK
  <2>2. new \in [Meters -> Int]
    BY <2>1
  <2> HIDE DEF new
  <2> QED BY <1>1, <1>2, <2>1, <2>2 DEF ControllerOK
<1>3. CASE t \notin Eligible
  <2> HIDE DEF new
  <2> QED BY <1>1, <1>3 DEF ControllerOK
<1> QED BY <1>2, <1>3

\* Counting anything but a commit and tripping the breaker demotes.
LEMMA CountDemotes ==
  ASSUME ControllerOK, NEW t, NEW up, NEW down, Count(t, up, down), Trip(t),
         "committed" \notin up \cup down
  PROVE  Demotes(t)
<1>1. "committed" \in Meters
  BY DEF Meters
<1> QED BY <1>1, CountChanges DEF Demotes

LEMMA SettleDemotes ==
  ASSUME ControllerOK, NEW r \in Runs, NEW res, res # "committed", Settle(r, res)
  PROVE  Demotes(want[r])
BY CountDemotes DEF Settle

LEMMA GiveUpDemotes ==
  ASSUME ControllerOK, NEW r \in Runs, NEW res, res # "committed", GiveUp(r, res)
  PROVE  UNCHANGED controllerVars \/ Demotes(want[r])
BY SettleDemotes DEF GiveUp

\* Each operation of the controller keeps Active earned.
LEMMA ControllerKeepsEarned ==
  ASSUME EarnedInv, ControllerStep
  PROVE  EarnedInv'
<1>0. {"discarded", "cancelled", "failures"} \subseteq Meters
  BY DEF Meters
<1>1. CASE UNCHANGED controllerVars
  BY <1>1 DEF EarnedInv, ControllerOK, ActiveIsEarned, Active, Incidents, controllerVars
<1>2. ASSUME NEW t \in Sigs, Demotes(t) PROVE EarnedInv'
  BY <1>2 DEF EarnedInv, ControllerOK, ActiveIsEarned, Active, Incidents, Demotes, Trip
<1>3. ASSUME NEW t \in Sigs, Promotes(t) PROVE EarnedInv'
  BY <1>3 DEF EarnedInv, ControllerOK, ActiveIsEarned, Active, Incidents, Promotes, Ready
<1>4. ASSUME NEW t \in Sigs, Observes(t) PROVE EarnedInv'
  <2>1. \A u \in Eligible : exact'[u] \in Nat /\ exact'[u] >= exact[u]
    BY <1>4 DEF EarnedInv, ControllerOK, Observes
  <2>2. exact' \in [Eligible -> Nat]
    BY <1>4, <2>1 DEF EarnedInv, ControllerOK, Observes
  <2>3. \A u \in Eligible : Active(u)' = Active(u) /\ Incidents(u)' = Incidents(u)
    BY <1>4 DEF Observes, Active, Incidents
  <2>4. \A u \in Eligible : exact[u] >= Required => exact'[u] >= Required
    BY <2>1, SpeculationAssumption DEF EarnedInv, ControllerOK
  <2> QED BY <1>4, <2>2, <2>3, <2>4 DEF EarnedInv, ControllerOK, ActiveIsEarned, Observes
<1>5. ASSUME NEW t \in Sigs, NEW up, NEW down, Count(t, up, down), UNCHANGED <<mode, exact>>,
             {"discarded", "cancelled", "failures"} \cap (up \cup down) = {}
      PROVE  EarnedInv'
  <2>1. ControllerOK'
    BY <1>5, CountChanges DEF EarnedInv, ControllerOK
  <2>2. \A u \in Eligible : \A c \in {"discarded", "cancelled", "failures"} :
          meter'[u][c] = meter[u][c]
    BY <1>0, <1>5, CountChanges DEF EarnedInv
  <2> QED BY <1>5, <2>1, <2>2 DEF EarnedInv, ActiveIsEarned, Active, Incidents
<1>6. ASSUME NEW t \in Sigs, Issues(t) PROVE EarnedInv'
  BY <1>5, <1>6 DEF Issues
<1>7. ASSUME NEW t \in Sigs, Commits(t) PROVE EarnedInv'
  BY <1>5, <1>7 DEF Commits
<1> QED BY <1>1, <1>2, <1>3, <1>4, <1>6, <1>7 DEF ControllerStep

\* After an incident no operation commits.
LEMMA ControllerNeverCommitsAfterIncident ==
  ASSUME EarnedInv, ControllerStep, NEW u \in Eligible, Incidents(u) > 0
  PROVE  meter'[u]["committed"] = meter[u]["committed"]
<1>0. "committed" \in Meters
  BY DEF Meters
<1>1. ~Active(u)
  BY DEF EarnedInv, ActiveIsEarned
<1>2. ASSUME NEW t \in Sigs, Issues(t) PROVE meter'[u]["committed"] = meter[u]["committed"]
  BY <1>0, <1>2, CountChanges DEF Issues, EarnedInv
<1>3. ASSUME NEW t \in Sigs, Commits(t) PROVE meter'[u]["committed"] = meter[u]["committed"]
  BY <1>1, <1>3, CountChanges DEF Commits, EarnedInv
<1> QED BY <1>2, <1>3 DEF ControllerStep, Demotes, Promotes, Observes, controllerVars

-----------------------------------------------------------------------------
\* Which actions of a run touch the controller, and how.
LEMMA StepIsControllerStep ==
  ASSUME ControllerOK, [Next]_vars, want \in [Runs -> Sigs]
  PROVE  ControllerStep
<1> USE DEF ControllerStep
<1>1. CASE UNCHANGED vars
  BY <1>1 DEF vars, controllerVars
<1>2. ASSUME NEW t \in Eligible, Activate(t) PROVE ControllerStep
  BY <1>2, SpeculationAssumption, SigAssumption DEF Activate, Promotes
<1>3. ASSUME NEW t \in Eligible, ReturnToShadow(t) PROVE ControllerStep
  <2>1. Demotes(t)
    BY <1>3 DEF ReturnToShadow, Demotes, ControllerOK
  <2> QED BY <2>1, SpeculationAssumption, SigAssumption
<1>4. ASSUME NEW r \in Runs, RunStep(r) PROVE ControllerStep
  <2> USE <1>4
  <2>0. want[r] \in Sigs
    OBVIOUS
  <2>1. CASE CandidateStarts(r) \/ CandidateStops(r) \/ Release(r)
    BY <2>1 DEF CandidateStarts, CandidateStops, Release, NotIssued
  <2>2. CASE Issue(r)
    BY <2>0, <2>2 DEF Issue, Issues
  <2>3. CASE CandidateGraceEnds(r)
    BY <2>0, <2>3, SettleDemotes DEF CandidateGraceEnds
  <2>4. CASE CandidateLate(r) \/ CommitLate(r) \/ AnswerUnused(r) \/ CommitStopped(r)
               \/ CommitNotPossible(r) \/ CommitResolved(r)
    BY <2>0, <2>4, GiveUpDemotes DEF CandidateLate, CommitLate, AnswerUnused, CommitStopped,
         CommitNotPossible, CommitResolved
  <2>5. CASE StreamStopped(r)
    BY <2>0, <2>5, GiveUpDemotes DEF StreamStopped
  <2>6. CASE Drained(r)
    BY <2>0, <2>6, CountDemotes DEF Drained
  <2>7. CASE ResponseReady(r)
    <3>1. CASE GiveUp(r, "discarded")
      BY <2>0, <3>1, GiveUpDemotes
    <3> QED BY <2>0, <2>7, <3>1 DEF ResponseReady, Observes
  <2>8. CASE CommitPrepares(r) \/ TakeCall(r) \/ CallEnds(r)
    BY <2>8 DEF CommitPrepares, TakeCall, CallEnds
  <2>9. CASE CommitErrs(r)
    BY <2>0, <2>9, GiveUpDemotes DEF CommitErrs
  <2>10. CASE CommitAsks(r)
    BY <2>0, <2>10, GiveUpDemotes DEF CommitAsks
  <2>11. CASE DecisionStopped(r)
    BY <2>0, <2>11, GiveUpDemotes DEF DecisionStopped
  <2>12. CASE DecisionFails(r)
    BY <2>0, <2>12, GiveUpDemotes DEF DecisionFails
  <2>13. CASE UNCHANGED controllerVars
    BY <2>13
  <2> QED BY <2>1, <2>2, <2>3, <2>4, <2>5, <2>6, <2>7, <2>8, <2>9, <2>10, <2>11, <2>12, <2>13
          DEF RunStep
<1>5. ASSUME NEW r \in Runs, AnswerStep(r) PROVE ControllerStep
  <2>0. want[r] \in Sigs
    OBVIOUS
  <2>1. CASE StreamFails(r)
    BY <2>0, <2>1, CountDemotes DEF StreamFails
  <2>2. CASE CandidateFails(r)
    BY <2>0, <2>2, SettleDemotes DEF CandidateFails
  <2>3. CASE DecisionFails(r)
    BY <2>0, <2>3, GiveUpDemotes DEF DecisionFails
  <2>4. CASE Commit(r)
    BY <2>0, <2>4 DEF Commit, Commits
  <2>5. CASE UNCHANGED controllerVars
    BY <2>5
  <2>6. CASE (\E s \in Asks[r] : Capture(r, s)) \/ StreamCompletes(r) \/ OrdinaryAllows(r)
               \/ PreIssueFails(r) \/ DedicatedAllows(r) \/ CandidateSucceeds(r)
    BY <2>6 DEF Capture, StreamCompletes, OrdinaryAllows, PreIssueFails, DedicatedAllows,
         CandidateSucceeds, NotIssued
  <2> QED BY <1>5, <2>1, <2>2, <2>3, <2>4, <2>5, <2>6 DEF AnswerStep
<1>6. ASSUME NEW r \in Runs, CandidateDue(r) \/ CallDue(r) \/ StopStep(r) PROVE ControllerStep
  BY <1>6 DEF CandidateDue, CallDue, StopStep
<1> QED BY <1>1, <1>2, <1>3, <1>4, <1>5, <1>6 DEF Next, HostStep

\* The tool of the captured call never changes kind.
LEMMA WantType ==
  ASSUME want \in [Runs -> Sigs], [Next]_vars
  PROVE  want' \in [Runs -> Sigs]
<1>1. CASE UNCHANGED vars
  BY <1>1 DEF vars, turnVars
<1>2. ASSUME NEW r \in Runs, NEW s \in Asks[r], Capture(r, s) PROVE want' \in [Runs -> Sigs]
  BY <1>2, SpeculationAssumption DEF Capture
<1>3. CASE UNCHANGED want
  BY <1>3
<1> QED
  BY <1>1, <1>2, <1>3 DEF Next, HostStep, Activate, ReturnToShadow, RunStep, AnswerStep,
    CandidateDue, CallDue, StopStep, CandidateStarts, OrdinaryAllows, PreIssueFails,
    DedicatedAllows, Issue, CandidateSucceeds, CandidateFails, CandidateStops,
    CandidateGraceEnds, Release, CandidateLate, StreamFails, StreamStopped, Drained,
    StreamCompletes, ResponseReady, AnswerUnused, CommitStopped, CommitNotPossible,
    CommitPrepares, CommitLate, CommitResolved, CommitErrs, CommitAsks, DecisionStopped,
    DecisionFails, Commit, TakeCall, CallEnds, NotIssued, OutOfTurn, turnVars

ControllerInv == EarnedInv /\ want \in [Runs -> Sigs]

LEMMA InitController == Init => ControllerInv
<1> SUFFICES ASSUME Init PROVE ControllerInv
  OBVIOUS
<1>1. want \in [Runs -> Sigs]
  BY SigAssumption DEF Init, AnySig
<1>2. ControllerOK
  BY SpeculationAssumption DEF Init, ControllerOK
<1>3. ActiveIsEarned
  BY DEF Init, ActiveIsEarned, Active
<1> QED BY <1>1, <1>2, <1>3 DEF ControllerInv, EarnedInv

LEMMA ControllerInvariant == Safe => []ControllerInv
<1>1. Init => ControllerInv
  BY InitController
<1>2. ControllerInv /\ [Next]_vars => ControllerInv'
  BY WantType, StepIsControllerStep, ControllerKeepsEarned DEF ControllerInv, EarnedInv
<1> QED BY <1>1, <1>2, PTL DEF Safe

(* Whatever the runs and the host do, a tool is Active only while its      *)
(* streak is long enough and nothing of it has ever gone wrong.            *)
THEOREM ActiveMustBeEarned == Safe => []ActiveIsEarned
<1>1. ControllerInv => ActiveIsEarned
  BY DEF ControllerInv, EarnedInv
<1> QED BY <1>1, ControllerInvariant, PTL

(* The breaker is final: after an incident of a tool, in whichever run, no *)
(* candidate of it is committed any more.                                  *)
THEOREM BreakerIsFinal == Safe => NoCommitAfterIncident
<1>1. ControllerInv /\ [Next]_vars =>
        [\A t \in Eligible : Incidents(t) > 0 => meter'[t]["committed"] = meter[t]["committed"]]_vars
  BY StepIsControllerStep, ControllerNeverCommitsAfterIncident DEF ControllerInv, EarnedInv
<1> QED BY <1>1, ControllerInvariant, PTL DEF Safe, NoCommitAfterIncident

-----------------------------------------------------------------------------
(* The slot and the keyed permits of candidates.                           *)

HoldsSlot == Attempting \cup {"ready", "spent"}
HoldsKey == {"issuing", "running", "grace", "ready", "spent"}
Early == {"stream", "tail", "drainFailed", "drainStopped"}

\* NoSlotLeak, and where the turn is while a candidate is unfinished, and while
\* its commit is being decided.
SlotInv ==
  /\ want \in [Runs -> Sigs]
  /\ pc \in [Runs -> Pc]
  /\ cand \in [Runs -> Candidate]
  /\ holder \in [Keys -> Slots \cup {NoSlot}]
  /\ \A r \in Runs : slot = CandidateOf(r) <=> cand[r] \in HoldsSlot
  /\ \A r \in Runs, k \in Keys : holder[k] = CandidateOf(r) =>
       cand[r] \in HoldsKey /\ KeyOf[want[r]] = k
  /\ \A r \in Runs : cand[r] \in Attempting => pc[r] \in Early
  /\ \A r \in Runs : pc[r] = "deciding" => cand[r] = "ready"

LEMMA CandidateSlots ==
  /\ \A r \in Runs : CandidateOf(r) \in Slots /\ CandidateOf(r) # NoSlot /\ Direct(r) \in Slots
  /\ \A r, p \in Runs : CandidateOf(r) = CandidateOf(p) => r = p
  /\ \A r, p \in Runs : Direct(r) # CandidateOf(p)
BY SpeculationAssumption, SlotAssumption DEF CandidateOf, Direct

\* A candidate moves on and keeps what it holds.
LEMMA CandidateMoves ==
  ASSUME SlotInv, NEW r \in Runs, NEW c \in Candidate, NEW l \in Pc,
         cand' = [cand EXCEPT ![r] = c], pc' = [pc EXCEPT ![r] = l],
         UNCHANGED <<slot, holder, want>>,
         c \in HoldsSlot <=> cand[r] \in HoldsSlot,
         cand[r] \in HoldsKey => c \in HoldsKey,
         c \in Attempting => l \in Early, l = "deciding" => c = "ready"
  PROVE  SlotInv'
<1>1. \A p \in Runs : CandidateOf(p)' = CandidateOf(p)
  BY DEF CandidateOf
<1> QED BY <1>1 DEF SlotInv

\* The future or the lease of a candidate is dropped, and all it holds with it.
LEMMA CandidateDropped ==
  ASSUME SlotInv, NEW r \in Runs, cand[r] \in HoldsSlot, cand[r] # "ready",
         cand' = [cand EXCEPT ![r] = "none"], slot' = NoSlot,
         ReleasePermit(CandidateOf(r)), UNCHANGED <<pc, want>>
  PROVE  SlotInv'
<1>1. \A p \in Runs : CandidateOf(p)' = CandidateOf(p)
  BY DEF CandidateOf
<1>2. \A p \in Runs : cand[p] \in HoldsSlot => p = r
  BY CandidateSlots DEF SlotInv
<1>3. "none" \in Candidate /\ "none" \notin HoldsSlot /\ "none" \notin Attempting
  BY DEF Candidate, HoldsSlot, Attempting
<1>4. holder' \in [Keys -> Slots \cup {NoSlot}]
      /\ \A k \in Keys : holder'[k] # CandidateOf(r) /\ (holder'[k] # NoSlot => holder'[k] = holder[k])
  BY CandidateSlots DEF ReleasePermit, SlotInv
<1>5. \A p \in Runs, k \in Keys : holder'[k] = CandidateOf(p) => p # r /\ holder[k] = CandidateOf(p)
  BY <1>4, CandidateSlots
<1> QED BY <1>1, <1>2, <1>3, <1>4, <1>5, CandidateSlots DEF SlotInv

\* The turn goes on and no candidate comes by a permit.
LEMMA TurnMoves ==
  ASSUME SlotInv, NEW r \in Runs, NEW l \in Pc, pc' = [pc EXCEPT ![r] = l],
         cand[r] \in Attempting => l \in Early, l = "deciding" => cand[r] = "ready",
         UNCHANGED <<cand, slot, want>>,
         holder' \in [Keys -> Slots \cup {NoSlot}],
         \A p \in Runs, k \in Keys : holder'[k] = CandidateOf(p) => holder[k] = CandidateOf(p)
  PROVE  SlotInv'
<1>1. \A p \in Runs : CandidateOf(p)' = CandidateOf(p)
  BY DEF CandidateOf
<1> QED BY <1>1 DEF SlotInv

\* The broker gives permits only to the authoritative call.
LEMMA BrokerKeepsCandidates ==
  ASSUME SlotInv, NEW r \in Runs, SlotStep(Direct(r)) \/ Answer(Direct(r))
  PROVE  /\ holder' \in [Keys -> Slots \cup {NoSlot}]
         /\ \A p \in Runs, k \in Keys : holder'[k] = CandidateOf(p) => holder[k] = CandidateOf(p)
<1> DEFINE o == Direct(r)
<1>0. o \in Slots /\ \A p \in Runs : o # CandidateOf(p) /\ NoSlot # CandidateOf(p)
  BY CandidateSlots
<1> HIDE DEF o
<1>1. CASE UNCHANGED holder
  BY <1>1 DEF SlotInv
<1>2. CASE ReleasePermit(o)
  BY <1>0, <1>2 DEF ReleasePermit, SlotInv
<1>3. CASE InvokeWithPermit(o)
  BY <1>0, <1>3 DEF InvokeWithPermit, SlotInv
<1>4. SlotStep(o) \/ Answer(o)
  BY DEF o
<1> QED BY <1>1, <1>2, <1>3, <1>4 DEF SlotStep, Answer, AuthorizeStopped, MarkDispatched,
     ExecuteStopped, AwaitPermit, InvokeUnkeyed, BeginGrace, EndGrace, PolicyAllows,
     PolicyAsksApproval, ApprovalGranted, Denied, AuthorizerFails, ToolSucceeds, ToolFails,
     ToolErrors

LEMMA GivenUp ==
  ASSUME SlotInv, NEW r \in Runs, NEW l \in Pc \ {"deciding"}, NEW res, GiveUp(r, res),
         pc' = [pc EXCEPT ![r] = l], UNCHANGED <<slot, holder, want>>,
         cand[r] \notin Attempting \cup {"spent"}
  PROVE  SlotInv'
<1>1. CASE cand[r] = "ready"
  <2>1. cand' = [cand EXCEPT ![r] = "spent"]
    BY <1>1 DEF GiveUp, Settle
  <2> QED BY <1>1, <2>1, CandidateMoves DEF Candidate, HoldsSlot, HoldsKey, Attempting
<1>2. CASE cand[r] # "ready"
  <2>1. cand' = [cand EXCEPT ![r] = "none"]
    BY <1>2 DEF GiveUp
  <2>2. cand[r] \notin HoldsSlot /\ cand[r] \notin HoldsKey
    BY <1>2 DEF HoldsSlot, HoldsKey, Attempting
  <2> QED BY <2>1, <2>2, CandidateMoves DEF Candidate, HoldsSlot, HoldsKey, Attempting
<1> QED BY <1>1, <1>2

\* The steps of a candidate's future.
LEMMA CandidateKeepsSlots ==
  ASSUME SlotInv, NEW r \in Runs,
         \/ CandidateStarts(r) \/ OrdinaryAllows(r) \/ PreIssueFails(r) \/ DedicatedAllows(r)
         \/ Issue(r) \/ CandidateSucceeds(r) \/ CandidateFails(r) \/ CandidateStops(r)
         \/ CandidateGraceEnds(r) \/ Release(r)
  PROVE  SlotInv'
<1>0. pc[r] \in Pc /\ (cand[r] \in Attempting => pc[r] \in Early) /\ pc = [pc EXCEPT ![r] = pc[r]]
  BY DEF SlotInv
<1>1. ASSUME NotIssued(r), cand[r] \in HoldsSlot \ {"ready"} PROVE SlotInv'
  BY <1>1, CandidateDropped DEF NotIssued, OutOfTurn, Move
<1>2. ASSUME NEW c \in Attempting \cup {"ready", "spent"}, Move(r, c), cand[r] \in Attempting,
             UNCHANGED <<pc, slot, holder, want>>, cand[r] \in HoldsKey => c \in HoldsKey
      PROVE  SlotInv'
  <2>1. /\ c \in Candidate /\ c \in HoldsSlot /\ cand[r] \in HoldsSlot
        /\ pc' = [pc EXCEPT ![r] = pc[r]] /\ pc[r] \in Early \ {"deciding"}
    BY <1>0, <1>2 DEF Candidate, HoldsSlot, Early
  <2> QED BY <1>0, <1>2, <2>1, CandidateMoves DEF Move
<1> USE DEF OutOfTurn
<1>3. CASE CandidateStarts(r)
  BY <1>1, <1>2, <1>3 DEF CandidateStarts, HoldsSlot, HoldsKey, Attempting
<1>4. CASE OrdinaryAllows(r)
  BY <1>2, <1>4 DEF OrdinaryAllows, HoldsKey, Attempting
<1>5. CASE PreIssueFails(r)
  BY <1>1, <1>5 DEF PreIssueFails, HoldsSlot, Attempting
<1>6. CASE DedicatedAllows(r)
  <2>1. CASE NotIssued(r)
    BY <1>1, <1>6, <2>1 DEF DedicatedAllows, HoldsSlot, Attempting
  <2>2. CASE ~NotIssued(r)
    <3>1. /\ cand[r] = "dedicated" /\ cand' = [cand EXCEPT ![r] = "issuing"]
          /\ holder' = [k \in Keys |-> IF k = KeyOf[want[r]] THEN CandidateOf(r) ELSE holder[k]]
          /\ UNCHANGED <<pc, slot, want>>
      BY <1>6, <2>2 DEF DedicatedAllows, Move
    <3>2. "issuing" \in Candidate \cap HoldsSlot \cap HoldsKey \cap Attempting
          /\ cand[r] \in HoldsSlot \cap Attempting
      BY <3>1 DEF Candidate, HoldsSlot, HoldsKey, Attempting
    <3>3. \A p \in Runs : CandidateOf(p)' = CandidateOf(p)
      BY DEF CandidateOf
    <3>4. holder' \in [Keys -> Slots \cup {NoSlot}]
      BY <3>1, CandidateSlots DEF SlotInv
    <3>5. \A p \in Runs, k \in Keys : holder'[k] = CandidateOf(p) =>
            (p = r /\ k = KeyOf[want[r]]) \/ holder[k] = CandidateOf(p)
      BY <3>1, CandidateSlots
    <3>6. \A p \in Runs : CandidateOf(p)' = slot' <=> cand'[p] \in HoldsSlot
      BY <3>1, <3>2, <3>3 DEF SlotInv
    <3>7. \A p \in Runs, k \in Keys : holder'[k] = CandidateOf(p)' =>
            cand'[p] \in HoldsKey /\ KeyOf[want'[p]] = k
      BY <3>1, <3>2, <3>3, <3>5 DEF SlotInv
    <3>8. \A p \in Runs : cand'[p] \in Attempting => pc'[p] \in Early
      BY <3>1, <3>2 DEF SlotInv
    <3> QED BY <3>1, <3>2, <3>4, <3>6, <3>7, <3>8 DEF SlotInv
  <2> QED BY <2>1, <2>2
<1>7. CASE Issue(r)
  BY <1>2, <1>7 DEF Issue, HoldsKey, Attempting
<1>8. CASE CandidateSucceeds(r)
  BY <1>2, <1>8 DEF CandidateSucceeds, HoldsKey, Attempting
<1>9. CASE CandidateFails(r)
  BY <1>2, <1>9 DEF CandidateFails, Settle, Move, HoldsKey, Attempting
<1>10. CASE CandidateStops(r)
  BY <1>1, <1>2, <1>10 DEF CandidateStops, HoldsSlot, HoldsKey, Attempting
<1>11. CASE CandidateGraceEnds(r)
  BY <1>2, <1>11 DEF CandidateGraceEnds, Settle, Move, HoldsKey, Attempting
<1>12. CASE Release(r)
  BY <1>12, CandidateDropped DEF Release, Move, HoldsSlot
<1> QED BY <1>3, <1>4, <1>5, <1>6, <1>7, <1>8, <1>9, <1>10, <1>11, <1>12

\* The steps of the stream.
LEMMA StreamKeepsSlots ==
  ASSUME SlotInv, NEW r \in Runs,
         \/ \E s \in Asks[r] : Capture(r, s)
         \/ CandidateLate(r) \/ StreamFails(r) \/ StreamStopped(r) \/ Drained(r)
         \/ StreamCompletes(r) \/ ResponseReady(r)
  PROVE  SlotInv'
<1>0. pc[r] \in Pc /\ cand[r] \in Candidate /\ (pc[r] = "deciding" => cand[r] = "ready") /\ pc = [pc EXCEPT ![r] = pc[r]]
      /\ {"stream", "tail", "drainFailed", "drainStopped", "answered", "done"} \subseteq Pc
      /\ {"none", "spent"} \subseteq Candidate
  BY DEF SlotInv, Pc, Candidate
<1> USE DEF OutOfBroker, Goto, Finish, Move
<1>1. ASSUME NEW l \in Pc, pc' = [pc EXCEPT ![r] = l], UNCHANGED <<cand, slot, want, holder>>,
             cand[r] \in Attempting => l \in Early, l # "deciding"
      PROVE  SlotInv'
  <2>1. holder' \in [Keys -> Slots \cup {NoSlot}]
    BY <1>1 DEF SlotInv
  <2> QED BY <1>1, <2>1, TurnMoves
<1>2. ASSUME NEW s \in Asks[r], Capture(r, s) PROVE SlotInv'
  <2>0. /\ cand[r] = "open" /\ pc[r] = "stream" /\ UNCHANGED <<pc, holder>>
        /\ want' = [want EXCEPT ![r] = s]
    BY <1>2 DEF Capture, StreamLive
  <2>5. s \in Sigs /\ want' \in [Runs -> Sigs]
    BY <2>0, <1>2, SpeculationAssumption DEF SlotInv
  <2>1. cand[r] \notin HoldsSlot /\ cand[r] \notin HoldsKey
    BY <2>0 DEF HoldsSlot, HoldsKey, Attempting
  <2>2. \A p \in Runs : CandidateOf(p)' = CandidateOf(p)
    BY DEF CandidateOf
  <2>3. CASE UNCHANGED slot /\ \E c \in {"none", "shadow"} : cand' = [cand EXCEPT ![r] = c]
    <3>1. "none" \notin HoldsSlot /\ "shadow" \notin HoldsSlot /\ {"none", "shadow"} \subseteq Candidate
      BY DEF HoldsSlot, Attempting, Candidate
    <3>2. "none" \notin Attempting /\ "shadow" \notin Attempting
      BY DEF Attempting
    <3> QED BY <2>0, <2>1, <2>2, <2>3, <2>5, <3>1, <3>2 DEF SlotInv
  <2>4. CASE slot = NoSlot /\ slot' = CandidateOf(r) /\ cand' = [cand EXCEPT ![r] = "new"]
    <3>1. "new" \in HoldsSlot /\ "new" \in Candidate /\ "stream" \in Early
      BY DEF HoldsSlot, Attempting, Candidate, Early
    <3>2. \A p \in Runs : cand[p] \notin HoldsSlot
      BY <2>4, CandidateSlots DEF SlotInv
    <3>3. \A p \in Runs : slot' = CandidateOf(p)' <=> p = r
      BY <2>2, <2>4, CandidateSlots
    <3>4. \A p \in Runs : cand'[p] \in HoldsSlot <=> p = r
      BY <2>4, <3>1, <3>2 DEF SlotInv
    <3>5. \A p \in Runs : slot' = CandidateOf(p)' <=> cand'[p] \in HoldsSlot
      BY <3>3, <3>4
    <3> QED BY <2>0, <2>1, <2>2, <2>4, <2>5, <3>1, <3>5 DEF SlotInv
  <2> QED BY <1>2, <2>3, <2>4 DEF Capture
<1>3. CASE CandidateLate(r)
  BY <1>0, <1>3, GivenUp DEF CandidateLate, StreamLive, Attempting
<1>4. CASE StreamFails(r)
  <2>1. CASE cand[r] \in Attempting
    BY <1>0, <1>1, <1>4, <2>1 DEF StreamFails, Early, Attempting
  <2>2. CASE cand[r] \in {"open", "none"}
    BY <1>0, <1>1, <1>4, <2>2 DEF StreamFails, Attempting
  <2>3. CASE cand[r] = "shadow"
    BY <1>0, <1>4, <2>3, CandidateMoves DEF StreamFails, Attempting, HoldsSlot, HoldsKey
  <2>4. CASE cand[r] = "ready"
    BY <1>0, <1>4, <2>4, CandidateMoves DEF StreamFails, Attempting, HoldsSlot, HoldsKey
  <2> QED BY <1>4, <2>1, <2>2, <2>3, <2>4 DEF StreamFails
<1>5. CASE StreamStopped(r)
  <2>1. CASE cand[r] \in Attempting
    BY <1>0, <1>1, <1>5, <2>1 DEF StreamStopped, Early
  <2>2. CASE cand[r] \notin Attempting
    BY <1>0, <1>5, <2>2, GivenUp DEF StreamStopped, Awaits
  <2> QED BY <2>1, <2>2
<1>6. CASE Drained(r)
  BY <1>0, <1>1, <1>6 DEF Drained, Attempting
<1>7. CASE StreamCompletes(r)
  BY <1>0, <1>1, <1>7 DEF StreamCompletes, Attempting, Early
<1>8. CASE ResponseReady(r)
  <2>1. CASE cand[r] = "shadow"
    BY <1>0, <1>8, <2>1, CandidateMoves DEF ResponseReady, Attempting, HoldsSlot, HoldsKey
  <2>2. CASE cand[r] # "shadow" /\ UNCHANGED cand
    BY <1>0, <1>1, <1>8, <2>2 DEF ResponseReady, Attempting
  <2>3. CASE cand[r] = "ready" /\ GiveUp(r, "discarded")
    BY <1>0, <1>8, <2>3, GivenUp DEF ResponseReady, Attempting
  <2> QED BY <1>8, <2>1, <2>2, <2>3 DEF ResponseReady
<1> QED BY <1>2, <1>3, <1>4, <1>5, <1>6, <1>7, <1>8

\* The steps of the call at index 0.
LEMMA CallKeepsSlots ==
  ASSUME SlotInv, NEW r \in Runs,
         \/ AnswerUnused(r) \/ CommitStopped(r) \/ CommitNotPossible(r) \/ CommitPrepares(r)
         \/ CommitLate(r) \/ CommitResolved(r) \/ CommitErrs(r) \/ CommitAsks(r)
         \/ DecisionStopped(r) \/ DecisionFails(r) \/ Commit(r) \/ TakeCall(r) \/ CallEnds(r)
  PROVE  SlotInv'
<1>0. /\ pc[r] \in Pc /\ pc = [pc EXCEPT ![r] = pc[r]]
      /\ pc[r] = "deciding" => cand[r] = "ready"
      /\ {"commit", "deciding", "direct", "done"} \subseteq Pc
      /\ "spent" \in Candidate
  BY DEF SlotInv, Pc, Candidate
<1>1. pc[r] \notin Early
  <2>1. pc[r] \in {"answered", "commit", "deciding", "direct"}
    BY DEF AnswerUnused, CommitStopped, CommitNotPossible, CommitPrepares, CommitLate,
           CommitResolved, CommitErrs, CommitAsks, DecisionStopped, DecisionFails, Commit,
           TakeCall, CallEnds
  <2> QED BY <2>1 DEF Early
<1>2. cand[r] \notin Attempting
  BY <1>1 DEF SlotInv
<1> USE DEF OutOfBroker, Goto, Finish, Move
<1>3. ASSUME NEW l \in Pc, pc' = [pc EXCEPT ![r] = l], UNCHANGED <<cand, slot, want, holder>>,
             l = "deciding" => cand[r] = "ready"
      PROVE  SlotInv'
  <2>1. holder' \in [Keys -> Slots \cup {NoSlot}]
    BY <1>3 DEF SlotInv
  <2> QED BY <1>2, <1>3, <2>1, TurnMoves
<1>4. ASSUME NEW l \in Pc \ {"deciding"}, NEW res, pc' = [pc EXCEPT ![r] = l], GiveUp(r, res),
             UNCHANGED <<slot, want, holder>>, cand[r] # "spent"
      PROVE  SlotInv'
  BY <1>2, <1>4, GivenUp
<1>5. CASE AnswerUnused(r)
  BY <1>0, <1>4, <1>5 DEF AnswerUnused, Awaits
<1>6. CASE CommitStopped(r)
  BY <1>0, <1>4, <1>6 DEF CommitStopped
<1>7. CASE CommitNotPossible(r)
  BY <1>0, <1>4, <1>7 DEF CommitNotPossible
<1>8. CASE CommitPrepares(r)
  <2>1. UNCHANGED holder
    BY <1>8 DEF CommitPrepares, Prepare, PrepareStopped, PrepareOverBudget, PrepareUnusable,
                PrepareReused, PrepareUncertain, PrepareRepeated, PrepareAdmitted, Admitting,
                Preparing
  <2> QED BY <1>0, <1>3, <1>8, <2>1 DEF CommitPrepares
<1>9. CASE CommitLate(r)
  BY <1>0, <1>4, <1>9 DEF CommitLate
<1>10. CASE CommitResolved(r)
  BY <1>0, <1>4, <1>10 DEF CommitResolved, Awaits
<1>11. CASE CommitErrs(r)
  <2>1. UNCHANGED holder /\ cand[r] # "spent"
    BY <1>11 DEF CommitErrs, RecordPreDispatchError, Awaits
  <2> QED BY <1>0, <1>4, <1>11, <2>1 DEF CommitErrs
<1>12. CASE CommitAsks(r)
  <2>1. CASE cand[r] = "ready" /\ due[r] = "none" /\ Active(want[r])
    BY <1>0, <1>3, <1>12, <2>1 DEF CommitAsks
  <2>2. CASE ~(cand[r] = "ready" /\ due[r] = "none" /\ Active(want[r]))
    BY <1>0, <1>4, <1>12, <2>2 DEF CommitAsks, Awaits
  <2> QED BY <2>1, <2>2
<1>13. CASE DecisionStopped(r)
  BY <1>0, <1>4, <1>13 DEF DecisionStopped, Awaits
<1>14. CASE DecisionFails(r)
  BY <1>0, <1>4, <1>14 DEF DecisionFails, Awaits
<1>15. CASE Commit(r)
  <2>1. cand[r] = "ready"
    BY <1>15 DEF Commit, SlotInv
  <2> QED BY <1>0, <1>15, <2>1, CandidateMoves DEF Commit, HoldsSlot, HoldsKey, Attempting
<1>16. CASE TakeCall(r)
  <2>1. UNCHANGED holder
    BY <1>16 DEF TakeCall, Prepare, PrepareStopped, PrepareOverBudget, PrepareUnusable,
                 PrepareReused, PrepareUncertain, PrepareRepeated, PrepareAdmitted, Admitting,
                 Preparing
  <2> QED BY <1>0, <1>3, <1>16, <2>1 DEF TakeCall
<1>17. CASE CallEnds(r)
  <2>1. UNCHANGED holder
    BY <1>17 DEF CallEnds, RecordPreDispatchError, RecordExecution, RecordExecutionError
  <2> QED BY <1>0, <1>3, <1>17, <2>1 DEF CallEnds
<1> QED BY <1>5, <1>6, <1>7, <1>8, <1>9, <1>10, <1>11, <1>12, <1>13, <1>14, <1>15, <1>16, <1>17

\* Every step of the system keeps the slot and the permits where they belong.
LEMMA StepKeepsSlots ==
  ASSUME SlotInv, [Next]_vars
  PROVE  SlotInv'
<1> USE DEF SlotInv
<1>1. CASE UNCHANGED <<pc, want, cand, slot, holder>>
  BY <1>1 DEF CandidateOf
<1>2. CASE HostStep
  BY <1>1, <1>2 DEF HostStep, Activate, ReturnToShadow, brokerVars, turnVars
<1>3. ASSUME NEW r \in Runs, CandidateDue(r) \/ CallDue(r) \/ StopStep(r) PROVE SlotInv'
  BY <1>1, <1>3 DEF CandidateDue, CallDue, StopStep, Cancel, Expire, brokerVars
<1>4. ASSUME NEW r \in Runs, SlotStep(Direct(r)) \/ Answer(Direct(r)),
             UNCHANGED <<controllerVars, slot, turnVars>>
      PROVE  SlotInv'
  <2>1. pc' = [pc EXCEPT ![r] = pc[r]] /\ UNCHANGED <<cand, slot, want>> /\ pc[r] \in Pc
    BY <1>4 DEF turnVars
  <2> HIDE DEF SlotInv
  <2>2. (cand[r] \in Attempting => pc[r] \in Early) /\ (pc[r] = "deciding" => cand[r] = "ready")
    BY DEF SlotInv
  <2> QED BY <1>4, <2>1, <2>2, BrokerKeepsCandidates, TurnMoves
<1> HIDE DEF SlotInv
<1>5. ASSUME NEW r \in Runs, RunStep(r) \/ AnswerStep(r) PROVE SlotInv'
  BY <1>4, <1>5, CandidateKeepsSlots, StreamKeepsSlots, CallKeepsSlots DEF RunStep, AnswerStep
<1>6. CASE UNCHANGED vars
  BY <1>1, <1>6 DEF vars, brokerVars, turnVars
<1> QED BY <1>2, <1>3, <1>5, <1>6 DEF Next

LEMMA InitSlots == Init => SlotInv
<1> SUFFICES ASSUME Init PROVE SlotInv
  OBVIOUS
<1>1. want \in [Runs -> Sigs] /\ pc \in [Runs -> Pc] /\ cand \in [Runs -> Candidate]
  BY SigAssumption DEF Init, AnySig, Pc, Candidate
<1>2. holder \in [Keys -> Slots \cup {NoSlot}] /\ \A k \in Keys : holder[k] = NoSlot
  BY DEF Init, BrokerInit
<1>3. \A r \in Runs : cand[r] \notin HoldsSlot /\ slot = NoSlot /\ pc[r] = "stream"
  BY DEF Init, HoldsSlot, Attempting
<1> QED BY <1>1, <1>2, <1>3, CandidateSlots DEF SlotInv, Early

LEMMA SlotInvariant == Safe => []SlotInv
<1>1. Init => SlotInv
  BY InitSlots
<1>2. SlotInv /\ [Next]_vars => SlotInv'
  BY StepKeepsSlots
<1> QED BY <1>1, <1>2, PTL DEF Safe

(* However a stream, a policy, a tool, a deadline or a commit ends, the    *)
(* runner's slot and the keyed permits are back when the candidate's       *)
(* future and its lease are gone, and never earlier.                       *)
THEOREM NoSlotIsLeaked == Safe => []NoSlotLeak
<1>1. SlotInv => NoSlotLeak
  BY DEF SlotInv, NoSlotLeak, HoldsSlot, HoldsKey
<1> QED BY <1>1, SlotInvariant, PTL

(* The breaker, with any number of runs and tools: Active mode is earned by *)
(* exact observations, and nothing is committed after an incident.          *)
THEOREM BreakerAlwaysHolds == Safe => BreakerHolds
BY ActiveMustBeEarned, BreakerIsFinal, PTL DEF BreakerHolds

-----------------------------------------------------------------------------
(* What a step of a run does to its authoritative call.                    *)

\* Prepared and not yet called, or over: nothing of it has begun.
Begun == AtTool \cup {"execOk", "execFail", "execErr"}

QuietMove(r) ==
  /\ UNCHANGED <<ledgerVars, slotVars, historyVars, committed>>
  /\ \/ pc'[r] = pc[r] /\ (stop'[r] = stop[r] \/ pc[r] # "done")
     \/ pc[r] \in Early \cup {"answered"} /\ pc'[r] \in Early \cup {"answered", "direct", "done"}
     \/ pc[r] = "commit" /\ phase[Direct(r)] = "ready" /\ pc'[r] \in {"deciding", "direct"}
     \/ pc[r] = "deciding" /\ pc'[r] = "direct"

TakeMove(r) ==
  /\ pc[r] \in {"answered", "direct"} /\ pc'[r] \in {"commit", "direct"}
  /\ Prepare(Direct(r), want[r])
  /\ UNCHANGED committed

CallMove(r) ==
  /\ SlotStep(Direct(r)) \/ Answer(Direct(r))
  /\ phase[Direct(r)] = "ready" => pc[r] = "direct"
  /\ UNCHANGED <<pc, committed>>

EndMove(r) ==
  /\ pc[r] \in {"commit", "direct"} /\ pc'[r] = "done"
  /\ RecordMove(Direct(r)) /\ FreeSlot(Direct(r))
  /\ UNCHANGED <<stop, committed>>

DropMove(r) ==
  /\ pc[r] = "deciding" /\ pc'[r] = "done" /\ ~Live(r)
  /\ FreeSlot(Direct(r))
  /\ UNCHANGED <<ledgerVars, stop, historyVars, committed>>

ReplaceMove(r) ==
  /\ pc[r] = "deciding" /\ pc'[r] = "done"
  /\ Bump(r, {"issued", "completed"}) /\ FreeSlot(Direct(r))
  /\ committed' = committed \cup {r}
  /\ UNCHANGED <<seen, effects, stop, historyVars>>

TurnMove(r) ==
  /\ \A p \in Runs \ {r} : pc'[p] = pc[p] /\ stop'[p] = stop[p]
  /\ \/ QuietMove(r) \/ TakeMove(r) \/ CallMove(r) \/ EndMove(r) \/ DropMove(r) \/ ReplaceMove(r)

RunMoves(r) == RunStep(r) \/ AnswerStep(r) \/ CandidateDue(r) \/ CallDue(r) \/ StopStep(r)

LEMMA RunMovesTurn ==
  ASSUME BrokerTypeOK, SlotInv, NEW r \in Runs, RunMoves(r)
  PROVE  TurnMove(r)
<1>0. /\ pc \in [Runs -> Pc] /\ want[r] \in Sigs /\ Direct(r) \in Slots /\ RunOf[Direct(r)] = r
      /\ stop \in [Runs -> {"live", "expired", "cancelled"}]
  BY CandidateSlots, SpeculationAssumption DEF SlotInv, BrokerTypeOK, Direct
<1> USE DEF TurnMove
<1>1. CASE CandidateStarts(r) \/ OrdinaryAllows(r) \/ PreIssueFails(r) \/ DedicatedAllows(r)
           \/ Issue(r) \/ CandidateSucceeds(r) \/ CandidateFails(r) \/ CandidateStops(r)
           \/ CandidateGraceEnds(r) \/ Release(r)
  <2>1. UNCHANGED <<ledgerVars, slotVars, historyVars, committed, pc, stop>>
    BY <1>1 DEF CandidateStarts, OrdinaryAllows, PreIssueFails, DedicatedAllows, Issue,
       CandidateSucceeds, CandidateFails, CandidateStops, CandidateGraceEnds, Release, NotIssued,
       OutOfTurn
  <2> QED BY <2>1 DEF QuietMove
<1>2. ASSUME OutOfBroker, UNCHANGED committed, NEW l, pc' = [pc EXCEPT ![r] = l],
             \/ l = pc[r]
             \/ pc[r] \in Early \cup {"answered"} /\ l \in Early \cup {"answered", "direct", "done"}
             \/ pc[r] = "commit" /\ phase[Direct(r)] = "ready" /\ l \in {"deciding", "direct"}
             \/ pc[r] = "deciding" /\ l = "direct"
      PROVE  TurnMove(r)
  BY <1>0, <1>2 DEF OutOfBroker, QuietMove
<1>3. CASE CandidateLate(r) \/ CommitLate(r) \/ \E s \in Asks[r] : Capture(r, s)
  BY <1>0, <1>3 DEF CandidateLate, CommitLate, Capture, OutOfBroker, QuietMove
<1>4. CASE StreamFails(r) \/ StreamStopped(r) \/ Drained(r) \/ StreamCompletes(r)
           \/ ResponseReady(r) \/ AnswerUnused(r) \/ CommitStopped(r) \/ CommitNotPossible(r)
  <2>1. OutOfBroker /\ UNCHANGED committed /\ pc[r] \in Early \cup {"answered"}
    BY <1>4 DEF StreamFails, StreamStopped, Drained, StreamCompletes, ResponseReady, AnswerUnused,
       CommitStopped, CommitNotPossible, StreamLive, Early
  <2>2. \E l \in Early \cup {"answered", "direct", "done"} : pc' = [pc EXCEPT ![r] = l]
    BY <1>4 DEF StreamFails, StreamStopped, Drained, StreamCompletes, ResponseReady, AnswerUnused,
       CommitStopped, CommitNotPossible, Goto, Finish, Early
  <2> QED BY <1>2, <2>1, <2>2
<1>5. CASE CommitAsks(r) \/ DecisionFails(r)
  <2>1. \/ pc[r] = "commit" /\ phase[Direct(r)] = "ready"
           /\ \E l \in {"deciding", "direct"} : pc' = [pc EXCEPT ![r] = l]
        \/ pc[r] = "deciding" /\ pc' = [pc EXCEPT ![r] = "direct"]
    BY <1>5 DEF CommitAsks, DecisionFails, Goto
  <2>2. OutOfBroker /\ UNCHANGED committed
    BY <1>5 DEF CommitAsks, DecisionFails
  <2> QED BY <1>2, <2>1, <2>2
<1>6. CASE CommitPrepares(r) \/ TakeCall(r)
  <2>1. Prepare(Direct(r), want[r]) /\ PrepareMove(Direct(r), want[r])
    BY <1>0, <1>6, PrepareMoves DEF CommitPrepares, TakeCall
  <2>2. /\ pc[r] \in {"answered", "direct"} /\ UNCHANGED committed
        /\ pc' = [pc EXCEPT ![r] = "commit"] \/ pc' = [pc EXCEPT ![r] = "direct"]
    BY <1>6 DEF CommitPrepares, TakeCall, Goto
  <2> QED BY <1>0, <2>1, <2>2 DEF TakeMove, PrepareMove
<1>7. CASE Awaits(r) /\ (SlotStep(Direct(r)) \/ Answer(Direct(r)))
           /\ (phase[Direct(r)] = "ready" => pc[r] = "direct")
           /\ UNCHANGED <<controllerVars, slot, turnVars>>
  BY <1>0, <1>7, SlotMoves DEF CallMove, turnVars, SlotMove
<1>8. CASE Awaits(r) /\ Answer(Direct(r)) /\ UNCHANGED <<controllerVars, slot, turnVars>>
  <2>1. phase[Direct(r)] # "ready"
    BY <1>8 DEF Answer, PolicyAllows, PolicyAsksApproval, ApprovalGranted, Denied, AuthorizerFails,
       ToolSucceeds, ToolFails, ToolErrors, PrepPhases
  <2> QED BY <1>7, <1>8, <2>1
<1>9. CASE CommitResolved(r) \/ CommitErrs(r) \/ CallEnds(r)
  <2>1. /\ pc[r] \in {"commit", "direct"} /\ pc' = [pc EXCEPT ![r] = "done"]
        /\ FreeSlot(Direct(r)) /\ UNCHANGED <<stop, committed>>
    BY <1>9 DEF CommitResolved, CommitErrs, CallEnds, Goto, Finish, RecordPreDispatchError,
       RecordExecution, RecordExecutionError
  <2>2. RecordMove(Direct(r))
    BY <1>9 DEF CommitResolved, CommitErrs, CallEnds, RecordMove
  <2> QED BY <1>0, <2>1, <2>2 DEF EndMove
<1>10. CASE DecisionStopped(r)
  BY <1>0, <1>10 DEF DecisionStopped, DropMove, Finish, Goto
<1>11. CASE Commit(r)
  BY <1>0, <1>11 DEF Commit, ReplaceMove, Goto
<1>12. CASE CandidateDue(r) \/ CallDue(r)
  BY <1>12 DEF CandidateDue, CallDue, QuietMove, brokerVars, ledgerVars, slotVars, historyVars
<1>13. CASE StopStep(r)
  BY <1>0, <1>13 DEF StopStep, Cancel, Expire, QuietMove
<1> HIDE DEF TurnMove
<1> QED
  BY <1>1, <1>3, <1>4, <1>5, <1>6, <1>7, <1>8, <1>9, <1>10, <1>11, <1>12, <1>13
     DEF RunMoves, RunStep, AnswerStep

-----------------------------------------------------------------------------
(* Types.                                                                  *)

\* Every status a turn ends with is one.
LEMMA StatusType ==
  ASSUME BrokerTypeOK, NEW r \in Runs, RunMoves(r)
  PROVE  status' \in [Runs -> Status]
<1>0. status \in [Runs -> Status] /\ {"Failed", "Completed", "LimitReached"} \subseteq Status
  BY DEF BrokerTypeOK, Status
<1>1. ASSUME NEW st \in Status, Finish(r, st) PROVE status' \in [Runs -> Status]
  BY <1>0, <1>1 DEF Finish
<1>2. CASE UNCHANGED status
  BY <1>0, <1>2
<1>3. CASE CandidateStarts(r) \/ OrdinaryAllows(r) \/ PreIssueFails(r) \/ DedicatedAllows(r)
           \/ Issue(r) \/ CandidateSucceeds(r) \/ CandidateFails(r) \/ CandidateStops(r)
           \/ CandidateGraceEnds(r) \/ Release(r)
  BY <1>2, <1>3 DEF CandidateStarts, OrdinaryAllows, PreIssueFails, DedicatedAllows, Issue,
     CandidateSucceeds, CandidateFails, CandidateStops, CandidateGraceEnds, Release, NotIssued,
     OutOfTurn
<1>4. CASE CandidateLate(r) \/ CommitLate(r) \/ (\E s \in Asks[r] : Capture(r, s))
           \/ ResponseReady(r) \/ CommitNotPossible(r) \/ CommitAsks(r) \/ DecisionFails(r)
           \/ CommitResolved(r) \/ Commit(r) \/ CandidateDue(r) \/ CallDue(r) \/ StopStep(r)
  BY <1>2, <1>4 DEF CandidateLate, CommitLate, Capture, ResponseReady, CommitNotPossible,
     CommitAsks, DecisionFails, CommitResolved, Commit, CandidateDue, CallDue, StopStep, Cancel,
     Expire, brokerVars
<1>5. CASE StreamFails(r) \/ StreamStopped(r) \/ Drained(r) \/ StreamCompletes(r)
           \/ AnswerUnused(r) \/ CommitStopped(r) \/ CommitErrs(r) \/ DecisionStopped(r)
  <2>1. \/ UNCHANGED status
        \/ \E st \in {"Failed", "Completed", "LimitReached", ErrorStatus(StopError(r)),
                      ErrorStatus(err[Direct(r)])} : Finish(r, st)
    BY <1>5, Zenon DEF StreamFails, StreamStopped, Drained, StreamCompletes, AnswerUnused,
       CommitStopped, CommitErrs, DecisionStopped
  <2> QED BY <1>0, <1>1, <1>2, <2>1, ErrorStatusType
<1>6. CASE CallEnds(r)
  <2>1. UNCHANGED status \/ Finish(r, ErrorStatus(err[Direct(r)]))
    BY <1>6, Zenon DEF CallEnds
  <2> QED BY <1>1, <1>2, <2>1, ErrorStatusType
<1>7. CASE CommitPrepares(r) \/ TakeCall(r)
  <2>1. \/ UNCHANGED status
        \/ status' = [status EXCEPT ![RunOf[Direct(r)]] = "LimitReached"]
    BY <1>7 DEF CommitPrepares, TakeCall, Prepare, PrepareStopped, PrepareOverBudget,
       PrepareUnusable, PrepareReused, PrepareUncertain, PrepareRepeated, PrepareAdmitted
  <2> QED BY <1>0, <2>1
<1>8. CASE SlotStep(Direct(r)) \/ Answer(Direct(r))
  BY <1>8, SlotType, CandidateSlots DEF BrokerTypeOK
<1> QED
  BY <1>3, <1>4, <1>5, <1>6, <1>7, <1>8 DEF RunMoves, RunStep, AnswerStep

LEMMA BrokerTypes ==
  ASSUME BrokerTypeOK, SlotInv, [Next]_vars
  PROVE  BrokerTypeOK'
<1>1. holder' \in [Keys -> Slots \cup {NoSlot}]
  BY StepKeepsSlots DEF SlotInv
<1>2. CASE UNCHANGED vars \/ HostStep
  BY <1>2 DEF BrokerTypeOK, vars, HostStep, Activate, ReturnToShadow, brokerVars
<1>3. ASSUME NEW r \in Runs, RunMoves(r) PROVE BrokerTypeOK'
  <2> DEFINE o == Direct(r)
  <2>0. o \in Slots /\ RunOf[o] = r /\ want[r] \in Sigs
    BY CandidateSlots, SpeculationAssumption DEF Direct, SlotInv
  <2> HIDE DEF o
  <2>1. CASE TakeMove(r)
    BY <2>0, <2>1, PrepareType DEF TakeMove, o
  <2>2. CASE CallMove(r)
    BY <2>0, <2>2, SlotType DEF CallMove, o
  <2>3. status' \in [Runs -> Status]
    BY <1>3, StatusType
  <2>4. stop' \in [Runs -> {"live", "expired", "cancelled"}]
    <3>1. CASE StopStep(r)
      BY <3>1 DEF StopStep, Cancel, Expire, BrokerTypeOK
    <3>2. CASE ~StopStep(r)
      <4>1. UNCHANGED stop
        BY <1>3, <3>2 DEF RunMoves, RunStep, AnswerStep, CandidateDue, CallDue, CandidateStarts,
           OrdinaryAllows, PreIssueFails, DedicatedAllows, Issue, CandidateSucceeds,
           CandidateFails, CandidateStops, CandidateGraceEnds, Release, NotIssued, OutOfTurn,
           CandidateLate, CommitLate, Capture, StreamFails, StreamStopped, Drained,
           StreamCompletes, ResponseReady, AnswerUnused, CommitStopped, CommitNotPossible,
           CommitPrepares, CommitResolved, CommitErrs, CommitAsks, DecisionStopped, DecisionFails,
           Commit, TakeCall, CallEnds, OutOfBroker, brokerVars, RecordPreDispatchError,
           RecordExecution, RecordExecutionError, Prepare, PrepareStopped, PrepareOverBudget,
           PrepareUnusable, PrepareReused, PrepareUncertain, PrepareRepeated, PrepareAdmitted,
           Admitting, Preparing, SlotStep, Answer, AuthorizeStopped, MarkDispatched,
           ExecuteStopped, AwaitPermit, InvokeUnkeyed, InvokeWithPermit, Invoke, BeginGrace,
           EndGrace, PolicyAllows, PolicyAsksApproval, ApprovalGranted, Denied, AuthorizerFails,
           ToolSucceeds, ToolFails, ToolErrors
      <4> QED BY <4>1 DEF BrokerTypeOK
    <3> QED BY <3>1, <3>2
  <2>5. ASSUME usage' \in [Runs -> [Counters -> Nat]], effects' \in [Runs -> [Sigs -> Effect]],
               UNCHANGED <<seen, historyVars>>, FreeSlot(o) \/ UNCHANGED slotVars
        PROVE  BrokerTypeOK'
    <3>1. /\ phase' \in [Slots -> Phase] /\ call' \in [Slots -> Sigs]
          /\ err' \in [Slots -> Errors] /\ before' \in [Slots -> Nat \X Nat]
      BY <2>0, <2>5, FreeSlotType DEF BrokerTypeOK, slotVars
    <3> QED BY <1>1, <2>3, <2>4, <2>5, <3>1 DEF BrokerTypeOK, historyVars
  <2>6. CASE QuietMove(r) \/ DropMove(r)
    BY <2>5, <2>6 DEF QuietMove, DropMove, BrokerTypeOK, ledgerVars, o
  <2>7. CASE ReplaceMove(r)
    BY <2>5, <2>7, BumpType DEF ReplaceMove, BrokerTypeOK, o
  <2>8. CASE EndMove(r)
    <3>1. /\ UNCHANGED usage \/ \E cs : Bump(r, cs)
          /\ UNCHANGED effects \/ \E s \in Sigs, e \in Effect : RecordEffect(r, s, e)
          /\ UNCHANGED <<seen, historyVars>>
      BY <2>0, <2>8 DEF EndMove, RecordMove, RecordPreDispatchError, RecordExecution,
         RecordExecutionError, ledgerVars, BrokerTypeOK, Effect, o
    <3> QED BY <2>5, <2>8, <3>1, BumpType, EffectType DEF EndMove, BrokerTypeOK, o
  <2> QED BY <1>3, <2>1, <2>2, <2>6, <2>7, <2>8, RunMovesTurn DEF TurnMove
<1> QED BY <1>2, <1>3 DEF Next, RunMoves

-----------------------------------------------------------------------------
(* The authoritative call is answered once.                                *)

\* Where the call of a turn is while the turn is where it is.
TurnAgrees(r) ==
  LET at == phase[Direct(r)] IN
  /\ pc[r] \in Early \cup {"answered", "done"} => at = "idle"
  /\ pc[r] = "commit" => at \in Unclassified \cup {"rejected", "reused", "limit", "prepErr"}
  /\ pc[r] = "deciding" => at = "ready"
  /\ pc[r] # "done" => r \notin committed
  /\ pc[r] # "done" /\ at \notin Begun => \A s \in Sigs : starts[r][s] = 0
  /\ \A s \in Sigs : starts[r][s] + (IF r \in committed THEN 1 ELSE 0) <= 1
  /\ pc[r] # "done" \/ Live(r) => CallLedger(Direct(r))

TurnInv == \A r \in Runs : TurnAgrees(r)

\* A turn whose call is over or unknown to the broker.
LEMMA TurnEnds ==
  ASSUME BrokerTypeOK, NEW r \in Runs, pc'[r] = "done", FreeSlot(Direct(r)),
         \A s \in Sigs : starts'[r][s] + (IF r \in committed' THEN 1 ELSE 0) <= 1,
         Live(r)' => Balanced(usage'[r])
  PROVE  TurnAgrees(r)'
<1>1. Direct(r) \in Slots /\ RunOf[Direct(r)] = r
  BY CandidateSlots, SpeculationAssumption DEF Direct
<1>2. phase'[Direct(r)] = "idle"
  BY <1>1 DEF FreeSlot, BrokerTypeOK
<1>3. Direct(r)' = Direct(r)
  BY DEF Direct
<1>4. Live(r)' => CallLedger(Direct(r))'
  BY <1>1, <1>2, <1>3 DEF CallLedger, Balanced, Unclassified, Dispatched, PrepPhases, ExecPhases
<1> QED BY <1>2, <1>3, <1>4 DEF TurnAgrees

\* The counters of a commit: issued and completed in one step.
LEMMA BumpCommits ==
  ASSUME NEW r \in Runs, usage \in [Runs -> [Counters -> Nat]], Bump(r, {"issued", "completed"}),
         usage[r]["calls"] = Classified(usage[r]) + 1, usage[r]["issued"] = Settled(usage[r])
  PROVE  Balanced(usage'[r])
<1>1. /\ usage'[r]["issued"] = usage[r]["issued"] + 1
      /\ usage'[r]["completed"] = usage[r]["completed"] + 1
      /\ \A c \in Counters \ {"issued", "completed"} : usage'[r][c] = usage[r][c]
  BY BumpCounts DEF Counters
<1>2. \A d \in Counters : usage[r][d] \in Nat
  OBVIOUS
<1> QED BY <1>1, <1>2 DEF Balanced, Classified, Settled, Counters

LEMMA TurnStep ==
  ASSUME BrokerTypeOK, SlotInv, NEW r \in Runs, TurnAgrees(r), TurnMove(r)
  PROVE  TurnAgrees(r)'
<1> DEFINE o == Direct(r)
<1>0. /\ o \in Slots /\ RunOf[o] = r /\ o' = o /\ want[r] \in Sigs /\ pc[r] \in Pc
      /\ starts \in [Runs -> [Sigs -> Nat]] /\ call \in [Slots -> Sigs]
      /\ usage \in [Runs -> [Counters -> Nat]]
      /\ \A s \in Sigs : starts[r][s] \in Nat
  BY CandidateSlots, SpeculationAssumption DEF Direct, BrokerTypeOK, SlotInv
<1>1. CASE QuietMove(r)
  <2>1. /\ UNCHANGED <<usage, phase, before, starts, committed>>
        /\ pc[r] # "done" \/ (pc'[r] = pc[r] /\ stop'[r] = stop[r])
    BY <1>1 DEF QuietMove, ledgerVars, slotVars, historyVars, Early
  <2>2. CallLedger(o) => CallLedger(o)'
    BY <2>1, <1>0 DEF CallLedger
  <2>3. pc'[r] # "done" \/ Live(r)' => CallLedger(o)'
    BY <2>1, <2>2 DEF TurnAgrees, Live
  <2> HIDE DEF o
  <2>4. CASE pc'[r] = pc[r]
    BY <1>0, <2>1, <2>3, <2>4 DEF TurnAgrees, o
  <2>5. CASE pc[r] # "done" /\ pc'[r] # pc[r]
    <3>1. \/ phase[o] = "idle" /\ pc'[r] \in Early \cup {"answered", "direct", "done"}
          \/ phase[o] = "ready" /\ pc'[r] \in {"deciding", "direct"}
      BY <1>0, <1>1, <2>5 DEF QuietMove, TurnAgrees, o
    <3>2. /\ r \notin committed
          /\ \A s \in Sigs : starts[r][s] = 0
      BY <1>0, <2>5, <3>1 DEF TurnAgrees, Begun, AtTool, o
    <3> QED BY <1>0, <2>1, <2>3, <3>1, <3>2
        DEF TurnAgrees, Early, Unclassified, PrepPhases, o
  <2> QED BY <2>1, <2>4, <2>5
<1>2. CASE TakeMove(r)
  <2>1. PrepareMove(o, want[r])
    BY <1>0, <1>2, PrepareMoves DEF TakeMove
  <2>2. phase[o] = "idle" /\ UNCHANGED starts /\ UNCHANGED committed
    BY <1>2, <2>1 DEF TakeMove, PrepareMove, historyVars
  <2>3. phase'[o] \in {"policy", "prepErr", "limit", "rejected", "reused"}
    BY <2>1 DEF PrepareMove, AdmittedCall, PrepareRefused, PrepareUnknown, PrepareResolved
  <2>4. r \notin committed /\ \A s \in Sigs : starts[r][s] = 0
    BY <1>0, <1>2, <2>2 DEF TurnAgrees, TakeMove, Begun, AtTool
  <2>5. CallLedger(o)'
    BY <1>0, <1>2, <2>1, PrepareKeepsLedger DEF TurnAgrees, TakeMove
  <2>6. pc'[r] \in {"commit", "direct"}
    BY <1>2 DEF TakeMove
  <2> HIDE DEF o
  <2> QED BY <1>0, <2>2, <2>3, <2>4, <2>5, <2>6
      DEF TurnAgrees, Early, Unclassified, PrepPhases, o
<1>3. CASE CallMove(r)
  <2>1. SlotMove(o) /\ UNCHANGED <<pc, committed>> /\ (phase[o] = "ready" => pc[r] = "direct")
    BY <1>0, <1>3, SlotMoves DEF CallMove
  <2>2. phase[o] # "idle"
    BY <2>1 DEF SlotMove, SlotAuthorizes, SlotDenied, SlotDispatches, SlotGivesUp, SlotWaits,
       SlotBegins, SlotGraces, SlotSucceeds, SlotFails, PrepPhases, AtTool
  <2>3. pc[r] \in {"commit", "direct"}
    BY <1>0, <2>1, <2>2 DEF TurnAgrees, Pc, Early
  <2>4. CallLedger(o)'
    BY <1>0, <2>1, <2>3, MoveKeepsLedger DEF TurnAgrees
  <2>5. r \notin committed
    BY <2>3 DEF TurnAgrees
  <2> HIDE DEF o
  <2>6. pc[r] = "commit" =>
          phase'[o] \in Unclassified \cup {"rejected", "reused", "limit", "prepErr"}
    BY <2>1 DEF TurnAgrees, SlotMove, SlotAuthorizes, SlotDenied, SlotDispatches, SlotGivesUp,
       SlotWaits, SlotBegins, SlotGraces, SlotSucceeds, SlotFails, Unclassified, PrepPhases, AtTool,
       o
  <2>7. CASE SlotBegins(o)
    <3>1. /\ phase[o] \in {"starting", "waiting"} /\ phase'[o] = "running"
          /\ starts' = [starts EXCEPT ![r][call[o]] = @ + 1]
      BY <1>0, <2>7 DEF SlotBegins
    <3>2. \A s \in Sigs : starts[r][s] = 0
      BY <2>3, <3>1 DEF TurnAgrees, Begun, AtTool, o
    <3>3. \A s \in Sigs : starts'[r][s] <= 1 /\ starts'[r][s] \in Nat
      BY <1>0, <3>1, <3>2
    <3> QED BY <1>0, <2>1, <2>3, <2>4, <2>5, <2>6, <3>1, <3>3
        DEF TurnAgrees, Early, Begun, AtTool, o
  <2>8. CASE ~SlotBegins(o)
    <3>1. starts' = starts
      BY <2>1, <2>8 DEF SlotMove, SlotAuthorizes, SlotDenied, SlotDispatches, SlotGivesUp,
         SlotWaits, SlotGraces, SlotSucceeds, SlotFails, historyVars
    <3>2. phase'[o] \notin Begun => phase[o] \notin Begun
      BY <2>1, <2>8 DEF SlotMove, SlotAuthorizes, SlotDenied, SlotDispatches, SlotGivesUp,
         SlotWaits, SlotGraces, SlotSucceeds, SlotFails, Begun, AtTool, PrepPhases
    <3> QED BY <1>0, <2>1, <2>3, <2>4, <2>5, <2>6, <3>1, <3>2 DEF TurnAgrees, Early, o
  <2> QED BY <2>7, <2>8
<1>4. CASE EndMove(r)
  <2>1. Balanced(usage'[r])
    BY <1>0, <1>4, RecordBalances, ResolvedIsBalanced
       DEF EndMove, RecordMove, TurnAgrees, ledgerVars
  <2>2. UNCHANGED <<starts, committed>>
    BY <1>4 DEF EndMove, RecordMove, RecordPreDispatchError, RecordExecution,
       RecordExecutionError, historyVars
  <2>3. \A s \in Sigs : starts'[r][s] + (IF r \in committed' THEN 1 ELSE 0) <= 1
    BY <2>2 DEF TurnAgrees
  <2> QED BY <1>4, <2>1, <2>3, TurnEnds DEF EndMove
<1>5. CASE DropMove(r)
  <2>1. ~Live(r)' /\ UNCHANGED <<starts, committed>>
    BY <1>5 DEF DropMove, Live, historyVars
  <2>2. \A s \in Sigs : starts'[r][s] + (IF r \in committed' THEN 1 ELSE 0) <= 1
    BY <2>1 DEF TurnAgrees
  <2> QED BY <1>5, <2>1, <2>2, TurnEnds DEF DropMove
<1>6. CASE ReplaceMove(r)
  <2>1. phase[o] = "ready" /\ r \notin committed /\ CallLedger(o)
        /\ \A s \in Sigs : starts[r][s] = 0
    BY <1>6 DEF ReplaceMove, TurnAgrees, Begun, AtTool
  <2>2. Balanced(usage'[r])
    BY <1>0, <1>6, <2>1, BumpCommits
       DEF ReplaceMove, CallLedger, Unclassified, Dispatched, PrepPhases, ExecPhases
  <2>3. \A s \in Sigs : starts'[r][s] = 0
    BY <1>6, <2>1 DEF ReplaceMove, historyVars
  <2> QED BY <1>6, <2>2, <2>3, TurnEnds DEF ReplaceMove
<1> QED BY <1>1, <1>2, <1>3, <1>4, <1>5, <1>6 DEF TurnMove

\* Nothing of another run's turn is touched.
LEMMA OtherTurns ==
  ASSUME BrokerTypeOK, SlotInv, NEW r \in Runs, TurnMove(r), NEW p \in Runs \ {r}, TurnAgrees(p)
  PROVE  TurnAgrees(p)'
<1> DEFINE o == Direct(r)
           q == Direct(p)
<1>0. /\ o \in Slots /\ RunOf[o] = r /\ want[r] \in Sigs /\ q \in Slots /\ RunOf[q] = p /\ q # o
      /\ q' = q
  BY CandidateSlots, SpeculationAssumption DEF Direct, SlotInv
<1> HIDE DEF o, q
<1>1. pc'[p] = pc[p] /\ stop'[p] = stop[p]
  BY DEF TurnMove
<1>2. ASSUME OwnRunOnly(o), phase'[q] = phase[q], before'[q] = before[q],
             p \in committed' <=> p \in committed
      PROVE  TurnAgrees(p)'
  <2>1. usage'[p] = usage[p] /\ starts'[p] = starts[p]
    BY <1>0, <1>2 DEF OwnRunOnly
  <2>2. CallLedger(q)' <=> CallLedger(q)
    BY <1>0, <1>2, <2>1 DEF CallLedger
  <2>3. Live(p)' <=> Live(p)
    BY <1>1 DEF Live
  <2> QED BY <1>0, <1>1, <1>2, <2>1, <2>2, <2>3 DEF TurnAgrees, q
<1>3. CASE QuietMove(r)
  BY <1>2, <1>3 DEF QuietMove, OwnRunOnly, ledgerVars, slotVars, historyVars
<1>4. CASE TakeMove(r)
  <2>1. PrepareMove(o, want[r])
    BY <1>0, <1>4, PrepareMoves DEF TakeMove, o
  <2> QED BY <1>0, <1>2, <1>4, <2>1, PrepareIsOwnRun DEF TakeMove, PrepareMove
<1>5. CASE CallMove(r)
  <2>1. SlotMove(o)
    BY <1>0, <1>5, SlotMoves DEF CallMove, o
  <2> QED BY <1>0, <1>2, <1>5, <2>1, MoveIsOwnRun DEF CallMove, SlotMove
<1>6. ASSUME FreeSlot(o) PROVE phase'[q] = phase[q] /\ before'[q] = before[q]
  BY <1>0, <1>6 DEF FreeSlot, BrokerTypeOK
<1>7. CASE EndMove(r)
  BY <1>0, <1>2, <1>6, <1>7, RecordIsOwnRun DEF EndMove, o
<1>8. CASE DropMove(r)
  BY <1>0, <1>2, <1>6, <1>8 DEF DropMove, OwnRunOnly, ledgerVars, historyVars, o
<1>9. CASE ReplaceMove(r)
  <2>1. \A u \in Runs \ {r} : usage'[u] = usage[u]
    BY <1>9 DEF ReplaceMove, Bump, BrokerTypeOK
  <2> QED BY <1>0, <1>2, <1>6, <1>9, <2>1 DEF ReplaceMove, OwnRunOnly, historyVars, o
<1> QED BY <1>3, <1>4, <1>5, <1>7, <1>8, <1>9 DEF TurnMove

LEMMA StepKeepsTurns ==
  ASSUME BrokerTypeOK, SlotInv, TurnInv, [Next]_vars
  PROVE  TurnInv'
<1>1. CASE UNCHANGED vars \/ HostStep
  <2>1. UNCHANGED <<usage, phase, before, starts, committed, pc, stop>>
    BY <1>1 DEF vars, HostStep, Activate, ReturnToShadow, brokerVars, turnVars
  <2>2. ASSUME NEW r \in Runs PROVE TurnAgrees(r)'
    <3>1. TurnAgrees(r) /\ Direct(r)' = Direct(r) /\ (Live(r)' <=> Live(r))
      BY <2>1 DEF TurnInv, Direct, Live
    <3>2. CallLedger(Direct(r))' <=> CallLedger(Direct(r))
      BY <2>1, <3>1 DEF CallLedger
    <3> QED BY <2>1, <3>1, <3>2 DEF TurnAgrees
  <2> QED BY <2>2 DEF TurnInv
<1>2. ASSUME NEW r \in Runs, RunMoves(r) PROVE TurnInv'
  BY <1>2, RunMovesTurn, TurnStep, OtherTurns DEF TurnInv
<1> QED BY <1>1, <1>2 DEF Next, RunMoves

-----------------------------------------------------------------------------
(* Keyed permits: the call of a turn, and its candidate.                   *)

KeysInv ==
  /\ \A r \in Runs : CallPermit(Direct(r))
  /\ \A r \in Runs : cand[r] \in HoldsKey /\ KeyOf[want[r]] # NoKey =>
       holder[KeyOf[want[r]]] = CandidateOf(r)

\* A call that moves changes its phase.
LEMMA MovesChangePhase ==
  ASSUME BrokerTypeOK, NEW o \in Slots, UNCHANGED phase
  PROVE  ~(SlotStep(o) \/ Answer(o))
BY DEF SlotStep, Answer, AuthorizeStopped, MarkDispatched, ExecuteStopped, AwaitPermit,
   InvokeUnkeyed, InvokeWithPermit, Invoke, BeginGrace, EndGrace, PolicyAllows, PolicyAsksApproval,
   ApprovalGranted, Denied, AuthorizerFails, ToolSucceeds, ToolFails, ToolErrors, PrepPhases,
   BrokerTypeOK

\* While the call of a turn moves, no candidate gains or loses a permit.
LEMMA CallKeepsKeys ==
  ASSUME BrokerTypeOK, SlotInv, KeysInv, NEW r \in Runs, SlotMove(Direct(r)),
         \A p \in Runs : cand'[p] \in HoldsKey => cand[p] \in HoldsKey /\ want'[p] = want[p]
  PROVE  KeysInv'
<1> DEFINE o == Direct(r)
<1>0. /\ o \in Slots
      /\ \A p \in Runs : /\ Direct(p) \in Slots /\ CandidateOf(p) \in Slots \ {o}
                         /\ Direct(p)' = Direct(p) /\ CandidateOf(p)' = CandidateOf(p)
  BY CandidateSlots DEF Direct, CandidateOf
<1>1. /\ CallPermit(o)'
      /\ \A k \in Keys, q \in Slots \ {o} : holder'[k] = q <=> holder[k] = q
  BY <1>0, MoveKeepsPermits DEF KeysInv
<1>2. \A p \in Runs : CallPermit(Direct(p))'
  <2> SUFFICES ASSUME NEW p \in Runs PROVE CallPermit(Direct(p))'
    OBVIOUS
  <2>1. CASE Direct(p) = o
    BY <1>1, <2>1 DEF Direct, CallPermit
  <2>2. CASE Direct(p) # o
    <3> DEFINE q == Direct(p)
    <3>1. q \in Slots \ {o} /\ CallPermit(q) /\ q' = q
      BY <1>0, <2>2 DEF KeysInv
    <3> HIDE DEF q
    <3>2. CallPermit(q)'
      BY <1>0, <1>1, <3>1, OthersKeepPermits DEF KeysInv
    <3> QED BY <3>1, <3>2 DEF q
  <2> QED BY <2>1, <2>2
<1>3. ASSUME NEW p \in Runs, cand'[p] \in HoldsKey, KeyOf[want'[p]] # NoKey
      PROVE  holder'[KeyOf[want'[p]]] = CandidateOf(p)
  <2>1. KeyOf[want[p]] \in Keys
    BY <1>3, SigAssumption DEF SlotInv
  <2> QED BY <1>0, <1>1, <1>3, <2>1 DEF KeysInv
<1> QED BY <1>0, <1>2, <1>3 DEF KeysInv

\* Everything else leaves the call of the turn outside its tool, and permits
\* to candidates alone.
LEMMA RestKeepsKeys ==
  ASSUME BrokerTypeOK, SlotInv, KeysInv, NEW r \in Runs, NEW o, o = Direct(r),
         \A p \in Runs \ {r} : phase'[Direct(p)] = phase[Direct(p)] /\ call'[Direct(p)] = call[Direct(p)],
         \/ phase'[o] = phase[o] /\ call'[o] = call[o]
         \/ phase[o] \notin AtTool /\ phase'[o] \notin AtTool \cup {"waiting"},
         \A p \in Runs, k \in Keys : holder'[k] = Direct(p) <=> holder[k] = Direct(p),
         \A p \in Runs : cand'[p] \in HoldsKey /\ KeyOf[want'[p]] # NoKey =>
           holder'[KeyOf[want'[p]]] = CandidateOf(p)
  PROVE  KeysInv'
<1>0. \A p \in Runs : /\ Direct(p) \in Slots /\ Direct(p)' = Direct(p)
                      /\ CandidateOf(p)' = CandidateOf(p)
  <2>1. \A p \in Runs : Direct(p) \in Slots
    BY CandidateSlots
  <2>2. \A p \in Runs : Direct(p)' = Direct(p) /\ CandidateOf(p)' = CandidateOf(p)
    BY Zenon DEF Direct, CandidateOf
  <2> QED BY <2>1, <2>2
<1>1. ASSUME NEW p \in Runs PROVE CallPermit(Direct(p))'
  <2> DEFINE q == Direct(p)
  <2>1. q' = q /\ CallPermit(q) /\ \A k \in Keys : holder'[k] = q <=> holder[k] = q
    BY <1>0 DEF KeysInv
  <2>2. q \in Slots /\ KeyOf[call[q]] \in Keys \cup {NoKey}
    BY <1>0, SigAssumption DEF BrokerTypeOK
  <2>3. \/ phase'[q] = phase[q] /\ call'[q] = call[q]
        \/ phase[q] \notin AtTool /\ phase'[q] \notin AtTool \cup {"waiting"}
    OBVIOUS
  <2> HIDE DEF q
  <2> QED BY <2>1, <2>2, <2>3 DEF CallPermit, q
<1> QED BY <1>0, <1>1 DEF KeysInv

\* The candidates keep their keys when nobody's permits change hands.
LEMMA CandidatesKeepKeys ==
  ASSUME SlotInv, KeysInv, NEW r \in Runs, UNCHANGED holder,
         \A p \in Runs \ {r} : cand'[p] = cand[p] /\ want'[p] = want[p],
         cand'[r] \in HoldsKey => cand[r] \in HoldsKey /\ want'[r] = want[r]
  PROVE  \A p \in Runs : cand'[p] \in HoldsKey /\ KeyOf[want'[p]] # NoKey =>
           holder'[KeyOf[want'[p]]] = CandidateOf(p)
BY DEF KeysInv

\* What a step of a run does to permits and candidates: the call of its turn
\* moves, the candidate drops or takes its permit, or none changes hands.
LEMMA PermitMoves ==
  ASSUME SlotInv, NEW r \in Runs, RunMoves(r)
  PROVE  /\ \A p \in Runs \ {r} : cand'[p] = cand[p] /\ want'[p] = want[p]
         /\ \/ CallMove(r) /\ UNCHANGED <<cand, want>>
            \/ NotIssued(r) \/ Release(r) \/ DedicatedAllows(r)
            \/ /\ UNCHANGED holder
               /\ cand'[r] \in HoldsKey => cand[r] \in HoldsKey /\ want'[r] = want[r]
<1>0. cand \in [Runs -> Candidate] /\ want \in [Runs -> Sigs]
  BY DEF SlotInv
<1> USE <1>0 DEF HoldsKey
<1>1. CASE CandidateStarts(r) \/ CandidateStops(r) \/ PreIssueFails(r) \/ OrdinaryAllows(r)
  BY <1>1 DEF CandidateStarts, CandidateStops, PreIssueFails, OrdinaryAllows, NotIssued, OutOfTurn,
     Move
<1>2. CASE Release(r)
  BY <1>2 DEF Release, OutOfTurn, Move
<1>3. CASE DedicatedAllows(r)
  BY <1>3 DEF DedicatedAllows, NotIssued, OutOfTurn, Move
<1>4. CASE Issue(r) \/ CandidateSucceeds(r) \/ CandidateFails(r) \/ CandidateGraceEnds(r)
  BY <1>4 DEF Issue, CandidateSucceeds, CandidateFails, CandidateGraceEnds, Settle, OutOfTurn, Move
<1>5. ASSUME NEW s \in Asks[r], Capture(r, s)
      PROVE  /\ \A p \in Runs \ {r} : cand'[p] = cand[p] /\ want'[p] = want[p]
             /\ UNCHANGED holder /\ cand'[r] \notin HoldsKey
  BY <1>5 DEF Capture, OutOfBroker, Move
<1>6. ASSUME NEW res, GiveUp(r, res)
      PROVE  /\ \A p \in Runs \ {r} : cand'[p] = cand[p]
             /\ cand'[r] \in HoldsKey => cand[r] \in HoldsKey
  BY <1>6 DEF GiveUp, Settle
<1>7. CASE CandidateLate(r) \/ StreamStopped(r) \/ ResponseReady(r) \/ AnswerUnused(r)
           \/ CommitStopped(r) \/ CommitNotPossible(r) \/ CommitLate(r) \/ CommitAsks(r)
           \/ DecisionFails(r)
  <2>1. UNCHANGED <<holder, want>>
    BY <1>7 DEF CandidateLate, StreamStopped, ResponseReady, AnswerUnused, CommitStopped,
       CommitNotPossible, CommitLate, CommitAsks, DecisionFails, OutOfBroker
  <2>2. UNCHANGED cand \/ cand' = [cand EXCEPT ![r] = "none"] \/ \E res : GiveUp(r, res)
    BY <1>7 DEF CandidateLate, StreamStopped, ResponseReady, AnswerUnused, CommitStopped,
       CommitNotPossible, CommitLate, CommitAsks, DecisionFails, Move
  <2> QED BY <1>6, <2>1, <2>2
<1>8. CASE CommitResolved(r) \/ CommitErrs(r) \/ DecisionStopped(r)
  <2>1. UNCHANGED <<holder, want>> /\ \E res : GiveUp(r, res)
    BY <1>8 DEF CommitResolved, CommitErrs, DecisionStopped, RecordPreDispatchError
  <2> QED BY <1>6, <2>1
<1>9. CASE StreamFails(r) \/ Commit(r)
  <2>1. cand[r] = "ready" \/ cand'[r] \in {cand[r], "none"}
    BY <1>9 DEF StreamFails, Commit, Move, SlotInv
  <2> QED BY <1>9, <2>1 DEF StreamFails, Commit, Move, OutOfBroker
<1>10. CASE Drained(r) \/ StreamCompletes(r) \/ CommitPrepares(r) \/ TakeCall(r) \/ CallEnds(r)
            \/ CandidateDue(r) \/ CallDue(r) \/ StopStep(r)
  BY <1>10 DEF Drained, StreamCompletes, CommitPrepares, TakeCall, CallEnds, CandidateDue, CallDue,
     StopStep, Cancel, Expire, OutOfBroker, brokerVars, RecordPreDispatchError, RecordExecution,
     RecordExecutionError, Prepare, PrepareStopped, PrepareOverBudget, PrepareUnusable,
     PrepareReused, PrepareUncertain, PrepareRepeated, PrepareAdmitted, Admitting, Preparing
<1>11. CASE (SlotStep(Direct(r)) \/ Answer(Direct(r))) /\ UNCHANGED turnVars
            /\ (phase[Direct(r)] = "ready" => pc[r] = "direct")
  BY <1>11 DEF CallMove, turnVars
<1>12. ASSUME Answer(Direct(r)) PROVE phase[Direct(r)] # "ready"
  BY <1>12 DEF Answer, PolicyAllows, PolicyAsksApproval, ApprovalGranted, Denied, AuthorizerFails,
     ToolSucceeds, ToolFails, ToolErrors, PrepPhases
<1> QED
  BY <1>1, <1>2, <1>3, <1>4, <1>5, <1>7, <1>8, <1>9, <1>10, <1>11, <1>12
     DEF RunMoves, RunStep, AnswerStep

\* Where the call of a turn is when anything but its own moves happens.
LEMMA CallRests ==
  ASSUME BrokerTypeOK, SlotInv, TurnInv, NEW r \in Runs, TurnMove(r), ~CallMove(r)
  PROVE  /\ \A p \in Runs \ {r} : /\ phase'[Direct(p)] = phase[Direct(p)]
                                  /\ call'[Direct(p)] = call[Direct(p)]
         /\ \/ phase'[Direct(r)] = phase[Direct(r)] /\ call'[Direct(r)] = call[Direct(r)]
            \/ phase[Direct(r)] \notin AtTool /\ phase'[Direct(r)] \notin AtTool \cup {"waiting"}
<1> DEFINE o == Direct(r)
<1>0. /\ o \in Slots /\ want[r] \in Sigs
      /\ \A p \in Runs \ {r} : Direct(p) \in Slots \ {o}
  BY CandidateSlots DEF Direct, SlotInv
<1>1. CASE QuietMove(r)
  BY <1>1 DEF QuietMove, slotVars
<1>2. CASE TakeMove(r)
  <2>1. PrepareMove(o, want[r])
    BY <1>0, <1>2, PrepareMoves DEF TakeMove
  <2>2. phase[o] = "idle" /\ phase'[o] \in {"policy", "prepErr", "limit", "rejected", "reused"}
    BY <2>1 DEF PrepareMove, AdmittedCall, PrepareRefused, PrepareUnknown, PrepareResolved
  <2>3. \A q \in Slots \ {o} : phase'[q] = phase[q] /\ call'[q] = call[q]
    BY <2>1 DEF PrepareMove
  <2> HIDE DEF o
  <2>4. \A p \in Runs \ {r} : phase'[Direct(p)] = phase[Direct(p)] /\ call'[Direct(p)] = call[Direct(p)]
    BY <1>0, <2>3
  <2> QED BY <2>2, <2>4 DEF AtTool, o
<1>3. CASE EndMove(r) \/ DropMove(r) \/ ReplaceMove(r)
  <2>1. FreeSlot(o)
    BY <1>3 DEF EndMove, DropMove, ReplaceMove
  <2>2. phase[o] \notin AtTool
    BY <1>3 DEF EndMove, DropMove, ReplaceMove, RecordMove, RecordPreDispatchError,
       RecordExecution, RecordExecutionError, TurnInv, TurnAgrees, AtTool
  <2>3. phase'[o] = "idle" /\ \A q \in Slots \ {o} : phase'[q] = phase[q] /\ call'[q] = call[q]
    BY <1>0, <2>1 DEF FreeSlot, BrokerTypeOK
  <2> HIDE DEF o
  <2> QED BY <1>0, <2>2, <2>3 DEF AtTool, o
<1> QED BY <1>1, <1>2, <1>3 DEF TurnMove

LEMMA StepKeepsKeys ==
  ASSUME BrokerTypeOK, SlotInv, TurnInv, KeysInv, [Next]_vars
  PROVE  KeysInv'
<1>1. CASE UNCHANGED vars \/ HostStep
  <2>1. UNCHANGED <<phase, call, holder, cand, want>>
    BY <1>1 DEF vars, HostStep, Activate, ReturnToShadow, brokerVars, turnVars
  <2>2. ASSUME NEW r \in Runs PROVE CallPermit(Direct(r))'
    <3>1. CallPermit(Direct(r)) /\ Direct(r)' = Direct(r)
      BY DEF KeysInv, Direct
    <3> QED BY <2>1, <3>1 DEF CallPermit
  <2> QED BY <2>1, <2>2 DEF KeysInv, CandidateOf
<1>2. ASSUME NEW r \in Runs, RunMoves(r) PROVE KeysInv'
  <2>0. \A p \in Runs : CandidateOf(p) # NoSlot /\ (p # r => CandidateOf(p) # CandidateOf(r))
    BY CandidateSlots
  <2>1. TurnMove(r)
    BY <1>2, RunMovesTurn
  <2>2. \A p \in Runs \ {r} : cand'[p] = cand[p] /\ want'[p] = want[p]
    BY <1>2, PermitMoves
  <2>3. ASSUME CallMove(r),
               cand'[r] \in HoldsKey => cand[r] \in HoldsKey /\ want'[r] = want[r]
        PROVE  KeysInv'
    <3>1. SlotMove(Direct(r))
      BY <2>3, SlotMoves, CandidateSlots DEF CallMove
    <3>2. \A p \in Runs : cand'[p] \in HoldsKey => cand[p] \in HoldsKey /\ want'[p] = want[p]
      BY <2>2, <2>3
    <3> QED BY <3>1, <3>2, CallKeepsKeys
  <2>4. ASSUME ~CallMove(r),
               \A p \in Runs, k \in Keys : holder'[k] = Direct(p) <=> holder[k] = Direct(p),
               \A p \in Runs : cand'[p] \in HoldsKey /\ KeyOf[want'[p]] # NoKey =>
                 holder'[KeyOf[want'[p]]] = CandidateOf(p)
        PROVE  KeysInv'
    BY <2>1, <2>4, CallRests, RestKeepsKeys
  <2>5. ASSUME ReleasePermit(CandidateOf(r)), cand'[r] = "none", ~CallMove(r) PROVE KeysInv'
    <3>1. \A p \in Runs, k \in Keys : holder'[k] = Direct(p) <=> holder[k] = Direct(p)
      BY <2>5, CandidateSlots, SlotAssumption DEF ReleasePermit
    <3>2. ASSUME NEW p \in Runs, cand'[p] \in HoldsKey, KeyOf[want'[p]] # NoKey
          PROVE  holder'[KeyOf[want'[p]]] = CandidateOf(p)
      <4>1. p # r
        BY <2>5, <3>2 DEF HoldsKey
      <4>2. holder[KeyOf[want[p]]] = CandidateOf(p) /\ KeyOf[want[p]] \in Keys
        BY <2>2, <3>2, <4>1, SigAssumption DEF KeysInv, SlotInv
      <4> QED BY <2>0, <2>2, <2>5, <4>1, <4>2 DEF ReleasePermit
    <3> QED BY <2>4, <2>5, <3>1, <3>2
  <2>6. ASSUME NotIssued(r) \/ Release(r) PROVE KeysInv'
    <3>1. cand'[r] = "none" /\ ReleasePermit(CandidateOf(r))
      BY <2>6 DEF NotIssued, Release, Move, SlotInv
    <3>2. UNCHANGED slotVars
      BY <2>6 DEF NotIssued, Release, OutOfTurn
    <3>3. ~CallMove(r)
      BY <3>2, CandidateSlots, MovesChangePhase DEF CallMove, slotVars
    <3> QED BY <2>5, <3>1, <3>3
  <2>7. CASE DedicatedAllows(r) /\ ~NotIssued(r)
    <3> DEFINE k == KeyOf[want[r]]
    <3>1. /\ KeyFree(want[r]) /\ cand[r] = "dedicated" /\ UNCHANGED <<slotVars, want>>
          /\ holder' = [j \in Keys |-> IF j = k THEN CandidateOf(r) ELSE holder[j]]
      BY <2>7 DEF DedicatedAllows, OutOfTurn
    <3>2. \A j \in Keys : j = k => holder[j] = NoSlot
      BY <3>1, SigAssumption DEF KeyFree
    <3>3. ~CallMove(r)
      BY <3>1, CandidateSlots, MovesChangePhase DEF CallMove, slotVars
    <3>4. \A p \in Runs, j \in Keys : holder'[j] = Direct(p) <=> holder[j] = Direct(p)
      BY <3>1, <3>2, CandidateSlots, SlotAssumption
    <3>5. ASSUME NEW p \in Runs, cand'[p] \in HoldsKey, KeyOf[want'[p]] # NoKey
          PROVE  holder'[KeyOf[want'[p]]] = CandidateOf(p)
      <4>1. KeyOf[want'[p]] \in Keys /\ want'[p] = want[p]
        BY <3>1, <3>5, SigAssumption DEF SlotInv
      <4>2. CASE p = r
        BY <3>1, <4>1, <4>2
      <4>3. CASE p # r
        <5>1. holder[KeyOf[want[p]]] = CandidateOf(p)
          BY <2>2, <3>5, <4>3 DEF KeysInv
        <5> QED BY <2>0, <3>1, <3>2, <4>1, <5>1
      <4> QED BY <4>2, <4>3
    <3> QED BY <2>4, <3>3, <3>4, <3>5
  <2>8. CASE /\ UNCHANGED holder
             /\ cand'[r] \in HoldsKey => cand[r] \in HoldsKey /\ want'[r] = want[r]
    <3>1. \A p \in Runs : cand'[p] \in HoldsKey /\ KeyOf[want'[p]] # NoKey =>
            holder'[KeyOf[want'[p]]] = CandidateOf(p)
      BY <2>2, <2>8, CandidatesKeepKeys
    <3> QED BY <2>3, <2>4, <2>8, <3>1
  <2> QED BY <1>2, <2>3, <2>6, <2>7, <2>8, PermitMoves
<1> QED BY <1>1, <1>2 DEF Next, RunMoves

-----------------------------------------------------------------------------
(* The meters.                                                             *)

\* A tool's lease is open while one candidate that asks for it was issued.
Lease(t) == \E r \in Runs : want[r] = t /\ cand[r] \in Leased

MeterAgrees(t) ==
  /\ \A c \in Meters : meter[t][c] \in Nat
  /\ meter[t]["issued"] = meter[t]["inFlight"] + meter[t]["committed"]
                          + meter[t]["discarded"] + meter[t]["cancelled"]
  /\ meter[t]["inFlight"] = IF Lease(t) THEN 1 ELSE 0

MetersInv == \A t \in Eligible : MeterAgrees(t)

\* There is one slot, so one lease.
LEMMA OneLease ==
  ASSUME SlotInv, NEW r \in Runs, NEW p \in Runs, cand[r] \in HoldsSlot, cand[p] \in HoldsSlot
  PROVE  r = p
BY CandidateSlots DEF SlotInv

LEMMA LeasedHolds == Leased \subseteq HoldsSlot
BY DEF Leased, HoldsSlot, Attempting

\* How a step changes the meters and the leases together.
KeepsLease(r) == want'[r] = want[r] /\ (cand'[r] \in Leased <=> cand[r] \in Leased)
NoLease(r) == cand[r] \notin Leased /\ cand'[r] \notin Leased

MeterMove(r) ==
  /\ \A p \in Runs \ {r} : cand'[p] = cand[p] /\ want'[p] = want[p]
  /\ \/ /\ KeepsLease(r) \/ NoLease(r)
        /\ UNCHANGED meter \/ Count(want[r], {"failures"}, {})
     \/ /\ cand[r] = "issuing" /\ cand'[r] = "running" /\ want'[r] = want[r]
        /\ Count(want[r], {"issued", "inFlight"}, {})
     \/ /\ cand[r] \in Leased /\ cand'[r] = "spent" /\ want'[r] = want[r]
        /\ \E c \in {"committed", "discarded", "cancelled"} :
             \/ Count(want[r], {c}, {"inFlight"})
             \/ Count(want[r], {"failures", c}, {"inFlight"})

\* What counting does to one tool's counters.
LEMMA CountIs ==
  ASSUME ControllerOK, NEW t \in Eligible, NEW up, NEW down, Count(t, up, down),
         up \cap down = {}
  PROVE  \A c \in Meters : meter'[t][c] = IF c \in up THEN meter[t][c] + 1
                                          ELSE IF c \in down THEN meter[t][c] - 1
                                          ELSE meter[t][c]
<1> DEFINE new == [c \in Meters |->
              CASE c \in up -> meter[t][c] + 1 [] c \in down -> meter[t][c] - 1 [] OTHER -> meter[t][c]]
<1>1. meter'[t] = new
  BY DEF Count, ControllerOK
<1>2. \A c \in Meters : meter[t][c] \in Int
  BY DEF ControllerOK
<1>3. \A c \in Meters : /\ c \in up => new[c] = meter[t][c] + 1
                        /\ c \in down => new[c] = meter[t][c] - 1
                        /\ c \notin up /\ c \notin down => new[c] = meter[t][c]
  BY <1>2
<1> HIDE DEF new
<1> QED BY <1>1, <1>3

LEMMA MeterStep ==
  ASSUME ControllerOK, SlotInv, MetersInv, NEW r \in Runs, MeterMove(r)
  PROVE  MetersInv'
<1> SUFFICES ASSUME NEW t \in Eligible PROVE MeterAgrees(t)'
  BY DEF MetersInv
<1> USE DEF MeterMove
<1>0. MeterAgrees(t) /\ {"issued", "inFlight", "committed", "discarded", "cancelled"} \subseteq Meters
  BY DEF MetersInv, Meters
<1>1. CASE t # want[r] \/ (UNCHANGED meter /\ (KeepsLease(r) \/ NoLease(r)))
  <2>1. meter'[t] = meter[t]
    BY <1>1, CountChanges
  <2>2. Lease(t)' <=> Lease(t)
    BY <1>1 DEF Lease, KeepsLease, NoLease
  <2> QED BY <1>0, <2>1, <2>2 DEF MeterAgrees
<1>2. CASE t = want[r] /\ (KeepsLease(r) \/ NoLease(r)) /\ Count(t, {"failures"}, {})
  <2>1. /\ \A c \in Meters \ {"failures"} : meter'[t][c] = meter[t][c]
        /\ meter'[t]["failures"] \in Nat
    BY <1>0, <1>2, CountIs DEF MeterAgrees, Meters
  <2>2. Lease(t)' <=> Lease(t)
    BY <1>2 DEF Lease, KeepsLease, NoLease
  <2> QED BY <1>0, <2>1, <2>2 DEF MeterAgrees, Meters
<1>3. CASE /\ t = want[r] /\ cand[r] = "issuing" /\ cand'[r] = "running" /\ want'[r] = want[r]
           /\ Count(t, {"issued", "inFlight"}, {})
  <2>1. \A p \in Runs : cand[p] \notin Leased
    BY <1>3, OneLease, LeasedHolds DEF HoldsSlot, Attempting, Leased
  <2>2. Lease(t)' /\ ~Lease(t)
    BY <1>3, <2>1 DEF Lease, Leased
  <2>3. /\ meter'[t]["issued"] = meter[t]["issued"] + 1
        /\ meter'[t]["inFlight"] = meter[t]["inFlight"] + 1
        /\ \A c \in Meters \ {"issued", "inFlight"} : meter'[t][c] = meter[t][c]
    BY <1>0, <1>3, CountIs DEF Meters
  <2> QED BY <1>0, <2>2, <2>3 DEF MeterAgrees, Meters
<1>4. ASSUME t = want[r], cand[r] \in Leased, cand'[r] = "spent", want'[r] = want[r],
             NEW c \in {"committed", "discarded", "cancelled"},
             \/ Count(t, {c}, {"inFlight"})
             \/ Count(t, {"failures", c}, {"inFlight"})
      PROVE  MeterAgrees(t)'
  <2>1. Lease(t)
    BY <1>4 DEF Lease
  <2>2. \A p \in Runs : cand'[p] \notin Leased
    BY <1>4, OneLease, LeasedHolds DEF Leased
  <2>3. ~Lease(t)'
    BY <2>2 DEF Lease
  <2>4. /\ meter'[t][c] = meter[t][c] + 1
        /\ meter'[t]["inFlight"] = meter[t]["inFlight"] - 1
        /\ \A d \in Meters \ {c, "inFlight", "failures"} : meter'[t][d] = meter[t][d]
        /\ meter'[t]["failures"] \in {meter[t]["failures"], meter[t]["failures"] + 1}
    BY <1>0, <1>4, CountIs DEF Meters
  <2>5. meter[t]["inFlight"] = 1
    BY <1>0, <2>1 DEF MeterAgrees
  <2>6. CASE c = "committed"
    BY <1>0, <2>3, <2>4, <2>5, <2>6 DEF MeterAgrees, Meters
  <2>7. CASE c = "discarded"
    BY <1>0, <2>3, <2>4, <2>5, <2>7 DEF MeterAgrees, Meters
  <2>8. CASE c = "cancelled"
    BY <1>0, <2>3, <2>4, <2>5, <2>8 DEF MeterAgrees, Meters
  <2> QED BY <2>6, <2>7, <2>8
<1> QED BY <1>1, <1>2, <1>3, <1>4

LEMMA RunMovesMeter ==
  ASSUME SlotInv, NEW r \in Runs, RunMoves(r)
  PROVE  MeterMove(r)
<1>0. cand \in [Runs -> Candidate] /\ want \in [Runs -> Sigs]
  BY DEF SlotInv
<1> USE <1>0 DEF Leased, KeepsLease, NoLease
<1>1. CASE CandidateStarts(r) \/ CandidateStops(r) \/ PreIssueFails(r) \/ OrdinaryAllows(r)
           \/ Release(r) \/ DedicatedAllows(r)
  <2>1. UNCHANGED <<meter, want>>
    BY <1>1 DEF CandidateStarts, CandidateStops, PreIssueFails, OrdinaryAllows, Release,
       DedicatedAllows, NotIssued, OutOfTurn, controllerVars
  <2>2. \/ cand[r] \in {"new", "ordinary", "dedicated", "spent"}
           /\ \E c \in {"none", "ordinary", "dedicated", "issuing"} : cand' = [cand EXCEPT ![r] = c]
        \/ cand[r] = "running" /\ cand' = [cand EXCEPT ![r] = "grace"]
    BY <1>1 DEF CandidateStarts, CandidateStops, PreIssueFails, OrdinaryAllows, Release,
       DedicatedAllows, NotIssued, Move
  <2> QED BY <2>1, <2>2 DEF MeterMove
<1>2. CASE Issue(r) \/ CandidateSucceeds(r)
  BY <1>2 DEF Issue, CandidateSucceeds, OutOfTurn, Move, MeterMove, controllerVars
<1>3. ASSUME NEW c \in {"discarded", "cancelled"}, Settle(r, c), cand[r] \in Leased, UNCHANGED want
      PROVE  MeterMove(r)
  BY <1>3 DEF Settle, MeterMove
<1>4. CASE CandidateFails(r) \/ CandidateGraceEnds(r)
  <2>1. cand[r] \in Leased /\ UNCHANGED want /\ \E c \in {"discarded", "cancelled"} : Settle(r, c)
    BY <1>4 DEF CandidateFails, CandidateGraceEnds, OutOfTurn
  <2> QED BY <1>3, <2>1
<1>5. ASSUME NEW c \in {"discarded", "cancelled"}, GiveUp(r, c), cand[r] \notin Attempting,
             UNCHANGED want
      PROVE  MeterMove(r)
  <2>1. CASE cand[r] = "ready"
    BY <1>3, <1>5, <2>1 DEF GiveUp
  <2>2. CASE cand[r] # "ready"
    BY <1>5, <2>2 DEF GiveUp, MeterMove, Attempting, controllerVars
  <2> QED BY <2>1, <2>2
<1>6. ASSUME UNCHANGED <<cand, want, meter>> PROVE MeterMove(r)
  BY <1>6 DEF MeterMove
<1>7. ASSUME NEW s \in Asks[r], Capture(r, s) PROVE MeterMove(r)
  BY <1>7 DEF Capture, MeterMove, Move, controllerVars
<1>8. CASE CandidateLate(r) \/ AnswerUnused(r) \/ CommitStopped(r) \/ CommitNotPossible(r)
           \/ CommitLate(r) \/ CommitResolved(r) \/ CommitErrs(r) \/ DecisionStopped(r)
           \/ DecisionFails(r)
  <2>1. UNCHANGED want /\ \E c \in {"discarded", "cancelled"} : GiveUp(r, c)
    BY <1>8 DEF CandidateLate, AnswerUnused, CommitStopped, CommitNotPossible, CommitLate,
       CommitResolved, CommitErrs, DecisionStopped, DecisionFails
  <2>2. cand[r] = "ready" \/ pc[r] \in {"answered", "commit", "deciding"}
    BY <1>8 DEF CandidateLate, AnswerUnused, CommitStopped, CommitNotPossible, CommitLate,
       CommitResolved, CommitErrs, DecisionStopped, DecisionFails
  <2>3. cand[r] \notin Attempting
    BY <2>2 DEF SlotInv, Early, Attempting
  <2> QED BY <1>5, <2>1, <2>3
<1>9. CASE StreamStopped(r)
  BY <1>5, <1>6, <1>9 DEF StreamStopped, controllerVars
<1>10. CASE CommitAsks(r)
  <2>1. cand[r] \notin Attempting
    BY <1>10 DEF CommitAsks, SlotInv, Early
  <2> QED BY <1>5, <1>6, <1>10, <2>1 DEF CommitAsks, controllerVars
<1>11. CASE ResponseReady(r)
  <2>1. CASE cand[r] = "shadow"
    BY <1>11, <2>1 DEF ResponseReady, MeterMove, Move
  <2>2. CASE cand[r] # "shadow"
    BY <1>5, <1>6, <1>11, <2>2 DEF ResponseReady, controllerVars, Attempting
  <2> QED BY <2>1, <2>2
<1>12. CASE StreamFails(r)
  <2>1. CASE cand[r] = "ready"
    BY <1>12, <2>1 DEF StreamFails, MeterMove, Move, Attempting
  <2>2. CASE cand[r] = "shadow"
    BY <1>12, <2>2 DEF StreamFails, MeterMove, Move, Attempting
  <2>3. CASE UNCHANGED <<cand, want, controllerVars>>
    BY <1>6, <2>3 DEF controllerVars
  <2> QED BY <1>12, <2>1, <2>2, <2>3 DEF StreamFails
<1>13. CASE Drained(r)
  BY <1>13 DEF Drained, MeterMove, controllerVars
<1>14. CASE Commit(r)
  BY <1>14 DEF Commit, MeterMove, Move, SlotInv
<1>15. CASE StreamCompletes(r) \/ CommitPrepares(r) \/ TakeCall(r) \/ CallEnds(r)
            \/ CandidateDue(r) \/ CallDue(r)
            \/ StopStep(r) \/ UNCHANGED <<controllerVars, slot, turnVars>>
  BY <1>6, <1>15 DEF StreamCompletes, CommitPrepares, TakeCall, CallEnds, CandidateDue, CallDue,
     StopStep, controllerVars, turnVars
<1> QED
  BY <1>1, <1>2, <1>4, <1>7, <1>8, <1>9, <1>10, <1>11, <1>12, <1>13, <1>14, <1>15
     DEF RunMoves, RunStep, AnswerStep

LEMMA StepKeepsMeters ==
  ASSUME ControllerOK, SlotInv, MetersInv, [Next]_vars
  PROVE  MetersInv'
<1>1. CASE UNCHANGED vars \/ HostStep
  <2>1. UNCHANGED <<meter, cand, want>>
    BY <1>1 DEF vars, controllerVars, HostStep, Activate, ReturnToShadow, turnVars
  <2> QED BY <2>1 DEF MetersInv, MeterAgrees, Lease
<1>2. ASSUME NEW r \in Runs, RunMoves(r) PROVE MetersInv'
  BY <1>2, RunMovesMeter, MeterStep
<1> QED BY <1>1, <1>2 DEF Next, RunMoves

-----------------------------------------------------------------------------
(* The invariant of the whole, and what it says.                           *)

IInv == BrokerTypeOK /\ ControllerInv /\ SlotInv /\ TurnInv /\ KeysInv /\ MetersInv

LEMMA InitIInv == Init => IInv
<1> SUFFICES ASSUME Init PROVE IInv
  OBVIOUS
<1>1. /\ usage = [r \in Runs |-> [c \in Counters |-> 0]]
      /\ phase = [o \in Slots |-> "idle"] /\ call = [o \in Slots |-> AnySig]
      /\ starts = [r \in Runs |-> [s \in Sigs |-> 0]]
      /\ holder = [k \in Keys |-> NoSlot]
      /\ pc = [r \in Runs |-> "stream"] /\ cand = [r \in Runs |-> "open"] /\ committed = {}
      /\ meter = [t \in Eligible |-> [c \in Meters |-> 0]]
  BY DEF Init, BrokerInit
<1>2. BrokerTypeOK
  BY AnySigInSigs DEF Init, BrokerInit, BrokerTypeOK, Counters, Effect, Status, Phase, Errors
<1>3. TurnInv
  <2> SUFFICES ASSUME NEW r \in Runs PROVE TurnAgrees(r)
    BY DEF TurnInv
  <2>1. phase[Direct(r)] = "idle" /\ RunOf[Direct(r)] = r
    BY <1>1, CandidateSlots, SpeculationAssumption DEF Direct
  <2>2. Balanced(usage[r])
    BY <1>1 DEF Balanced, Classified, Settled, Counters
  <2>3. CallLedger(Direct(r))
    BY <2>1, <2>2, CandidateSlots, BalancedIsIdle
  <2> QED BY <1>1, <2>1, <2>3 DEF TurnAgrees, Early
<1>4. KeysInv
  <2>1. ASSUME NEW r \in Runs PROVE CallPermit(Direct(r))
    BY <1>1, CandidateSlots, SlotAssumption DEF CallPermit, AtTool
  <2> QED BY <1>1, <2>1 DEF KeysInv, HoldsKey
<1>5. MetersInv
  BY <1>1 DEF MetersInv, MeterAgrees, Lease, Leased, Meters
<1> QED BY <1>2, <1>3, <1>4, <1>5, InitController, InitSlots DEF IInv

(* Every step keeps the call, the candidate, the permits and the meters in *)
(* agreement; the theorems below are read off this invariant.              *)
THEOREM Invariance == Safe => []IInv
<1>1. Init => IInv
  BY InitIInv
<1>2. IInv /\ [Next]_vars => IInv'
  <2>1. IInv /\ [Next]_vars => ControllerInv'
    BY WantType, StepIsControllerStep, ControllerKeepsEarned DEF IInv, ControllerInv, EarnedInv
  <2>2. IInv /\ [Next]_vars => SlotInv' /\ BrokerTypeOK' /\ TurnInv' /\ KeysInv'
    BY StepKeepsSlots, BrokerTypes, StepKeepsTurns, StepKeepsKeys DEF IInv
  <2>3. IInv /\ [Next]_vars => MetersInv'
    BY StepKeepsMeters DEF IInv, ControllerInv, EarnedInv
  <2> QED BY <2>1, <2>2, <2>3 DEF IInv
<1> QED BY <1>1, <1>2, PTL DEF Safe

\* What the invariant leaves open of the types.
RestTypes ==
  /\ slot \in Slots \cup {NoSlot}
  /\ due \in [Runs -> {"none", "candidate", "call"}]
  /\ committed \subseteq Runs

LEMMA StepKeepsRest ==
  ASSUME IInv, RestTypes, [Next]_vars
  PROVE  RestTypes'
<1>1. CASE UNCHANGED vars \/ HostStep
  BY <1>1 DEF RestTypes, vars, HostStep, Activate, ReturnToShadow, turnVars
<1>2. ASSUME NEW r \in Runs, RunMoves(r) PROVE RestTypes'
  <2>1. committed' \subseteq Runs
    BY <1>2, RunMovesTurn
       DEF IInv, RestTypes, TurnMove, QuietMove, TakeMove, CallMove, EndMove, DropMove, ReplaceMove
  <2>2. due' \in [Runs -> {"none", "candidate", "call"}]
    <3>1. due' = due \/ \E d \in {"candidate", "call"} : due' = [due EXCEPT ![r] = d]
      BY <1>2 DEF RunMoves, RunStep, AnswerStep, CandidateDue, CallDue, StopStep, CandidateStarts,
         OrdinaryAllows, PreIssueFails, DedicatedAllows, Issue, CandidateSucceeds, CandidateFails,
         CandidateStops, CandidateGraceEnds, Release, NotIssued, OutOfTurn, CandidateLate,
         CommitLate, Capture, StreamFails, StreamStopped, Drained, StreamCompletes, ResponseReady,
         AnswerUnused, CommitStopped, CommitNotPossible, CommitPrepares, CommitResolved,
         CommitErrs, CommitAsks, DecisionStopped, DecisionFails, Commit, TakeCall, CallEnds,
         turnVars
    <3> QED BY <3>1 DEF RestTypes
  <2>3. slot' \in Slots \cup {NoSlot}
    <3>1. slot' \in {slot, NoSlot, CandidateOf(r)}
      BY <1>2 DEF RunMoves, RunStep, AnswerStep, CandidateDue, CallDue, StopStep, CandidateStarts,
         OrdinaryAllows, PreIssueFails, DedicatedAllows, Issue, CandidateSucceeds, CandidateFails,
         CandidateStops, CandidateGraceEnds, Release, NotIssued, OutOfTurn, CandidateLate,
         CommitLate, Capture, StreamFails, StreamStopped, Drained, StreamCompletes, ResponseReady,
         AnswerUnused, CommitStopped, CommitNotPossible, CommitPrepares, CommitResolved,
         CommitErrs, CommitAsks, DecisionStopped, DecisionFails, Commit, TakeCall, CallEnds
    <3> QED BY <3>1, CandidateSlots DEF RestTypes
  <2> QED BY <2>1, <2>2, <2>3 DEF RestTypes
<1> QED BY <1>1, <1>2 DEF Next, RunMoves

(* The types: among them, that no meter is ever counted below zero.        *)
THEOREM TypeCorrect == Safe => []TypeOK
<1>1. Init => RestTypes
  BY DEF Init, RestTypes
<1>2. IInv /\ RestTypes /\ [Next]_vars => RestTypes'
  BY StepKeepsRest
<1>3. IInv /\ RestTypes => TypeOK
  <2> SUFFICES ASSUME IInv, RestTypes PROVE TypeOK
    OBVIOUS
  <2>1. meter \in [Eligible -> [Meters -> Nat]]
    BY DEF IInv, ControllerInv, EarnedInv, ControllerOK, MetersInv, MeterAgrees
  <2> QED BY <2>1 DEF IInv, RestTypes, TypeOK, ControllerInv, EarnedInv, ControllerOK, SlotInv
<1> QED BY <1>1, <1>2, <1>3, Invariance, PTL DEF Safe

(* Nothing executes beside a running candidate under its concurrency key,  *)
(* neither another run's call or candidate nor the call it stands in for,  *)
(* for any number of runs and keys.                                        *)
THEOREM KeysExclude == Safe => []KeyExclusion
<1>1. IInv => KeyExclusion
  <2> SUFFICES ASSUME IInv PROVE KeyExclusion
    OBVIOUS
  <2> USE DEF IInv
  <2>1. ASSUME NEW r \in Runs, NEW s \in Sigs, Executing(r, s), KeyOf[s] # NoKey
        PROVE  holder[KeyOf[s]] \in {Direct(r), CandidateOf(r)}
    BY <2>1 DEF Executing, KeysInv, CallPermit, AtTool, HoldsKey
  <2>2. \A r, p \in Runs : r # p => {Direct(r), CandidateOf(r)} \cap {Direct(p), CandidateOf(p)} = {}
    BY DEF Direct, CandidateOf
  <2>3. ASSUME NEW r \in Runs, phase[Direct(r)] \in {"running", "grace"},
               cand[r] \in {"running", "grace"}
        PROVE  FALSE
    <3>1. pc[r] \in Early
      BY <2>3 DEF SlotInv, Attempting
    <3> QED BY <2>3, <3>1 DEF TurnInv, TurnAgrees
  <2>4. ASSUME NEW r \in Runs, NEW p \in Runs, NEW s \in Sigs, NEW u \in Sigs,
               r # p, Executing(r, s), Executing(p, u), KeyOf[s] # NoKey
        PROVE  KeyOf[s] # KeyOf[u]
    BY <2>1, <2>2, <2>4
  <2> QED BY <2>3, <2>4 DEF KeyExclusion
<1> QED BY <1>1, Invariance, PTL

(* The authoritative call is answered by at most one execution, its own or *)
(* the committed one, however stream, candidate, policies and stops fall.  *)
THEOREM CallsAreAnsweredOnce == Safe => []AnsweredOnce
<1>1. IInv => AnsweredOnce
  <2> SUFFICES ASSUME IInv, NEW r \in Runs
               PROVE  /\ starts[r][want[r]] + (IF r \in committed THEN 1 ELSE 0) <= 1
                      /\ pc[r] = "done" /\ Live(r) => Balanced(usage[r])
    BY DEF AnsweredOnce, Balanced
  <2>1. TurnAgrees(r) /\ want[r] \in Sigs
    BY DEF IInv, TurnInv, SlotInv
  <2>2. ASSUME pc[r] = "done", Live(r) PROVE Balanced(usage[r])
    <3>1. CallLedger(Direct(r)) /\ phase[Direct(r)] = "idle"
      BY <2>1, <2>2 DEF TurnAgrees
    <3> QED BY <3>1, CandidateSlots, ResolvedIsBalanced, SpeculationAssumption DEF Direct
  <2> QED BY <2>1, <2>2 DEF TurnAgrees
<1> QED BY <1>1, Invariance, PTL

(* issued = in_flight + committed + discarded + cancelled, and in_flight   *)
(* is the one open lease: every way a candidate ends settles it once.      *)
THEOREM MetersAlwaysBalance == Safe => []MetersBalance
<1>1. IInv => MetersBalance
  <2> SUFFICES ASSUME IInv, NEW t \in Eligible
               PROVE  /\ meter[t]["issued"] = meter[t]["inFlight"] + meter[t]["committed"]
                                              + meter[t]["discarded"] + meter[t]["cancelled"]
                      /\ meter[t]["inFlight"] =
                           IF \E r \in Runs : slot = CandidateOf(r) /\ want[r] = t /\ cand[r] \in Leased
                             THEN 1 ELSE 0
                      /\ \A r \in Runs : want[r] = t /\ cand[r] \in Leased => slot = CandidateOf(r)
    BY DEF MetersBalance
  <2>1. MeterAgrees(t) /\ \A r \in Runs : cand[r] \in Leased => slot = CandidateOf(r)
    BY LeasedHolds DEF IInv, MetersInv, SlotInv
  <2>2. Lease(t) <=> \E r \in Runs : slot = CandidateOf(r) /\ want[r] = t /\ cand[r] \in Leased
    BY <2>1 DEF Lease
  <2> QED BY <2>1, <2>2 DEF MeterAgrees
<1> QED BY <1>1, Invariance, PTL

(* The controller's ledger and the runs' ledgers balance together, for any *)
(* number of runs and tools.                                               *)
THEOREM LedgersAlwaysBalance == Safe => []LedgersBalance
BY CallsAreAnsweredOnce, MetersAlwaysBalance, PTL DEF LedgersBalance
=============================================================================
