--------------------------- MODULE McpCatalogProofs ---------------------------
(***************************************************************************)
(* Theorems about McpCatalog, for every set of refreshes and calls and     *)
(* every value of the limits: the manager implements CatalogPromise, and   *)
(* accounts for every context it connected.                                *)
(***************************************************************************)
EXTENDS McpCatalog, FiniteSetTheorems, TLAPS

-----------------------------------------------------------------------------
(* The inductive invariant *)

InFlight(c) == cpc[c] \in {"transport", "leaving"}

\* Contexts that are on their way out, or were.
Out == retired \cup Draining \cup snapshot \cup closeBegun

\* The domains the proofs use, and the order in which a refresh becomes a
\* connected, then a published context.
Domains ==
  /\ rpc \in {"idle", "connecting", "listing", "gate", "retire", "taken", "closing"}
  /\ epochOf \in [Refreshes -> Nat] /\ epoch \in Nat
  /\ generation \in [Refreshes -> Nat] /\ nextGeneration \in Nat \ {0}
  /\ asked \subseteq Refreshes /\ opened \subseteq asked
  /\ published \subseteq opened /\ pending \subseteq opened /\ Out \subseteq opened
  /\ worker \in [Refreshes -> {"none", "draining", "closing"}]
  /\ cpc \in [Calls -> {"idle", "queued", "gate", "admit", "transport", "leaving", "done"}]
  /\ adapter \in [Calls -> Refreshes \cup {None}]
  /\ kpc \in {"idle", "schedule", "draining", "closing", "final"}
  /\ IsFiniteSet(opened)

\* What the refresh in refresh_lock holds at each of its steps.
RefresherInv ==
  /\ tokens = {refresher} \ {None}
  /\ refresher = None <=> rpc = "idle"
  /\ refresher # None => refresher \in asked
  /\ rpc = "connecting" => refresher \notin opened
  /\ rpc \in {"listing", "gate", "taken", "closing", "retire"} => refresher \in opened
  /\ rpc \in {"listing", "gate", "taken", "closing"} => refresher \notin published
  /\ rpc = "taken" => refresher \notin pending \cup Out
  /\ rpc = "gate" /\ ~closed => retiring = active
  /\ rpc = "retire" => /\ retiring \in published \cup {None}
                       /\ retiring # None => retiring \notin Out \cup {active}

\* A context has one owner: in force, pending, or on its way out.
OwnersInv ==
  /\ active \in published \cup {None}
  /\ active \notin Out
  /\ pending \cap (published \cup Out) = {}
  /\ retired \cap Draining = {}

\* A generation names one published catalog.
GenerationInv ==
  \A f \in published :
    /\ generation[f] \in 1 .. (nextGeneration - 1)
    /\ \A g \in published : generation[f] = generation[g] => f = g

CurrentInv ==
  /\ \A f \in Refreshes : epochOf[f] <= epoch
  /\ ~invalidated /\ active # None => active \in Current

\* Until the manager is closed, calls in flight run on the catalog in force.
CallInv ==
  \A c \in Calls :
    /\ cpc[c] \in {"queued", "gate", "admit", "transport", "leaving"} => adapter[c] \in published
    /\ InFlight(c) /\ ~closed => adapter[c] = active

CloseInv ==
  /\ closed => active = None
  /\ kpc # "idle" => closed
  /\ kpc = "idle" => snapshot = {}
  /\ kpc \in {"draining", "closing"} => \E x \in Refreshes : snapshot = {x}

IInv ==
  Domains /\ RefresherInv /\ OwnersInv /\ GenerationInv /\ CurrentInv /\ CallInv /\ CloseInv

-----------------------------------------------------------------------------
(* The invariant is inductive: one lemma per kind of step *)

LEMMA InitKeeps == Init => IInv
<1> SUFFICES ASSUME Init PROVE IInv
  OBVIOUS
<1> USE CatalogAssumption DEF Init
<1>1. IsFiniteSet({})
  BY FS_EmptySet
<1>2. Draining = {} /\ Out = {}
  BY DEF Draining, Out
<1>3. Domains
  BY <1>1, <1>2 DEF Domains
<1>4. RefresherInv /\ OwnersInv /\ GenerationInv /\ CloseInv
  BY <1>2 DEF RefresherInv, OwnersInv, GenerationInv, CloseInv
<1>5. CurrentInv /\ CallInv
  BY DEF CurrentInv, CallInv, InFlight
<1> QED BY <1>3, <1>4, <1>5 DEF IInv

\* begin_refresh: the refresh is new, and nothing is connected yet.
LEMMA BeginKeeps ==
  ASSUME IInv, NEW f \in Refreshes, BeginRefresh(f)
  PROVE  IInv'
<1> USE CatalogAssumption DEF IInv, BeginRefresh, flagVars, ownerVars, callVars, closeVars, historyVars
<1>1. Draining' = Draining /\ Out' = Out
  BY DEF Draining, Out
<1>2. Domains'
  BY <1>1 DEF Domains
<1>3. RefresherInv'
  BY <1>1 DEF Domains, RefresherInv
<1>4. OwnersInv' /\ GenerationInv' /\ CallInv' /\ CloseInv'
  BY <1>1 DEF OwnersInv, GenerationInv, CallInv, CloseInv, InFlight
<1>5. CurrentInv'
  BY DEF Domains, CurrentInv, Current
<1> QED BY <1>2, <1>3, <1>4, <1>5

\* A new connection enters the pending contexts; it was nobody's before.
LEMMA ConnectedKeeps ==
  ASSUME IInv, Connected
  PROVE  IInv'
<1> USE CatalogAssumption DEF IInv, Connected, flagVars, callVars, closeVars
<1>1. Draining' = Draining /\ Out' = Out
  BY DEF Draining, Out
<1>2. IsFiniteSet(opened')
  BY FS_AddElement DEF Domains
<1>3. refresher \in asked /\ refresher \in tokens /\ refresher \notin opened
  BY DEF RefresherInv
<1>4. Domains'
  BY <1>1, <1>2, <1>3 DEF Domains
<1>5. RefresherInv' /\ OwnersInv'
  BY <1>1, <1>3 DEF Domains, RefresherInv, OwnersInv
<1>6. GenerationInv' /\ CurrentInv' /\ CallInv' /\ CloseInv'
  BY DEF GenerationInv, CurrentInv, Current, CallInv, CloseInv, InFlight
<1> QED BY <1>4, <1>5, <1>6

\* Only a catalog that was never published is given a generation.
LEMMA BuildKeeps ==
  ASSUME IInv, BuildCandidate
  PROVE  IInv'
<1> USE CatalogAssumption
    DEF IInv, BuildCandidate, flagVars, ownerVars, callVars, closeVars, historyVars
<1>1. Draining' = Draining /\ Out' = Out
  BY DEF Draining, Out
<1>2. Domains' /\ RefresherInv' /\ OwnersInv'
  BY <1>1 DEF Domains, RefresherInv, OwnersInv
<1>3. GenerationInv'
  BY DEF GenerationInv, RefresherInv, Domains
<1>4. CurrentInv' /\ CallInv' /\ CloseInv'
  BY DEF CurrentInv, Current, CallInv, CloseInv, InFlight
<1> QED BY <1>2, <1>3, <1>4

\* The swap: the write side of the gate has seen no reader, so no call is in
\* flight at all, and the new catalog is newer than the last notice.
LEMMA InstallKeeps ==
  ASSUME IInv, Install
  PROVE  IInv'
<1> USE CatalogAssumption DEF IInv, Install, callVars, closeVars
<1>1. Draining' = Draining /\ Out' = Out
  BY DEF Draining, Out
<1>2. /\ rpc = "gate" /\ ~closed /\ retiring = active /\ refresher \in pending
      /\ refresher \notin published
  BY DEF RetirementPermit, Installable, RefresherInv
<1>3. \A c \in Calls : ~InFlight(c)
  <2> SUFFICES ASSUME NEW c \in Calls, InFlight(c) PROVE FALSE
    OBVIOUS
  <2>1. adapter[c] \in published /\ adapter[c] = active
    BY <1>2 DEF CallInv, InFlight
  <2>2. c \in Readers(retiring) /\ retiring # None
    BY <1>2, <2>1 DEF Readers, InFlight, Domains
  <2> QED BY <2>2 DEF RetirementPermit
<1>4. Domains'
  BY <1>1, <1>2 DEF Domains
<1>5. RefresherInv'
  BY <1>1, <1>2 DEF Domains, RefresherInv, OwnersInv
<1>6. OwnersInv'
  BY <1>1, <1>2 DEF Domains, OwnersInv
<1>7. GenerationInv'
  BY <1>2 DEF Domains, GenerationInv, Installable
<1>8. CurrentInv'
  BY DEF CurrentInv, Current, Installable, RefresherInv
<1>9. CallInv'
  BY <1>3 DEF CallInv, InFlight
<1>10. CloseInv'
  BY <1>2 DEF CloseInv
<1> QED BY <1>4, <1>5, <1>6, <1>7, <1>8, <1>9, <1>10

\* The replaced context is nobody else's when it goes to its worker.
LEMMA RetireKeeps ==
  ASSUME IInv, RetirePrevious
  PROVE  IInv'
<1> USE CatalogAssumption
    DEF IInv, RetirePrevious, EndRefresh, flagVars, callVars, closeVars, historyVars
<1>1. \/ retired' = retired /\ Draining' = Draining
      \/ /\ retiring \in published /\ retiring # active /\ retiring \notin Out
         /\ retired' = retired /\ Draining' = Draining \cup {retiring}
  BY SMTT(30) DEF Schedule, Draining, RefresherInv, Domains, Out
<1>2. Domains'
  BY <1>1 DEF Domains, Out, Schedule
<1>3. RefresherInv' /\ OwnersInv'
  BY <1>1 DEF RefresherInv, OwnersInv, Out
<1>4. GenerationInv' /\ CurrentInv' /\ CallInv' /\ CloseInv'
  BY DEF GenerationInv, CurrentInv, Current, CallInv, CloseInv, InFlight
<1> QED BY <1>2, <1>3, <1>4

\* A refresh that ends, gives its context up, or cleans it up.
LEMMA RefreshEndKeeps ==
  ASSUME IInv,
         \/ ConnectFails \/ RefreshFails \/ InstallRejected \/ RetainTaken
         \/ CleanupReturns \/ AbandonRefresh
  PROVE  IInv'
<1> USE CatalogAssumption
    DEF IInv, ConnectFails, RefreshFails, InstallRejected, RetainTaken, CleanupReturns,
        AbandonRefresh, EndRefresh, GiveUp, flagVars, ownerVars, callVars, closeVars,
        historyVars
<1>1. Draining' = Draining /\ pending' \subseteq pending
  BY DEF Draining
<1>2. Out' \subseteq Out \/ (rpc = "taken" /\ Out' = Out \cup {refresher})
  BY <1>1 DEF Out
<1>3. Domains'
  BY <1>1, <1>2 DEF Domains, RefresherInv
<1>4. RefresherInv'
  BY <1>1, <1>2 DEF RefresherInv, OwnersInv, RetirementPermit
<1>5. OwnersInv'
  BY <1>1, <1>2 DEF RefresherInv, OwnersInv, Out
<1>6. GenerationInv' /\ CurrentInv' /\ CallInv' /\ CloseInv'
  BY DEF GenerationInv, CurrentInv, Current, CallInv, CloseInv, InFlight
<1> QED BY <1>3, <1>4, <1>5, <1>6

\* A list-change notice leaves no context current.
LEMMA NoticeKeeps ==
  ASSUME IInv, ListChanged \/ ReplaceRegistered
  PROVE  IInv'
<1> USE CatalogAssumption
    DEF IInv, ListChanged, ReplaceRegistered, refreshVars, ownerVars, callVars, closeVars, historyVars
<1>1. Draining' = Draining /\ Out' = Out
  BY DEF Draining, Out
<1>2. Domains' /\ RefresherInv' /\ OwnersInv'
  BY <1>1 DEF Domains, RefresherInv, OwnersInv
<1>3. GenerationInv' /\ CallInv' /\ CloseInv'
  BY DEF GenerationInv, CallInv, CloseInv, InFlight
<1>4. CurrentInv'
  BY DEF CurrentInv, Current, Domains
<1> QED BY <1>2, <1>3, <1>4

\* A call is admitted only on the catalog in force: generations are distinct.
LEMMA AdmittedOnActive ==
  ASSUME IInv, NEW c \in Calls, Admit(c)
  PROVE  ~closed /\ ~invalidated /\ active # None /\ adapter[c] = active
BY DEF IInv, Admit, Active, CallInv, OwnersInv, GenerationInv

LEMMA CallKeeps ==
  ASSUME IInv, NEW c \in Calls,
         CallStep(c) \/ AbandonCall(c) \/ \E f \in Refreshes : StartCall(c, f)
  PROVE  IInv'
<1> USE CatalogAssumption
    DEF IInv, CallStep, TakeServer, TakeGate, Admit, RejectCall, CallReturns, CallLeaves,
        AbandonCall, StartCall, CallGoto, EndCall
<1>1. OutOfCalls
  OBVIOUS
<1> USE <1>1 DEF OutOfCalls, refreshVars, flagVars, ownerVars, closeVars, historyVars
<1>2. Draining' = Draining /\ Out' = Out
  BY DEF Draining, Out
<1>3. Domains'
  BY <1>2 DEF Domains
<1>4. RefresherInv' /\ OwnersInv'
  BY <1>2 DEF RefresherInv, OwnersInv
<1>5. GenerationInv' /\ CurrentInv' /\ CloseInv'
  BY DEF GenerationInv, CurrentInv, Current, CloseInv
<1>6. CallInv'
  BY AdmittedOnActive DEF CallInv, InFlight, Domains
<1> QED BY <1>3, <1>4, <1>5, <1>6

\* The first close takes the contexts over and leaves no catalog in force.
LEMMA BeginCloseKeeps ==
  ASSUME IInv, BeginClose
  PROVE  IInv'
<1> USE CatalogAssumption
    DEF IInv, BeginClose, refreshVars, callVars, historyVars
<1>1. /\ retired' \subseteq retired \cup pending \cup ({active} \ {None})
      /\ retired \subseteq retired' /\ Draining' = Draining /\ snapshot' = retired' /\ snapshot = {}
      /\ active' = None /\ closed' = TRUE /\ pending' \subseteq pending
      /\ (closed /\ retired' = retired) \/ pending' = {}
  BY DEF Draining, CloseInv
<1>2. retired' \subseteq opened /\ None \notin opened
  BY <1>1 DEF Domains, OwnersInv, Out
<1>3. IsFiniteSet(retired')
  BY <1>2, FS_Subset DEF Domains
<1>4. kpc' \in {"schedule", "draining", "final"} /\ (kpc' = "draining" => Cardinality(retired') = 1)
  BY Zenon
<1>5. kpc' = "draining" => \E x : retired' = {x}
  BY <1>3, <1>4, FS_Singleton
<1>6. Out' \subseteq Out \cup retired' /\ retired' \cap Out \subseteq retired
  BY <1>1 DEF OwnersInv, Out
<1>7. Domains'
  BY <1>1, <1>2, <1>4, <1>6 DEF Domains
<1>8. RefresherInv'
  BY <1>1, <1>6 DEF RefresherInv, OwnersInv, Out
<1>9. OwnersInv'
  <2>1. None \notin Out'
    BY <1>2, <1>6 DEF Domains
  <2>2. pending' \cap (published' \cup Out') = {}
    <3>1. CASE pending' = {}
      BY <3>1
    <3>2. CASE retired' = retired
      <4>1. Out' \subseteq Out
        BY <1>6, <3>2 DEF Out
      <4> QED BY <1>1, <4>1 DEF OwnersInv
    <3> QED BY <1>1, <3>1, <3>2
  <2>3. retired' \cap Draining' = {}
    BY <1>1, <1>6 DEF OwnersInv, Out
  <2> QED BY <1>1, <2>1, <2>2, <2>3 DEF OwnersInv
<1>10. GenerationInv' /\ CurrentInv' /\ CallInv'
  BY <1>1 DEF GenerationInv, CurrentInv, Current, CallInv, InFlight
<1>11. CloseInv'
  BY <1>1, <1>2, <1>4, <1>5 DEF CloseInv, Domains
<1> QED BY <1>7, <1>8, <1>9, <1>10, <1>11

\* The other steps of close and of the workers move contexts that are
\* already on their way out.
LEMMA CloseKeeps ==
  ASSUME IInv,
         CloseStep \/ AbandonClose \/ \E x \in Refreshes : WorkerStep(x)
  PROVE  IInv'
<1> USE CatalogAssumption
    DEF IInv, CloseStep, ScheduleOne, DrainTimesOut, StartTransportClose, TransportClosed,
        FinishClose, AbandonClose, WorkerStep, WorkerCloses, WorkerReturns, Schedule, EndClose
<1>1. OutOfClose
  BY DEF OutOfWorkers, OutOfClose
<1> USE <1>1 DEF OutOfClose, OutOfWorkers, refreshVars, flagVars, callVars, closeVars
<1>2. Out' \subseteq Out /\ retired' \cap Draining' = {}
  BY DEF Out, Draining, Domains, OwnersInv
<1>3. Domains'
  BY <1>2 DEF Domains
<1>4. RefresherInv' /\ OwnersInv'
  BY <1>2 DEF RefresherInv, OwnersInv
<1>5. GenerationInv' /\ CurrentInv' /\ CallInv'
  BY DEF GenerationInv, CurrentInv, Current, CallInv, InFlight
<1>6. CloseInv'
  BY DEF CloseInv
<1> QED BY <1>3, <1>4, <1>5, <1>6

LEMMA StutterKeeps == ASSUME IInv, UNCHANGED vars PROVE IInv'
<1> USE DEF IInv, vars, refreshVars, flagVars, ownerVars, callVars, closeVars, historyVars
<1>1. Draining' = Draining /\ Out' = Out
  BY DEF Draining, Out
<1>2. Domains' /\ RefresherInv' /\ OwnersInv'
  BY <1>1 DEF Domains, RefresherInv, OwnersInv
<1>3. GenerationInv' /\ CurrentInv' /\ CallInv' /\ CloseInv'
  BY DEF GenerationInv, CurrentInv, Current, CallInv, CloseInv, InFlight
<1> QED BY <1>2, <1>3

LEMMA StepKeeps == IInv /\ [Next]_vars => IInv'
<1> SUFFICES ASSUME IInv, [Next]_vars PROVE IInv'
  OBVIOUS
<1>1. CASE \E f \in Refreshes : BeginRefresh(f) \/ WorkerStep(f)
  BY <1>1, BeginKeeps, CloseKeeps
<1>2. CASE RefreshStep \/ AbandonRefresh
  BY <1>2, ConnectedKeeps, BuildKeeps, InstallKeeps, RetireKeeps, RefreshEndKeeps DEF RefreshStep
<1>3. CASE \E c \in Calls : CallStep(c) \/ AbandonCall(c) \/ \E f \in Refreshes : StartCall(c, f)
  BY <1>3, CallKeeps
<1>4. CASE BeginClose \/ CloseStep \/ AbandonClose
  BY <1>4, BeginCloseKeeps, CloseKeeps
<1>5. CASE ListChanged \/ ReplaceRegistered
  BY <1>5, NoticeKeeps
<1>6. CASE UNCHANGED vars
  BY <1>6, StutterKeeps
<1> QED BY <1>1, <1>2, <1>3, <1>4, <1>5, <1>6 DEF Next

\* The order of connections, the owners of contexts, the generations and the
\* lists of the calls in flight stay as described above at every step.
THEOREM Invariance == Spec => []IInv
BY InitKeeps, StepKeeps, PTL DEF Spec

-----------------------------------------------------------------------------
(* The manager implements CatalogPromise *)

LEMMA InitMaps == Init => Promise!Init
BY DEF Init, Promise!Init, Current, Using

\* The notices and the begun refreshes are the only steps that change which
\* contexts are current, the calls the only ones that change what they use.
LEMMA CurrentStays ==
  ASSUME UNCHANGED <<asked, epochOf, epoch, exhausted>>
  PROVE  Current' = Current
BY DEF Current

LEMMA UsingStays ==
  ASSUME UNCHANGED callVars
  PROVE  Using' = Using
BY DEF Using, callVars

\* A begun refresh counts as current: it lists after every notice so far.
LEMMA BeginMaps ==
  ASSUME IInv, NEW f \in Refreshes, BeginRefresh(f)
  PROVE  Promise!Begin(f)
<1>1. Current' = Current \cup {f}
  BY DEF BeginRefresh, MayRefresh, Current, flagVars, IInv, Domains
<1>2. Using' = Using
  BY UsingStays DEF BeginRefresh
<1> QED
  BY <1>1, <1>2 DEF BeginRefresh, MayRefresh, Promise!Begin, flagVars, historyVars

\* The swap finds the new list current, its context open and every call gone.
LEMMA InstallMaps ==
  ASSUME IInv, Install
  PROVE  Promise!Install(refresher)
<1>1. /\ rpc = "gate" /\ ~closed /\ retiring = active /\ refresher \in pending
      /\ refresher \in asked /\ refresher \notin closeBegun
  BY CatalogAssumption
     DEF Install, RetirementPermit, Installable, IInv, RefresherInv, OwnersInv, Out
<1>2. refresher \in Current
  BY <1>1 DEF Install, Installable, Current
<1>3. \A c \in Calls : ~InFlight(c)
  <2> SUFFICES ASSUME NEW c \in Calls, InFlight(c) PROVE FALSE
    OBVIOUS
  <2>1. adapter[c] \in published /\ adapter[c] = active
    BY <1>1 DEF IInv, CallInv, InFlight
  <2>2. c \in Readers(retiring) /\ retiring # None
    BY <1>1, <2>1, CatalogAssumption DEF Readers, InFlight, IInv, Domains
  <2> QED BY <2>2 DEF Install, RetirementPermit
<1>4. \A c \in Calls : Using[c] = None
  BY <1>3 DEF Using, InFlight
<1>5. Current' = Current /\ Using' = Using
  BY CurrentStays, UsingStays DEF Install
<1> QED
  BY <1>1, <1>2, <1>4, <1>5 DEF Install, Installable, Promise!Install

LEMMA NoticeMaps ==
  ASSUME IInv, ListChanged
  PROVE  Promise!Notice
<1>1. Using' = Using
  BY UsingStays DEF ListChanged
<1>2. Current' = {}
  BY DEF ListChanged, Current, refreshVars, IInv, Domains, CurrentInv
<1> QED
  BY <1>1, <1>2 DEF ListChanged, Promise!Notice, historyVars

LEMMA BindMaps ==
  ASSUME ReplaceRegistered
  PROVE  Promise!Bind
<1>1. Current' = Current /\ Using' = Using
  BY CurrentStays, UsingStays DEF ReplaceRegistered, refreshVars
<1> QED
  BY <1>1 DEF ReplaceRegistered, Promise!Bind, historyVars

\* check_active lets a call through on the catalog in force, and on no list
\* that a notice has overtaken.
LEMMA AdmitMaps ==
  ASSUME IInv, NEW c \in Calls, Admit(c)
  PROVE  Promise!Admit(c)
<1>1. adapter[c] = active /\ active \in Current
  BY AdmittedOnActive DEF IInv, CurrentInv
<1>2. Current' = Current
  BY CurrentStays DEF Admit, OutOfCalls, refreshVars, flagVars
<1>3. Using[c] = None /\ Using' = [Using EXCEPT ![c] = active]
  BY <1>1 DEF Admit, CallGoto, Using, IInv, Domains
<1> QED
  BY <1>1, <1>2, <1>3 DEF Admit, OutOfCalls, flagVars, historyVars, Promise!Admit

\* Every other step of a call leaves its catalog or changes nothing of it.
LEMMA CallMaps ==
  ASSUME IInv, NEW c \in Calls,
         CallStep(c) \/ AbandonCall(c) \/ \E f \in Refreshes : StartCall(c, f)
  PROVE  [Promise!Next]_Promise!vars
<1>1. CASE Admit(c)
  BY <1>1, AdmitMaps DEF Promise!Next
<1>2. CASE ~Admit(c)
  <2>1. OutOfCalls
    BY <1>2 DEF CallStep, TakeServer, TakeGate, RejectCall, CallReturns, CallLeaves,
       AbandonCall, StartCall
  <2>2. Current' = Current
    BY <2>1, CurrentStays DEF OutOfCalls, refreshVars, flagVars
  <2>3. Using' = Using \/ Using' = [Using EXCEPT ![c] = None]
    <3>1. \A d \in Calls : d # c => cpc'[d] = cpc[d] /\ adapter'[d] = adapter[d]
      BY <1>2 DEF CallStep, TakeServer, TakeGate, RejectCall, CallReturns, CallLeaves,
         AbandonCall, StartCall, CallGoto, EndCall, IInv, Domains
    <3>2. \/ cpc'[c] \notin {"transport", "leaving"}
          \/ InFlight(c) /\ cpc'[c] = "leaving" /\ adapter' = adapter
      BY <1>2 DEF CallStep, TakeServer, TakeGate, RejectCall, CallReturns, CallLeaves,
         AbandonCall, StartCall, CallGoto, EndCall, InFlight, IInv, Domains
    <3>3. CASE cpc'[c] \notin {"transport", "leaving"}
      BY <3>1, <3>3 DEF Using
    <3>4. CASE InFlight(c) /\ cpc'[c] = "leaving" /\ adapter' = adapter
      BY <3>1, <3>4 DEF Using, InFlight
    <3> QED BY <3>2, <3>3, <3>4
  <2>4. Promise!Leave(c) \/ UNCHANGED Promise!vars
    BY <2>1, <2>2, <2>3 DEF OutOfCalls, flagVars, historyVars, Promise!Leave, Promise!vars
  <2> QED BY <2>4 DEF Promise!Next
<1> QED BY <1>1, <1>2

LEMMA BeginCloseMaps ==
  ASSUME IInv, BeginClose
  PROVE  [Promise!Next]_Promise!vars
<1>1. Current' = Current /\ Using' = Using /\ UNCHANGED <<bound, closeBegun>>
  BY CurrentStays, UsingStays DEF BeginClose, refreshVars, historyVars
<1>2. closed' = TRUE /\ active' = None
  BY DEF BeginClose, IInv, CloseInv
<1>3. Promise!Withdraw
  BY <1>1, <1>2 DEF Promise!Withdraw
<1> QED BY <1>3 DEF Promise!Next

\* The three places that start the transport's close have drained the context.
LEMMA ShutdownMaps ==
  ASSUME IInv, NEW x \in Refreshes,
         x # active, Leases(x) = {}, closeBegun' = closeBegun \cup {x},
         UNCHANGED <<asked, epochOf, flagVars, active, callVars>>
  PROVE  Promise!BeginClose(x)
<1>1. Current' = Current /\ Using' = Using
  BY CurrentStays, UsingStays DEF flagVars
<1>2. \A c \in Calls : Using[c] # x
  BY CatalogAssumption DEF Leases, Using
<1> QED BY <1>1, <1>2 DEF Promise!BeginClose, Promise!Idle, flagVars

\* The other steps of close and of the workers leave the promise's state alone.
LEMMA CloseMaps ==
  ASSUME IInv, CloseStep \/ AbandonClose \/ \E x \in Refreshes : WorkerStep(x)
  PROVE  [Promise!Next]_Promise!vars
<1>1. OutOfClose
  BY DEF CloseStep, ScheduleOne, DrainTimesOut, StartTransportClose, TransportClosed,
     FinishClose, AbandonClose, WorkerStep, WorkerCloses, WorkerReturns, OutOfWorkers, OutOfClose
<1>2. CASE StartTransportClose
  <2>1. PICK x \in Refreshes : snapshot = {x}
    BY <1>2 DEF StartTransportClose, IInv, CloseInv
  <2>2. x # active /\ Leases(x) = {}
    BY <1>2, <2>1 DEF StartTransportClose, Drained, IInv, OwnersInv, Out
  <2>3. Promise!BeginClose(x)
    BY <1>1, <1>2, <2>1, <2>2, ShutdownMaps DEF StartTransportClose, OutOfClose, refreshVars
  <2> QED BY <2>3 DEF Promise!Next
<1>3. CASE \E x \in Refreshes : WorkerCloses(x)
  <2>1. PICK x \in Refreshes : WorkerCloses(x)
    BY <1>3
  <2>2. x # active /\ Leases(x) = {}
    BY <2>1 DEF WorkerCloses, Drained, IInv, OwnersInv, Out, Draining
  <2>3. Promise!BeginClose(x)
    BY <1>1, <2>1, <2>2, ShutdownMaps DEF WorkerCloses, OutOfClose, refreshVars
  <2> QED BY <2>3 DEF Promise!Next
<1>4. CASE ~StartTransportClose /\ ~(\E x \in Refreshes : WorkerCloses(x))
  <2>1. closeBegun' = closeBegun
    BY <1>4 DEF CloseStep, ScheduleOne, DrainTimesOut, TransportClosed, FinishClose,
       AbandonClose, WorkerStep, WorkerReturns
  <2>2. Current' = Current /\ Using' = Using
    BY <1>1, CurrentStays, UsingStays DEF OutOfClose, refreshVars, flagVars
  <2> QED BY <1>1, <2>1, <2>2 DEF OutOfClose, flagVars, Promise!vars
<1> QED BY <1>2, <1>3, <1>4

\* A refresh closes the context it could not install; no call ever used it.
LEMMA RefreshMaps ==
  ASSUME IInv, RefreshStep \/ AbandonRefresh, ~Install
  PROVE  [Promise!Next]_Promise!vars
<1>1. UNCHANGED <<asked, epochOf, flagVars, active, callVars>>
  BY DEF RefreshStep, AbandonRefresh, ConnectFails, Connected, BuildCandidate, RefreshFails,
     InstallRejected, RetirePrevious, RetainTaken, CleanupReturns
<1>2. CASE RetainTaken
  <2>1. refresher \in Refreshes /\ refresher # active
    BY <1>2, CatalogAssumption DEF RetainTaken, IInv, RefresherInv, OwnersInv, Domains
  <2>2. Leases(refresher) = {}
    BY <1>2 DEF RetainTaken, Leases, IInv, RefresherInv, CallInv
  <2>3. Promise!BeginClose(refresher)
    BY <1>1, <1>2, <2>1, <2>2, ShutdownMaps DEF RetainTaken
  <2> QED BY <2>1, <2>3 DEF Promise!Next
<1>3. CASE ~RetainTaken
  <2>1. closeBegun' = closeBegun
    BY <1>3 DEF RefreshStep, AbandonRefresh, ConnectFails, Connected, BuildCandidate,
       RefreshFails, InstallRejected, RetirePrevious, CleanupReturns, historyVars
  <2>2. Current' = Current /\ Using' = Using
    BY <1>1, CurrentStays, UsingStays DEF flagVars
  <2> QED BY <1>1, <2>1, <2>2 DEF flagVars, Promise!vars
<1> QED BY <1>2, <1>3

LEMMA StepMaps == IInv /\ [Next]_vars => [Promise!Next]_Promise!vars
<1> SUFFICES ASSUME IInv, [Next]_vars PROVE [Promise!Next]_Promise!vars
  OBVIOUS
<1>1. CASE \E f \in Refreshes : BeginRefresh(f)
  BY <1>1, BeginMaps DEF Promise!Next
<1>2. CASE Install
  <2>1. refresher \in Refreshes
    BY <1>2 DEF Install, RetirementPermit, Installable, IInv, RefresherInv, Domains
  <2> QED BY <1>2, <2>1, InstallMaps DEF Promise!Next
<1>3. CASE (RefreshStep \/ AbandonRefresh) /\ ~Install
  BY <1>3, RefreshMaps
<1>4. CASE \E c \in Calls : CallStep(c) \/ AbandonCall(c) \/ \E f \in Refreshes : StartCall(c, f)
  BY <1>4, CallMaps
<1>5. CASE BeginClose
  BY <1>5, BeginCloseMaps
<1>6. CASE CloseStep \/ AbandonClose \/ \E x \in Refreshes : WorkerStep(x)
  BY <1>6, CloseMaps
<1>7. CASE ListChanged \/ ReplaceRegistered
  BY <1>7, NoticeMaps, BindMaps DEF Promise!Next
<1>8. CASE UNCHANGED vars
  BY <1>8 DEF vars, refreshVars, flagVars, callVars, historyVars, Promise!vars, Current, Using
<1> QED BY <1>1, <1>2, <1>3, <1>4, <1>5, <1>6, <1>7, <1>8 DEF Next

\* Every behaviour of the manager is one CatalogPromise allows.
THEOREM PromiseKept == Spec => KeepsPromise
<1>1. Spec => Promise!Init /\ [][Promise!Next]_Promise!vars
  BY InitMaps, StepMaps, Invariance, PTL DEF Spec
<1> QED BY <1>1 DEF KeepsPromise, Promise!Spec

-----------------------------------------------------------------------------
(* No context is lost, and an Ok leaves none open *)

\* NoContextLost with the two moments at which a context is in the hands of a
\* refresh told apart: after it was taken from the pending ones, and after
\* another catalog replaced its own.
KeptInv ==
  \A f \in opened \ shut :
    \/ f = active
    \/ f \in pending \cup retired \cup Draining
    \/ rpc = "taken" /\ f = refresher
    \/ rpc = "retire" /\ f = retiring

\* After an Ok the manager is closed and nothing can connect a context.
OkInv == answer = "Ok" => closed /\ rpc = "idle" /\ opened \subseteq shut

LEMMA RefreshKeepsContexts ==
  ASSUME IInv, KeptInv, RefreshStep \/ AbandonRefresh
  PROVE  KeptInv'
<1> USE DEF KeptInv, Draining, EndRefresh, GiveUp, Schedule, ownerVars, historyVars
<1>1. CASE ConnectFails \/ BuildCandidate \/ AbandonRefresh
  BY <1>1 DEF ConnectFails, BuildCandidate, AbandonRefresh
<1>2. CASE Connected
  BY <1>2, CatalogAssumption DEF Connected, IInv, RefresherInv, Domains
<1>3. CASE RefreshFails \/ InstallRejected
  BY <1>3 DEF RefreshFails, InstallRejected, RetirementPermit
<1>4. CASE Install
  BY <1>4 DEF Install, RetirementPermit
<1>5. CASE RetirePrevious
  BY <1>5, CatalogAssumption DEF RetirePrevious, IInv, RefresherInv, Domains
<1>6. CASE RetainTaken \/ CleanupReturns
  BY <1>6 DEF RetainTaken, CleanupReturns
<1> QED BY <1>1, <1>2, <1>3, <1>4, <1>5, <1>6 DEF RefreshStep

LEMMA CloseKeepsContexts ==
  ASSUME IInv, KeptInv,
         BeginClose \/ CloseStep \/ AbandonClose \/ \E x \in Refreshes : WorkerStep(x)
  PROVE  KeptInv'
<1> USE CatalogAssumption DEF KeptInv, Draining, IInv, Domains
<1>1. CASE BeginClose
  BY <1>1 DEF BeginClose, refreshVars, historyVars, OwnersInv, CloseInv
<1>2. CASE CloseStep \/ AbandonClose
  BY <1>2 DEF CloseStep, ScheduleOne, DrainTimesOut, StartTransportClose, TransportClosed,
     FinishClose, AbandonClose, EndClose, Schedule, OutOfClose, refreshVars, Out
<1>3. CASE \E x \in Refreshes : WorkerStep(x)
  BY <1>3 DEF WorkerStep, WorkerCloses, WorkerReturns, OutOfWorkers, refreshVars
<1> QED BY <1>1, <1>2, <1>3

LEMMA StepKeepsContexts == IInv /\ KeptInv /\ [Next]_vars => KeptInv'
<1> SUFFICES ASSUME IInv, KeptInv, [Next]_vars PROVE KeptInv'
  OBVIOUS
<1> USE DEF KeptInv, Draining, refreshVars, ownerVars, historyVars
<1>1. CASE \E f \in Refreshes : BeginRefresh(f)
  BY <1>1, CatalogAssumption DEF BeginRefresh, IInv, RefresherInv
<1>2. CASE RefreshStep \/ AbandonRefresh
  BY <1>2, RefreshKeepsContexts
<1>3. CASE \E c \in Calls : CallStep(c) \/ AbandonCall(c) \/ \E f \in Refreshes : StartCall(c, f)
  <2>1. OutOfCalls
    BY <1>3 DEF CallStep, TakeServer, TakeGate, Admit, RejectCall, CallReturns, CallLeaves,
       AbandonCall, StartCall
  <2> QED BY <2>1 DEF OutOfCalls
<1>4. CASE BeginClose \/ CloseStep \/ AbandonClose \/ \E x \in Refreshes : WorkerStep(x)
  BY <1>4, CloseKeepsContexts
<1>5. CASE ListChanged \/ ReplaceRegistered
  BY <1>5 DEF ListChanged, ReplaceRegistered
<1>6. CASE UNCHANGED vars
  BY <1>6 DEF vars
<1> QED BY <1>1, <1>2, <1>3, <1>4, <1>5, <1>6 DEF Next

\* FinishClose answers Ok when nothing is owned and no token is out; a closed
\* manager lets no refresh begin, so that stays so.
LEMMA StepKeepsOk == IInv /\ KeptInv /\ OkInv /\ [Next]_vars => OkInv'
<1> SUFFICES ASSUME IInv, KeptInv, OkInv, [Next]_vars PROVE OkInv'
  OBVIOUS
<1>1. CASE FinishClose
  <2>1. closed /\ active = None /\ None \notin opened
    BY <1>1, CatalogAssumption DEF FinishClose, IInv, CloseInv, Domains
  <2>2. UNCHANGED <<closed, rpc, opened, shut>>
    BY <1>1 DEF FinishClose, OutOfClose, flagVars, refreshVars
  <2>3. ASSUME answer' = "Ok" PROVE Owned = 0 /\ tokens = {}
    BY <1>1, <2>3 DEF FinishClose, EndClose, Unresolved
  <2>4. ASSUME answer' = "Ok" PROVE rpc = "idle"
    BY <2>3, <2>4 DEF IInv, RefresherInv
  <2>5. ASSUME answer' = "Ok" PROVE pending = {} /\ retired = {} /\ Draining = {}
    <3>1. IsFiniteSet(pending) /\ IsFiniteSet(retired) /\ IsFiniteSet(Draining)
      BY FS_Subset DEF IInv, Domains, Out
    <3>2. /\ Cardinality(pending) \in Nat /\ Cardinality(retired) \in Nat
          /\ Cardinality(Draining) \in Nat
      BY <3>1, FS_CardinalityType
    <3>3. Cardinality(pending) = 0 /\ Cardinality(retired) = 0 /\ Cardinality(Draining) = 0
      BY <2>3, <2>5, <3>2 DEF Owned
    <3> QED BY <3>1, <3>3, FS_EmptySet
  <2> QED BY <2>1, <2>2, <2>4, <2>5 DEF OkInv, KeptInv
<1>2. CASE ~FinishClose /\ answer' = "Ok"
  <2>1. answer = "Ok"
    BY <1>2 DEF Next, BeginRefresh, WorkerStep, WorkerCloses, WorkerReturns, RefreshStep,
       ConnectFails, Connected, BuildCandidate, RefreshFails, Install, InstallRejected,
       RetirePrevious, RetainTaken, CleanupReturns, AbandonRefresh, CallStep, TakeServer,
       TakeGate, Admit, RejectCall, CallReturns, CallLeaves, AbandonCall, StartCall,
       OutOfCalls, BeginClose, CloseStep, ScheduleOne, DrainTimesOut, StartTransportClose,
       TransportClosed, AbandonClose, EndClose, ListChanged, ReplaceRegistered,
       OutOfWorkers, closeVars, vars
  <2>2. closed /\ rpc = "idle" /\ opened \subseteq shut /\ refresher = None
    BY <2>1 DEF OkInv, IInv, RefresherInv
  <2>3. ~(\E f \in Refreshes : BeginRefresh(f)) /\ ~RefreshStep /\ ~AbandonRefresh
    BY <2>2 DEF BeginRefresh, MayRefresh, RefreshStep, ConnectFails, Connected, BuildCandidate,
       RefreshFails, Install, InstallRejected, RetirePrevious, RetainTaken, CleanupReturns,
       AbandonRefresh, RetirementPermit
  <2>4. rpc' = rpc /\ opened' = opened /\ shut \subseteq shut' /\ closed' \in {closed, TRUE}
    BY <2>3 DEF Next, WorkerStep, WorkerCloses, WorkerReturns, CallStep, TakeServer,
       TakeGate, Admit, RejectCall, CallReturns, CallLeaves, AbandonCall, StartCall,
       OutOfCalls, BeginClose, CloseStep, ScheduleOne, DrainTimesOut, StartTransportClose,
       TransportClosed, FinishClose, AbandonClose, OutOfClose, ListChanged, ReplaceRegistered,
       OutOfWorkers, refreshVars, flagVars, historyVars, vars
  <2> QED BY <2>2, <2>4 DEF OkInv
<1> QED BY <1>1, <1>2 DEF OkInv

THEOREM NothingLost == Spec => [](NoContextLost /\ OkMeansClosed)
<1>1. Init => KeptInv /\ OkInv
  BY DEF Init, KeptInv, OkInv
<1>2. IInv /\ KeptInv /\ OkInv => NoContextLost /\ OkMeansClosed
  BY CatalogAssumption
     DEF IInv, RefresherInv, KeptInv, OkInv, NoContextLost, OkMeansClosed
<1>3. Spec => [](KeptInv /\ OkInv)
  BY <1>1, StepKeepsContexts, StepKeepsOk, Invariance, PTL DEF Spec
<1> QED BY <1>2, <1>3, Invariance, PTL

-----------------------------------------------------------------------------
(* The contexts kept beside the active one are bounded *)

\* The contexts a close still has to hand to workers, or drain itself.
Upcoming == IF kpc \in {"schedule", "draining"} THEN snapshot ELSE {}
Held == retired \cup Upcoming

\* The context a refresh is about to hand to the manager.
Coming == IF rpc \in {"connecting", "taken"} \/ (rpc = "retire" /\ retiring # None) THEN 1 ELSE 0

Limit == MaxRetired + (IF closed THEN 1 ELSE 0)

\* Counting the retained contexts alone is not inductive: a close may hand a
\* context to a worker that a refresh's own cleanup has closed meanwhile, and a
\* refresh admitted under the limit adds its context only later.
BoundInv ==
  /\ Cardinality(pending) + Cardinality(Held) + Cardinality(Draining) + Coming <= Limit
  /\ Upcoming \cap Draining = {}

LEMMA OwnedFinite ==
  ASSUME IInv
  PROVE  \A S \in {pending, retired, Held, Draining} :
           S \subseteq opened /\ IsFiniteSet(S) /\ Cardinality(S) \in Nat
<1>1. \A S \in {pending, retired, Held, Draining} : S \subseteq opened
  BY DEF IInv, Domains, Out, Held, Upcoming
<1>2. IsFiniteSet(opened)
  BY DEF IInv, Domains
<1> QED BY <1>1, <1>2, FS_Subset, FS_CardinalityType

\* One element more or less, for finite sets.
LEMMA Counting ==
  ASSUME NEW S, IsFiniteSet(S)
  PROVE  /\ \A x : x \in S => Cardinality(S \ {x}) = Cardinality(S) - 1
         /\ \A x : IsFiniteSet(S \cup {x}) /\ Cardinality(S \cup {x}) <= Cardinality(S) + 1
         /\ \A T : T \subseteq S => IsFiniteSet(T) /\ Cardinality(T) <= Cardinality(S)
         /\ Cardinality(S) \in Nat
<1>1. Cardinality(S) \in Nat
  BY FS_CardinalityType
<1>2. \A x : x \in S => Cardinality(S \ {x}) = Cardinality(S) - 1
  BY FS_RemoveElement
<1>3. \A x : IsFiniteSet(S \cup {x}) /\ Cardinality(S \cup {x}) <= Cardinality(S) + 1
  BY <1>1, FS_AddElement
<1>4. \A T : T \subseteq S => IsFiniteSet(T) /\ Cardinality(T) <= Cardinality(S)
  BY FS_Subset
<1> QED BY <1>1, <1>2, <1>3, <1>4

LEMMA OwnedFiniteNext ==
  ASSUME IInv'
  PROVE  /\ Cardinality(pending') \in Int /\ Cardinality(Held') \in Int
         /\ Cardinality(Draining') \in Int
<1>1. pending' \subseteq opened' /\ Held' \subseteq opened' /\ Draining' \subseteq opened'
  BY DEF IInv, Domains, Out, Held, Upcoming
<1>2. IsFiniteSet(pending') /\ IsFiniteSet(Held') /\ IsFiniteSet(Draining')
  BY <1>1, FS_Subset DEF IInv, Domains
<1> QED BY <1>2, FS_CardinalityType

LEMMA RefreshKeepsBound ==
  ASSUME IInv, IInv', BoundInv, RefreshStep \/ AbandonRefresh
  PROVE  BoundInv'
<1> USE CatalogAssumption DEF EndRefresh, GiveUp, ownerVars, closeVars, flagVars
<1>1. /\ IsFiniteSet(pending) /\ Cardinality(pending) \in Int
      /\ IsFiniteSet(Held) /\ Cardinality(Held) \in Int
      /\ IsFiniteSet(Draining) /\ Cardinality(Draining) \in Int
      /\ Cardinality(pending') \in Int /\ Cardinality(Held') \in Int
      /\ Cardinality(Draining') \in Int
  BY OwnedFinite, OwnedFiniteNext
<1>2. /\ Limit' = Limit /\ Limit \in Int /\ Upcoming' = Upcoming /\ Upcoming \cap Draining = {}
      /\ Coming \in {0, 1} /\ Coming' \in {0, 1}
  BY DEF Limit, Upcoming, Coming, BoundInv, RefreshStep, AbandonRefresh, ConnectFails, Connected,
     BuildCandidate, RefreshFails, Install, InstallRejected, RetirePrevious, RetainTaken,
     CleanupReturns
<1>3. CASE ConnectFails \/ BuildCandidate \/ AbandonRefresh \/ CleanupReturns
  <2>1. /\ pending' = pending /\ Draining' = Draining /\ Held' \subseteq Held
        /\ Coming' = 0
    BY <1>2, <1>3 DEF ConnectFails, BuildCandidate, AbandonRefresh, CleanupReturns, Draining, Held,
       Coming
  <2>2. Cardinality(Held') <= Cardinality(Held)
    BY <1>1, <2>1, Counting
  <2> QED BY <1>1, <1>2, <2>1, <2>2 DEF BoundInv
<1>4. CASE Connected
  <2>1. /\ pending' = pending \cup {refresher} /\ Draining' = Draining /\ Held' = Held
        /\ Coming' = 0 /\ Coming = 1
    BY <1>2, <1>4 DEF Connected, Draining, Held, Coming, IInv, RefresherInv
  <2>2. Cardinality(pending') <= Cardinality(pending) + 1
    BY <1>1, <2>1, Counting
  <2> QED BY <1>1, <1>2, <2>1, <2>2 DEF BoundInv
<1>5. CASE RefreshFails \/ InstallRejected \/ Install
  <2>1. Draining' = Draining /\ Held' = Held /\ Coming = 0
    BY <1>2, <1>5 DEF RefreshFails, InstallRejected, Install, RetirementPermit, Draining, Held, Coming
  <2>2. CASE refresher \in pending
    <3>1. Cardinality(pending') <= Cardinality(pending) - 1
      BY <1>1, <1>5, <2>2, Counting DEF RefreshFails, InstallRejected, Install
    <3> QED BY <1>1, <1>2, <2>1, <3>1 DEF BoundInv
  <2>3. CASE refresher \notin pending
    <3>1. pending' = pending /\ Coming' = 0
      BY <1>5, <2>3 DEF RefreshFails, InstallRejected, Install, Installable, Coming
    <3> QED BY <1>1, <1>2, <2>1, <3>1 DEF BoundInv
  <2> QED BY <2>2, <2>3
<1>6. CASE RetirePrevious
  <2>1. pending' = pending /\ Coming' = 0
    BY <1>6 DEF RetirePrevious, Coming
  <2>2. CASE retiring = None
    <3>1. Draining' = Draining /\ Held' = Held /\ Coming = 0
      BY <1>2, <1>6, <2>2 DEF RetirePrevious, Draining, Held, Coming
    <3> QED BY <1>1, <1>2, <2>1, <3>1 DEF BoundInv
  <2>3. CASE retiring # None
    <3>1. /\ retiring \in Refreshes /\ retiring \notin Held /\ retiring \notin Upcoming
      BY <1>6, <2>3 DEF RetirePrevious, IInv, RefresherInv, Domains, Out, Held, Upcoming
    <3>2. Draining' = Draining \cup {retiring} /\ Held' = Held /\ Coming = 1
      BY <1>2, <1>6, <2>3, <3>1 DEF RetirePrevious, Schedule, Draining, Held, Coming, IInv, Domains
    <3>3. Cardinality(Draining') <= Cardinality(Draining) + 1
      BY <1>1, <3>2, Counting
    <3>4. Upcoming' \cap Draining' = {}
      BY <1>2, <3>1, <3>2
    <3> QED BY <1>1, <1>2, <2>1, <3>2, <3>3, <3>4 DEF BoundInv
  <2> QED BY <2>2, <2>3
<1>7. CASE RetainTaken
  <2>1. /\ pending' = pending /\ Draining' = Draining /\ Held' = Held \cup {refresher}
        /\ Coming' = 0 /\ Coming = 1
    BY <1>2, <1>7 DEF RetainTaken, Draining, Held, Coming
  <2>2. Cardinality(Held') <= Cardinality(Held) + 1
    BY <1>1, <2>1, Counting
  <2> QED BY <1>1, <1>2, <2>1, <2>2 DEF BoundInv
<1> QED BY <1>3, <1>4, <1>5, <1>6, <1>7 DEF RefreshStep

\* A first close gathers the active and the pending contexts; the limit it
\* leaves room for has grown by the active one.
LEMMA BeginCloseKeepsBound ==
  ASSUME IInv, IInv', BoundInv, BeginClose
  PROVE  BoundInv'
<1> USE CatalogAssumption DEF BeginClose, refreshVars
<1>1. /\ IsFiniteSet(pending) /\ Cardinality(pending) \in Nat
      /\ IsFiniteSet(retired) /\ Cardinality(retired) \in Nat
      /\ Held = retired /\ Upcoming = {} /\ Cardinality(Draining) \in Nat
      /\ Cardinality(pending') \in Int /\ Cardinality(Held') \in Int
  BY OwnedFinite, OwnedFiniteNext DEF Held, Upcoming
<1>2. Draining' = Draining /\ Coming' = Coming /\ Coming \in {0, 1}
  BY DEF Draining, Coming
<1>3. Held' = retired' /\ Upcoming' \subseteq retired'
  BY DEF Held, Upcoming
<1>4. Upcoming' \cap Draining' = {}
  BY <1>3 DEF IInv, OwnersInv
<1>5. CASE closed
  <2>1. pending' = pending /\ Held' = Held /\ Limit' = Limit /\ Limit \in Int
    BY <1>1, <1>3, <1>5 DEF Limit
  <2> QED BY <1>1, <1>2, <1>4, <2>1 DEF BoundInv
<1>6. CASE ~closed
  <2>1. pending' = {} /\ retired' \subseteq (retired \cup pending) \cup {active}
    BY <1>6
  <2>2. /\ IsFiniteSet(retired \cup pending) /\ Cardinality(retired \cup pending) \in Nat
        /\ Cardinality(retired \cup pending) <= Cardinality(retired) + Cardinality(pending)
    <3>1. /\ IsFiniteSet(retired \cap pending) /\ Cardinality(retired \cap pending) \in Nat
      BY <1>1, FS_Intersection, FS_CardinalityType
    <3>2. IsFiniteSet(retired \cup pending) /\ Cardinality(retired \cup pending) \in Nat
      BY <1>1, FS_Union, FS_CardinalityType
    <3>3. Cardinality(retired \cup pending)
            = Cardinality(retired) + Cardinality(pending) - Cardinality(retired \cap pending)
      BY <1>1, FS_Union
    <3> QED BY <1>1, <3>1, <3>2, <3>3
  <2>3. Cardinality(retired') <= Cardinality(retired \cup pending) + 1
    <3>1. /\ IsFiniteSet((retired \cup pending) \cup {active})
          /\ Cardinality((retired \cup pending) \cup {active}) \in Nat
          /\ Cardinality((retired \cup pending) \cup {active}) <= Cardinality(retired \cup pending) + 1
      BY <2>2, Counting
    <3>2. /\ Cardinality(retired') <= Cardinality((retired \cup pending) \cup {active})
          /\ Cardinality(retired') \in Nat
      BY <2>1, <3>1, Counting
    <3> QED BY <2>2, <3>1, <3>2
  <2>4. Cardinality(retired') \in Nat
    BY <2>1, <2>2, Counting
  <2>5. Cardinality(Held') <= Cardinality(Held) + Cardinality(pending) + 1
    BY <1>1, <1>3, <2>2, <2>3, <2>4
  <2>6. Cardinality(pending') = 0
    BY <1>1, <2>1, FS_EmptySet
  <2>7. Limit' = Limit + 1 /\ Limit \in Int
    BY <1>6 DEF Limit
  <2> QED BY <1>1, <1>2, <1>4, <2>5, <2>6, <2>7 DEF BoundInv
<1> QED BY <1>5, <1>6

LEMMA CloseKeepsBound ==
  ASSUME IInv, IInv', BoundInv,
         CloseStep \/ AbandonClose \/ \E x \in Refreshes : WorkerStep(x)
  PROVE  BoundInv'
<1> USE CatalogAssumption
<1>1. /\ IsFiniteSet(pending) /\ Cardinality(pending) \in Int
      /\ IsFiniteSet(Held) /\ Cardinality(Held) \in Int
      /\ IsFiniteSet(Draining) /\ Cardinality(Draining) \in Int
      /\ Cardinality(pending') \in Int /\ Cardinality(Held') \in Int
      /\ Cardinality(Draining') \in Int
  BY OwnedFinite, OwnedFiniteNext
<1>2. /\ OutOfClose /\ Limit' = Limit /\ Limit \in Int /\ Upcoming \cap Draining = {}
      /\ pending' = pending /\ Coming' = Coming /\ Coming \in {0, 1}
  BY DEF Limit, Coming, BoundInv, CloseStep, ScheduleOne, DrainTimesOut, StartTransportClose,
     TransportClosed, FinishClose, AbandonClose, WorkerStep, WorkerCloses, WorkerReturns,
     OutOfWorkers, OutOfClose, flagVars, refreshVars
<1>3. ASSUME NEW x \in snapshot, kpc \in {"schedule", "draining"},
             Schedule(x), Upcoming' = Upcoming \ {x}
      PROVE  BoundInv'
  <2>1. x \in Held /\ x \in Upcoming /\ x \notin Draining /\ x \in Refreshes
    BY <1>2, <1>3 DEF Held, Upcoming, IInv, Domains, Out
  <2>2. Held' = Held \ {x} /\ Draining' = Draining \cup {x}
    BY <1>3, <2>1 DEF Held, Schedule, Draining, IInv, Domains
  <2>3. Cardinality(Held') <= Cardinality(Held) - 1
    BY <1>1, <2>1, <2>2, Counting
  <2>4. Cardinality(Draining') <= Cardinality(Draining) + 1
    BY <1>1, <2>2, Counting
  <2>5. Upcoming' \cap Draining' = {}
    BY <1>2, <1>3, <2>2
  <2> QED BY <1>1, <1>2, <2>3, <2>4, <2>5 DEF BoundInv
<1>4. CASE ScheduleOne
  <2>1. PICK x \in snapshot : Schedule(x) /\ Upcoming' = Upcoming \ {x}
    BY <1>4 DEF ScheduleOne, EndClose, Upcoming
  <2> QED BY <1>3, <1>4, <2>1 DEF ScheduleOne
<1>5. CASE DrainTimesOut
  <2>1. PICK x \in snapshot : Schedule(x)
    BY <1>5 DEF DrainTimesOut
  <2>2. snapshot = {x}
    BY <1>5 DEF DrainTimesOut, IInv, CloseInv
  <2>3. Upcoming' = Upcoming \ {x}
    BY <1>5, <2>2 DEF DrainTimesOut, Upcoming
  <2> QED BY <1>3, <1>5, <2>1, <2>3 DEF DrainTimesOut
<1>6. CASE StartTransportClose \/ TransportClosed \/ FinishClose \/ AbandonClose
  <2>1. Draining' = Draining /\ Held' \subseteq Held /\ Upcoming' \subseteq Upcoming
    BY <1>6 DEF StartTransportClose, TransportClosed, FinishClose, AbandonClose, EndClose,
       Draining, Held, Upcoming
  <2>2. Cardinality(Held') <= Cardinality(Held)
    BY <1>1, <2>1, Counting
  <2>3. Upcoming' \cap Draining' = {}
    BY <1>2, <2>1
  <2> QED BY <1>1, <1>2, <2>1, <2>2, <2>3 DEF BoundInv
<1>7. ASSUME NEW x \in Refreshes, WorkerCloses(x) PROVE BoundInv'
  <2>1. Draining' = Draining /\ Held' = Held /\ Upcoming' = Upcoming
    BY <1>7 DEF WorkerCloses, OutOfWorkers, closeVars, Draining, Held, Upcoming, IInv, Domains
  <2> QED BY <1>1, <1>2, <2>1 DEF BoundInv
<1>8. ASSUME NEW x \in Refreshes, WorkerReturns(x) PROVE BoundInv'
  <2>1. /\ x \in Draining /\ Draining' = Draining \ {x} /\ Upcoming' = Upcoming
        /\ Held' \subseteq Held \cup {x}
    BY <1>8 DEF WorkerReturns, OutOfWorkers, closeVars, Draining, Held, Upcoming, IInv, Domains
  <2>2. Cardinality(Draining') <= Cardinality(Draining) - 1
    BY <1>1, <2>1, Counting
  <2>3. Cardinality(Held') <= Cardinality(Held) + 1
    <3>1. /\ IsFiniteSet(Held \cup {x}) /\ Cardinality(Held \cup {x}) \in Nat
          /\ Cardinality(Held \cup {x}) <= Cardinality(Held) + 1
      BY <1>1, Counting
    <3>2. Cardinality(Held') <= Cardinality(Held \cup {x}) /\ Cardinality(Held') \in Nat
      BY <2>1, <3>1, Counting
    <3> QED BY <1>1, <3>1, <3>2
  <2>4. Upcoming' \cap Draining' = {}
    BY <1>2, <2>1
  <2> QED BY <1>1, <1>2, <2>2, <2>3, <2>4 DEF BoundInv
<1> QED BY <1>4, <1>5, <1>6, <1>7, <1>8 DEF CloseStep, WorkerStep

LEMMA StepKeepsBound == IInv /\ IInv' /\ BoundInv /\ [Next]_vars => BoundInv'
<1> SUFFICES ASSUME IInv, IInv', BoundInv, [Next]_vars PROVE BoundInv'
  OBVIOUS
<1> USE DEF BoundInv, Held, Upcoming, Coming, Limit, Draining, refreshVars, flagVars, ownerVars,
        closeVars
<1>1. CASE \E f \in Refreshes : BeginRefresh(f)
  <2>1. ~closed /\ kpc = "idle" /\ Owned < MaxRetired
    BY <1>1 DEF BeginRefresh, MayRefresh, IInv, CloseInv
  <2>2. Held = retired /\ Held' = retired /\ Draining' = Draining /\ Upcoming' = {} /\ pending' = pending
    BY <1>1, <2>1 DEF BeginRefresh
  <2>3. /\ Cardinality(pending) \in Nat /\ Cardinality(retired) \in Nat
        /\ Cardinality(Draining) \in Nat
    BY OwnedFinite
  <2>4. Limit' = MaxRetired /\ Coming' = 1
    BY <1>1, <2>1, CatalogAssumption DEF BeginRefresh
  <2> HIDE DEF Held, Upcoming, Coming, Limit, Draining
  <2>5. Cardinality(pending) + Cardinality(retired) + Cardinality(Draining) + 1 <= MaxRetired
    BY <2>1, <2>3, CatalogAssumption DEF Owned
  <2> QED BY <2>2, <2>4, <2>5
<1>2. CASE RefreshStep \/ AbandonRefresh
  BY <1>2, RefreshKeepsBound
<1>3. CASE \E c \in Calls : CallStep(c) \/ AbandonCall(c) \/ \E f \in Refreshes : StartCall(c, f)
  <2>1. OutOfCalls
    BY <1>3 DEF CallStep, TakeServer, TakeGate, Admit, RejectCall, CallReturns, CallLeaves,
       AbandonCall, StartCall
  <2> QED BY <2>1 DEF OutOfCalls
<1>4. CASE BeginClose
  BY <1>4, BeginCloseKeepsBound
<1>5. CASE CloseStep \/ AbandonClose \/ \E x \in Refreshes : WorkerStep(x)
  BY <1>5, CloseKeepsBound
<1>6. CASE ListChanged \/ ReplaceRegistered
  <2>1. /\ pending' = pending /\ Draining' = Draining /\ Upcoming' = Upcoming /\ Held' = Held
        /\ Coming' = Coming /\ Limit' = Limit
    BY <1>6 DEF ListChanged, ReplaceRegistered
  <2> HIDE DEF Held, Upcoming, Coming, Limit, Draining
  <2> QED BY <2>1
<1>7. CASE UNCHANGED vars
  BY <1>7 DEF vars
<1> QED BY <1>1, <1>2, <1>3, <1>4, <1>5, <1>6, <1>7 DEF Next

LEMMA BoundMeans == IInv /\ BoundInv => ContextsBounded
<1> SUFFICES ASSUME IInv, BoundInv PROVE ContextsBounded
  OBVIOUS
<1>1. /\ IsFiniteSet(Held) /\ Cardinality(Held) \in Int /\ Cardinality(retired) \in Int
      /\ Cardinality(pending) \in Int /\ Cardinality(Draining) \in Int
  BY OwnedFinite
<1>2. Cardinality(retired) <= Cardinality(Held)
  BY <1>1, Counting DEF Held
<1>3. Coming \in {0, 1} /\ Limit \in Int
  BY CatalogAssumption DEF Coming, Limit
<1>4. Cardinality(pending) + Cardinality(retired) + Cardinality(Draining) <= Limit
  BY <1>1, <1>2, <1>3 DEF BoundInv
<1> QED BY <1>4 DEF ContextsBounded, Owned, Limit

\* ContextsAccounted, for every limit and any number of refreshes, calls and
\* closes.
THEOREM Accounted == Spec => []ContextsAccounted
<1>1. Init => BoundInv
  <2> SUFFICES ASSUME Init PROVE BoundInv
    OBVIOUS
  <2>1. pending = {} /\ Held = {} /\ Draining = {} /\ Upcoming = {} /\ Coming = 0 /\ Limit = MaxRetired
    BY CatalogAssumption DEF Init, Held, Draining, Upcoming, Coming, Limit
  <2> QED BY <2>1, FS_EmptySet, CatalogAssumption DEF BoundInv
<1>2. Spec => []BoundInv
  BY <1>1, StepKeepsBound, Invariance, PTL DEF Spec
<1>3. IInv /\ BoundInv /\ NoContextLost /\ OkMeansClosed => ContextsAccounted
  BY BoundMeans DEF ContextsAccounted
<1> QED BY <1>2, <1>3, NothingLost, Invariance, PTL
=============================================================================
