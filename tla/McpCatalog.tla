------------------------------ MODULE McpCatalog ------------------------------
(***************************************************************************)
(* McpCatalogManager of llama-harness-mcp (lib.rs): complete refreshes of  *)
(* a server's tool catalog, list-change notices, calls through adapters of *)
(* the catalog in force or of one since replaced, and close.  A server     *)
(* context is named by the refresh that connects it.                       *)
(* refresh_lock and close_lock let one refresh and one close in at a time; *)
(* the manager's state is under a plain mutex: one action per section of   *)
(* that mutex, and one per answer of the transport.                        *)
(***************************************************************************)
EXTENDS Integers, FiniteSets, Sequences

CONSTANTS
  Refreshes,     \* refresh calls, and the contexts they connect
  Registered,    \* those made by refresh_registered
  Calls,         \* tool calls through adapters
  MaxCloses,     \* bound of the model: close calls
  MaxRetired,    \* limits.max_retired_generations
  MaxWaiters,    \* limits.max_server_waiters
  MaxEpoch,      \* u64::MAX, the last list-change epoch
  None

ASSUME CatalogAssumption ==
  /\ Registered \subseteq Refreshes
  /\ None \notin Refreshes \cup Calls
  /\ MaxCloses \in Nat /\ MaxRetired \in Nat
  /\ MaxWaiters \in Nat \ {0} /\ MaxEpoch \in Nat

VARIABLES
  rpc,           \* where the refresh in refresh_lock is
  refresher,     \* the refresh in refresh_lock
  asked,         \* refreshes that took it so far
  epochOf,       \* RefreshOwnership.list_change_epoch
  generation,    \* the generation a refresh's adapters carry, 0 before
  retiring,      \* the catalog the refresh is replacing
  tokens,        \* state.refresh_tokens
  active,        \* state.active
  bound,         \* state.registry_bound
  closed,        \* state.closed
  invalidated,   \* state.invalidated
  epoch,         \* state.list_change_epoch
  exhausted,     \* state.list_change_epoch_exhausted
  nextGeneration,\* state.next_generation
  pending,       \* state.pending_refresh_contexts
  retired,       \* state.retired_contexts
  worker,        \* the drain worker of a context; state.draining_contexts
  cpc,           \* where a call is
  adapter,       \* the catalog whose adapter a call uses
  server,        \* the call that holds the server's one permit
  waiting,       \* calls waiting for it
  kpc,           \* where the close call in close_lock is
  closes,        \* close calls so far
  snapshot,      \* the contexts it took up
  failed,        \* its `failed`
  answer,        \* whether the last close call returned Ok
  published,     \* catalogs once installed, whose adapters the host holds
  opened,        \* history: contexts the transport connected
  shut,          \* history: contexts the transport closed
  closeBegun     \* history: contexts whose transport close was started

refreshVars == <<rpc, refresher, asked, epochOf, generation, retiring>>
flagVars == <<bound, closed, invalidated, epoch, exhausted, nextGeneration>>
ownerVars == <<pending, retired, worker>>
callVars == <<cpc, adapter, server, waiting>>
closeVars == <<kpc, closes, snapshot, failed, answer>>
historyVars == <<published, opened, shut, closeBegun>>
vars == <<refreshVars, tokens, active, flagVars, ownerVars, callVars, closeVars, historyVars>>

Init ==
  /\ rpc = "idle" /\ refresher = None /\ asked = {}
  /\ epochOf = [f \in Refreshes |-> 0]
  /\ generation = [f \in Refreshes |-> 0]
  /\ retiring = None
  /\ tokens = {}
  /\ active = None
  /\ bound = FALSE /\ closed = FALSE /\ invalidated = FALSE
  /\ epoch = 0 /\ exhausted = FALSE
  /\ nextGeneration = 1
  /\ pending = {} /\ retired = {}
  /\ worker = [f \in Refreshes |-> "none"]
  /\ cpc = [c \in Calls |-> "idle"]
  /\ adapter = [c \in Calls |-> None]
  /\ server = None
  /\ waiting = << >>
  /\ kpc = "idle" /\ closes = 0
  /\ snapshot = {} /\ failed = FALSE /\ answer = "Err"
  /\ published = {} /\ opened = {} /\ shut = {} /\ closeBegun = {}

-----------------------------------------------------------------------------
Draining == {f \in Refreshes : worker[f] # "none"}
Owned == Cardinality(pending) + Cardinality(retired) + Cardinality(Draining)

\* MUTANT of Readers: a call counts while it still waits for the gate.
ReadersWaiting(f) ==
  {c \in Calls : adapter[c] = f /\ cpc[c] \in {"gate", "admit", "transport", "leaving"}}

\* A call holds the read side of its catalog's gate from "admit" on, and a
\* lease on it from "transport" on.
Readers(f) == {c \in Calls : adapter[c] = f /\ cpc[c] \in {"admit", "transport", "leaving"}}
Leases(f) == {c \in Calls : adapter[c] = f /\ cpc[c] \in {"transport", "leaving"}}

\* The refresh returns: its ownership and then refresh_lock are dropped.
EndRefresh ==
  /\ rpc' = "idle" /\ refresher' = None /\ retiring' = None
  /\ tokens' = tokens \ {refresher}

\* schedule_close_after_drain.
Schedule(x) ==
  /\ retired' = retired \ {x}
  /\ worker' = [worker EXCEPT ![x] = "draining"]

-----------------------------------------------------------------------------
(* Refreshes *)

\* MUTANT of MayRefresh: off by one.
MayRefreshOneMore(f) ==
  /\ ~closed
  /\ bound => f \in Registered
  /\ Owned <= MaxRetired
  /\ ~exhausted

MayRefresh(f) ==
  /\ ~closed
  /\ bound => f \in Registered
  /\ Owned < MaxRetired
  /\ ~exhausted

\* begin_refresh; one that is refused has done nothing.
BeginRefresh(f) ==
  /\ refresher = None /\ f \notin asked
  /\ MayRefresh(f)
  /\ rpc' = "connecting" /\ refresher' = f
  /\ asked' = asked \cup {f}
  /\ epochOf' = [epochOf EXCEPT ![f] = epoch]
  /\ tokens' = tokens \cup {f}
  /\ UNCHANGED <<generation, retiring, active, flagVars, ownerVars, callVars, closeVars,
                 historyVars>>

ConnectFails ==
  /\ rpc = "connecting"
  /\ EndRefresh
  /\ UNCHANGED <<asked, epochOf, generation, active, flagVars, ownerVars, callVars,
                 closeVars, historyVars>>

\* MUTANT of Connected: the context is kept by the refresh alone.
ConnectedUnowned ==
  /\ rpc = "connecting"
  /\ rpc' = "listing"
  /\ opened' = opened \cup {refresher}
  /\ UNCHANGED <<refresher, asked, epochOf, generation, retiring, tokens, active, flagVars,
                 ownerVars, callVars, closeVars, published, shut, closeBegun>>

\* retain_pending_context: kept whether or not the manager was closed.
Connected ==
  /\ rpc = "connecting"
  /\ rpc' = "listing"
  /\ opened' = opened \cup {refresher}
  /\ pending' = IF refresher \in tokens THEN pending \cup {refresher} ELSE pending
  /\ UNCHANGED <<refresher, asked, epochOf, generation, retiring, tokens, active, flagVars,
                 retired, worker, callVars, closeVars, published, shut, closeBegun>>

\* Every page was admitted: the candidate is built for the next generation,
\* and the gate of the catalog it would replace is looked up.
BuildCandidate ==
  /\ rpc = "listing" /\ ~closed
  /\ rpc' = "gate"
  /\ generation' = [generation EXCEPT ![refresher] = nextGeneration]
  /\ retiring' = active
  /\ UNCHANGED <<refresher, asked, epochOf, tokens, active, flagVars, ownerVars, callVars,
                 closeVars, historyVars>>

\* take_pending_context, at the start of cleanup_pending_context: a context
\* that close took over is not the refresh's to close.
GiveUp ==
  /\ pending' = pending \ {refresher}
  /\ IF refresher \in pending
       THEN rpc' = "taken" /\ UNCHANGED <<refresher, retiring, tokens>>
       ELSE EndRefresh

\* A context or a page that validation rejects, a failed or cancelled page
\* request, a clock or registry error, or a manager closed meanwhile.
RefreshFails ==
  /\ rpc = "listing"
  /\ GiveUp
  /\ UNCHANGED <<asked, epochOf, generation, active, flagVars, retired, worker, callVars,
                 closeVars, historyVars>>

\* MUTANT of RetirementPermit: the catalog is swapped under calls in flight.
RetireNow == rpc = "gate"

\* The write side of the old catalog's gate: no call reads through it.
RetirementPermit == rpc = "gate" /\ (retiring # None => Readers(retiring) = {})

\* MUTANT of Installable: an exhausted epoch is not told apart.
InstallableEpochOnly ==
  /\ ~closed
  /\ epoch = epochOf[refresher]
  /\ bound => refresher \in Registered
  /\ nextGeneration = generation[refresher]
  /\ refresher \in pending

Installable ==
  /\ ~closed
  /\ ~exhausted /\ epoch = epochOf[refresher]
  /\ bound => refresher \in Registered
  /\ nextGeneration = generation[refresher]
  /\ refresher \in pending

Install ==
  /\ RetirementPermit /\ Installable
  /\ rpc' = "retire"
  /\ pending' = pending \ {refresher}
  /\ active' = refresher
  /\ published' = published \cup {refresher}
  /\ retiring' = active
  /\ nextGeneration' = nextGeneration + 1
  /\ bound' = (bound \/ refresher \in Registered)
  /\ invalidated' = FALSE
  /\ UNCHANGED <<refresher, asked, epochOf, generation, tokens, closed, epoch, exhausted,
                 retired, worker, callVars, closeVars, opened, shut, closeBegun>>

InstallRejected ==
  /\ RetirementPermit /\ ~Installable
  /\ GiveUp
  /\ UNCHANGED <<asked, epochOf, generation, active, flagVars, retired, worker, callVars,
                 closeVars, historyVars>>

\* The replaced catalog's context goes to a drain worker.
RetirePrevious ==
  /\ rpc = "retire"
  /\ EndRefresh
  /\ IF retiring = None THEN UNCHANGED <<retired, worker>> ELSE Schedule(retiring)
  /\ UNCHANGED <<asked, epochOf, generation, active, flagVars, pending, callVars, closeVars,
                 historyVars>>

\* cleanup_pending_context: retained again, then closed by the refresh.
RetainTaken ==
  /\ rpc = "taken"
  /\ rpc' = "closing"
  /\ retired' = retired \cup {refresher}
  /\ closeBegun' = closeBegun \cup {refresher}
  /\ UNCHANGED <<refresher, asked, epochOf, generation, retiring, tokens, active, flagVars,
                 pending, worker, callVars, closeVars, published, opened, shut>>

\* try_close_retained: a failed or timed-out close leaves it retained.
CleanupReturns ==
  /\ rpc = "closing"
  /\ EndRefresh
  /\ \/ retired' = retired \ {refresher} /\ shut' = shut \cup {refresher}
     \/ UNCHANGED <<retired, shut>>
  /\ UNCHANGED <<asked, epochOf, generation, active, flagVars, pending, worker, callVars,
                 closeVars, published, opened, closeBegun>>

\* The caller drops the refresh future at one of its awaits.
AbandonRefresh ==
  /\ rpc \in {"connecting", "listing", "gate", "closing"}
  /\ EndRefresh
  /\ UNCHANGED <<asked, epochOf, generation, active, flagVars, ownerVars, callVars,
                 closeVars, historyVars>>

\* invalidate_list_change.
ListChanged ==
  /\ invalidated' = TRUE
  /\ IF epoch < MaxEpoch
       THEN epoch' = epoch + 1 /\ UNCHANGED exhausted
       ELSE exhausted' = TRUE /\ UNCHANGED epoch
  /\ UNCHANGED <<refreshVars, tokens, active, bound, closed, nextGeneration, ownerVars,
                 callVars, closeVars, historyVars>>

ReplaceRegistered ==
  /\ active # None
  /\ bound' = TRUE
  /\ UNCHANGED <<refreshVars, tokens, active, closed, invalidated, epoch, exhausted,
                 nextGeneration, ownerVars, callVars, closeVars, historyVars>>

-----------------------------------------------------------------------------
(* Calls *)

CallGoto(c, l) == cpc' = [cpc EXCEPT ![c] = l]
EndCall(c) == CallGoto(c, "done") /\ adapter' = [adapter EXCEPT ![c] = None]
OutOfCalls ==
  UNCHANGED <<refreshVars, tokens, active, flagVars, ownerVars, closeVars, historyVars>>

\* A call through an adapter of a catalog that was once installed; the queue
\* for the server's permit is bounded.
StartCall(c, f) ==
  /\ cpc[c] = "idle" /\ f \in published
  /\ IF Len(waiting) >= MaxWaiters
       THEN EndCall(c) /\ UNCHANGED waiting
       ELSE /\ CallGoto(c, "queued")
            /\ adapter' = [adapter EXCEPT ![c] = f]
            /\ waiting' = Append(waiting, c)
  /\ UNCHANGED server
  /\ OutOfCalls

TakeServer(c) ==
  /\ cpc[c] = "queued" /\ server = None /\ Head(waiting) = c
  /\ CallGoto(c, "gate")
  /\ server' = c
  /\ waiting' = Tail(waiting)
  /\ UNCHANGED adapter
  /\ OutOfCalls

\* The gate is fair: a reader queues behind a refresh that waits to write.
TakeGate(c) ==
  /\ cpc[c] = "gate"
  /\ rpc = "gate" => retiring # adapter[c]
  /\ CallGoto(c, "admit")
  /\ UNCHANGED <<adapter, server, waiting>>
  /\ OutOfCalls

\* MUTANT of Active: a list-change notice does not stop calls.
ActiveThoughInvalid(f) ==
  ~closed /\ active # None /\ generation[active] = generation[f]

\* check_active, but for the clock and the expiry of the catalog.
Active(f) ==
  ~closed /\ ~invalidated /\ active # None /\ generation[active] = generation[f]

Admit(c) ==
  /\ cpc[c] = "admit" /\ Active(adapter[c])
  /\ CallGoto(c, "transport")
  /\ UNCHANGED <<adapter, server, waiting>>
  /\ OutOfCalls

\* Not the active catalog, or it expired, or the clock went backwards.
RejectCall(c) ==
  /\ cpc[c] = "admit"
  /\ EndCall(c)
  /\ server' = None
  /\ UNCHANGED waiting
  /\ OutOfCalls

\* The transport answers, fails or times out: the server's permit is free
\* before the lease and the gate are.
CallReturns(c) ==
  /\ cpc[c] = "transport"
  /\ CallGoto(c, "leaving")
  /\ server' = None
  /\ UNCHANGED <<adapter, waiting>>
  /\ OutOfCalls

CallLeaves(c) ==
  /\ cpc[c] = "leaving"
  /\ EndCall(c)
  /\ UNCHANGED <<server, waiting>>
  /\ OutOfCalls

\* MUTANT of AbandonCall: the permit of a cancelled call is lost.
AbandonCallKeepsPermit(c) ==
  /\ cpc[c] \in {"queued", "gate", "transport"}
  /\ EndCall(c)
  /\ waiting' = SelectSeq(waiting, LAMBDA d : d # c)
  /\ UNCHANGED server
  /\ OutOfCalls

\* Cancelled, or the call's future is dropped at an await.
AbandonCall(c) ==
  /\ cpc[c] \in {"queued", "gate", "transport"}
  /\ EndCall(c)
  /\ server' = IF server = c THEN None ELSE server
  /\ waiting' = SelectSeq(waiting, LAMBDA d : d # c)
  /\ OutOfCalls

-----------------------------------------------------------------------------
(* Close and the drain workers *)

\* Outside its first section a close changes only what it owns.
OutOfClose == UNCHANGED <<refreshVars, tokens, active, flagVars, pending, callVars,
                          published, opened>>

EndClose(a) == kpc' = "idle" /\ answer' = a /\ snapshot' = {} /\ failed' = FALSE

\* The first close takes the active and the pending contexts over; each
\* takes up the contexts retained so far.
BeginClose ==
  /\ kpc = "idle" /\ closes < MaxCloses
  /\ closes' = closes + 1
  /\ closed' = TRUE
  /\ invalidated' = (invalidated \/ ~closed)
  /\ IF closed
       THEN UNCHANGED <<active, pending, retired>>
       ELSE /\ active' = None
            /\ pending' = {}
            /\ retired' = retired \cup pending \cup ({active} \ {None})
  /\ snapshot' = retired'
  /\ kpc' = CASE Cardinality(retired') > 1 -> "schedule"
              [] Cardinality(retired') = 1 -> "draining"
              [] OTHER -> "final"
  /\ UNCHANGED <<refreshVars, tokens, bound, epoch, exhausted, nextGeneration, worker,
                 callVars, failed, answer, historyVars>>

\* Several contexts: each goes to a worker of its own, and close returns
\* CleanupPending.
ScheduleOne ==
  /\ kpc = "schedule"
  /\ \E x \in snapshot :
       /\ Schedule(x)
       /\ IF snapshot = {x}
            THEN EndClose("Err")
            ELSE snapshot' = snapshot \ {x} /\ UNCHANGED <<kpc, answer, failed>>
  /\ UNCHANGED <<closes, shut, closeBegun>>
  /\ OutOfClose

\* One context: close waits for its calls within its deadline.
DrainTimesOut ==
  /\ kpc = "draining"
  /\ \E x \in snapshot : Leases(x) # {} /\ Schedule(x)
  /\ failed' = TRUE
  /\ kpc' = "final"
  /\ UNCHANGED <<closes, snapshot, answer, shut, closeBegun>>
  /\ OutOfClose

\* MUTANT of Drained: the calls in flight are not waited for.
DrainedAnyway(x) == x \in Refreshes

\* wait_for_drain.
Drained(x) == Leases(x) = {}

StartTransportClose ==
  /\ kpc = "draining"
  /\ \A x \in snapshot : Drained(x)
  /\ closeBegun' = closeBegun \cup snapshot
  /\ kpc' = "closing"
  /\ UNCHANGED <<closes, snapshot, failed, answer, retired, worker, shut>>
  /\ OutOfClose

\* try_close_retained.
TransportClosed ==
  /\ kpc = "closing"
  /\ kpc' = "final"
  /\ \/ /\ retired' = retired \ snapshot
        /\ shut' = shut \cup snapshot
        /\ UNCHANGED failed
     \/ /\ failed' = TRUE
        /\ UNCHANGED <<retired, shut>>
  /\ UNCHANGED <<closes, snapshot, answer, worker, closeBegun>>
  /\ OutOfClose

\* MUTANT of Unresolved: a refresh under way is forgotten.
UnresolvedOwned == Owned # 0

Unresolved == Owned # 0 \/ tokens # {}

\* CleanupPending, the transport's error, or Ok.
FinishClose ==
  /\ kpc = "final"
  /\ EndClose(IF Unresolved \/ failed THEN "Err" ELSE "Ok")
  /\ UNCHANGED <<closes, retired, worker, shut, closeBegun>>
  /\ OutOfClose

\* The caller drops the close future at one of its awaits.
AbandonClose ==
  /\ kpc \in {"draining", "closing"}
  /\ EndClose(answer)
  /\ UNCHANGED <<closes, retired, worker, shut, closeBegun>>
  /\ OutOfClose

OutOfWorkers == UNCHANGED <<refreshVars, tokens, active, flagVars, pending, callVars,
                            closeVars, published, opened>>

WorkerCloses(x) ==
  /\ worker[x] = "draining" /\ Drained(x)
  /\ worker' = [worker EXCEPT ![x] = "closing"]
  /\ closeBegun' = closeBegun \cup {x}
  /\ UNCHANGED <<retired, shut>>
  /\ OutOfWorkers

\* MUTANT of WorkerReturns: a failed close is given up.
WorkerReturnsForgets(x) ==
  /\ worker[x] = "closing"
  /\ worker' = [worker EXCEPT ![x] = "none"]
  /\ \/ shut' = shut \cup {x}
     \/ UNCHANGED shut
  /\ UNCHANGED <<retired, closeBegun>>
  /\ OutOfWorkers

\* A failed or timed-out close goes back to the retained contexts.
WorkerReturns(x) ==
  /\ worker[x] = "closing"
  /\ worker' = [worker EXCEPT ![x] = "none"]
  /\ \/ shut' = shut \cup {x} /\ UNCHANGED retired
     \/ retired' = retired \cup {x} /\ UNCHANGED shut
  /\ UNCHANGED closeBegun
  /\ OutOfWorkers

-----------------------------------------------------------------------------
RefreshStep ==
  \/ ConnectFails \/ Connected \/ BuildCandidate \/ RefreshFails
  \/ Install \/ InstallRejected \/ RetirePrevious
  \/ RetainTaken \/ CleanupReturns

CallStep(c) ==
  TakeServer(c) \/ TakeGate(c) \/ Admit(c) \/ RejectCall(c) \/ CallReturns(c) \/ CallLeaves(c)

CloseStep ==
  ScheduleOne \/ DrainTimesOut \/ StartTransportClose \/ TransportClosed \/ FinishClose

WorkerStep(x) == WorkerCloses(x) \/ WorkerReturns(x)

Next ==
  \/ \E f \in Refreshes : BeginRefresh(f) \/ WorkerStep(f)
  \/ RefreshStep \/ AbandonRefresh
  \/ \E c \in Calls : CallStep(c) \/ AbandonCall(c) \/ \E f \in Refreshes : StartCall(c, f)
  \/ BeginClose \/ CloseStep \/ AbandonClose
  \/ ListChanged \/ ReplaceRegistered

\* Connecting, listing, calling and closing all have deadlines, and a future
\* that is polled goes on; nobody has to start, cancel or drop anything.
Fairness ==
  /\ WF_vars(RefreshStep)
  /\ WF_vars(CloseStep)
  /\ \A f \in Refreshes : WF_vars(WorkerStep(f))
  /\ \A c \in Calls : WF_vars(CallStep(c))

Spec == Init /\ [][Next]_vars /\ Fairness

-----------------------------------------------------------------------------
\* The control state stays within its domains.
TypeOK ==
  /\ rpc \in {"idle", "connecting", "listing", "gate", "retire", "taken", "closing"}
  /\ refresher \in Refreshes \cup {None}
  /\ epochOf \in [Refreshes -> 0..MaxEpoch] /\ epoch \in 0..MaxEpoch
  /\ generation \in [Refreshes -> Nat] /\ nextGeneration \in Nat \ {0}
  /\ retiring \in Refreshes \cup {None}
  /\ active \in Refreshes \cup {None}
  /\ \A b \in {bound, closed, invalidated, exhausted, failed} : b \in BOOLEAN
  /\ asked \subseteq Refreshes /\ tokens \subseteq Refreshes
  /\ pending \subseteq Refreshes /\ retired \subseteq Refreshes
  /\ published \subseteq Refreshes /\ opened \subseteq Refreshes
  /\ shut \subseteq Refreshes /\ closeBegun \subseteq Refreshes
  /\ worker \in [Refreshes -> {"none", "draining", "closing"}]
  /\ cpc \in [Calls -> {"idle", "queued", "gate", "admit", "transport", "leaving", "done"}]
  /\ adapter \in [Calls -> Refreshes \cup {None}]
  /\ server \in Calls \cup {None}
  /\ waiting \in Seq(Calls)
  /\ kpc \in {"idle", "schedule", "draining", "closing", "final"}
  /\ closes \in 0..MaxCloses
  /\ snapshot \subseteq Refreshes
  /\ answer \in {"Ok", "Err"}

\* The contexts whose listing began after the last notice.  An epoch that can
\* no longer be told from a later one counts for none.
Current == {f \in asked : ~exhausted /\ epochOf[f] = epoch}

\* What a call in flight runs on.
Using == [c \in Calls |-> IF cpc[c] \in {"transport", "leaving"} THEN adapter[c] ELSE None]

Promise == INSTANCE CatalogPromise WITH
  Contexts <- Refreshes, Nobody <- None, serving <- active, ended <- closed,
  current <- Current, using <- Using, closing <- closeBegun

\* The manager keeps its promise whatever the order of refreshes, notices,
\* calls and closes: no call is admitted on a list older than the last
\* notice, no catalog is replaced under a call in flight, no context is shut
\* down under one, and a manager bound to a registry is never switched by a
\* catalog-only refresh.
KeepsPromise == Promise!Spec

\* close answers Ok only when every context the transport ever connected has
\* been closed and no refresh can connect another.
OkMeansClosed == answer = "Ok" => opened \subseteq shut /\ tokens = {}

\* Every connected context is the manager's until it is closed: active,
\* pending, retained, with a worker, or in the hands of a refresh that still
\* holds its token.
NoContextLost ==
  \A f \in opened \ shut :
    \/ f = active
    \/ f \in pending \cup retired \cup Draining
    \/ rpc \in {"taken", "retire"} /\ refresher \in tokens /\ f \in {refresher, retiring}

\* The contexts kept beside the active one stay within the limit; closing
\* the manager adds the active one.
ContextsBounded ==
  Owned <= MaxRetired + (IF closed THEN 1 ELSE 0)

\* Contexts are neither lost nor hoarded, and an Ok leaves none open.
ContextsAccounted == NoContextLost /\ ContextsBounded /\ OkMeansClosed

\* However refreshes, calls and closes meet, the manager comes to rest: each
\* one that started returns and each drain worker ends, so nobody waits for
\* ever for the dispatch gate, the server's permit or a context's calls.
EveryoneReturns ==
  <>[](/\ refresher = None /\ kpc = "idle"
       /\ Draining = {}
       /\ \A c \in Calls : cpc[c] \in {"idle", "done"})

\* lib.rs:1491-1493 says that close can still reclaim a context whose refresh
\* was abandoned: a close leaves none of them pending.
CloseReclaims == [][kpc = "idle" /\ kpc' # "idle" => pending' \subseteq tokens']_vars
=============================================================================
