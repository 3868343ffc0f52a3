------------------------------- MODULE Approvals -------------------------------
(***************************************************************************)
(* The Tauri bridge of crates/llama-harness-tauri: the registry of running *)
(* executions by their public id, and the router that turns an approval    *)
(* request into a frontend event and waits for the answer.  An entry of    *)
(* `pending' is the sender of a one-shot channel; the waiting task holds   *)
(* the receiver and a guard that removes the entry when the task is done.  *)
(***************************************************************************)
EXTENDS Naturals, FiniteSets

CONSTANTS
    Tasks,        \* executions, each of which asks for one approval
    Names,        \* public run ids
    NamesOf,      \* the ids the host may give each execution
    MaxPending,   \* ApprovalRouterSettings::max_pending
    Nobody        \* no execution

ASSUME ApprovalAssumption ==
    /\ NamesOf \in [Tasks -> SUBSET Names]
    /\ MaxPending \in Nat \ {0}
    /\ Nobody \notin Tasks

Verdicts == {"granted", "denied", "cancelled", "timeout", "limit", "unseen"}

VARIABLES
    named,       \* the public id each execution was registered under
    registry,    \* RunRegistry::runs: the execution whose token an id cancels
    cancelled,   \* executions whose token is cancelled
    pending,     \* ApprovalRouter::pending
    channel,     \* the one-shot channel of each request
    asking,      \* where approve_with_context is for each execution
    verdict,     \* what it returned
    told,        \* answers respond() said it had delivered
    doomed       \* the requests a cancel_run in progress has still to remove

approvals == <<named, registry, cancelled, pending, channel, asking, verdict, told, doomed>>

-----------------------------------------------------------------------------
(* RunRegistry.                                                            *)

\* A public id belongs to one running execution at a time.
Register(t, name) ==
    /\ registry[name] = Nobody
    /\ registry' = [registry EXCEPT ![name] = t]
    /\ named' = [named EXCEPT ![t] = name]
    /\ UNCHANGED <<cancelled, pending, channel, asking, verdict, told, doomed>>

Deregister(t) ==
    /\ registry' = [registry EXCEPT ![named[t]] = Nobody]
    /\ UNCHANGED <<named, cancelled, pending, channel, asking, verdict, told, doomed>>

-----------------------------------------------------------------------------
(* approve_with_context.                                                   *)

\* The request enters the map, unless the map is full.
Ask(t) ==
    /\ asking[t] = "no"
    /\ IF Cardinality(pending) >= MaxPending
       THEN /\ asking' = [asking EXCEPT ![t] = "over"]
            /\ verdict' = [verdict EXCEPT ![t] = "limit"]
            /\ UNCHANGED <<pending, channel>>
       ELSE /\ asking' = [asking EXCEPT ![t] = "emitting"]
            /\ pending' = pending \union {t}
            /\ channel' = [channel EXCEPT ![t] = "open"]
            /\ UNCHANGED verdict
    /\ UNCHANGED <<named, registry, cancelled, told, doomed>>

\* The receiver is dropped with the future that held it; the guard has still
\* to take the lock of the map.
Leave(t, outcome) ==
    /\ asking' = [asking EXCEPT ![t] = "leaving"]
    /\ verdict' = [verdict EXCEPT ![t] = outcome]
    /\ channel' = [channel EXCEPT ![t] = "closed"]

\* The frontend receives the request, or emitting it fails.
EmitRequest(t) ==
    /\ asking[t] = "emitting"
    /\ \/ /\ asking' = [asking EXCEPT ![t] = "waiting"]
          /\ UNCHANGED <<verdict, channel>>
       \/ Leave(t, "unseen")
    /\ UNCHANGED <<named, registry, cancelled, pending, told, doomed>>

\* The outcomes a poll of the select! may find ready, if there were no deadline.
ReadyUndated(t) ==
    {o \in {"granted", "denied"} : channel[t] = o}
        \union (IF channel[t] = "dropped" \/ t \in cancelled THEN {"cancelled"} ELSE {})

\* The outcomes a poll of the select! may find ready, if a dropped sender were
\* taken for the answer the user did not give.
ReadyOpen(t) ==
    {o \in {"granted", "denied"} : channel[t] \in {o, "dropped"}}
        \union (IF t \in cancelled THEN {"cancelled"} ELSE {})
        \union {"timeout"}

\* The outcomes a poll of the select! may find ready: the branches are polled
\* in no particular order, and the five minutes may be over at any time.
Ready(t) ==
    {o \in {"granted", "denied"} : channel[t] = o}
        \union (IF channel[t] = "dropped" \/ t \in cancelled THEN {"cancelled"} ELSE {})
        \union {"timeout"}

Wake(t) ==
    /\ asking[t] = "waiting"
    /\ \E outcome \in Ready(t) : Leave(t, outcome)
    /\ UNCHANGED <<named, registry, cancelled, pending, told, doomed>>

\* The guard, if it were made only once the request had been emitted.
DropGuardLate(t) ==
    /\ asking[t] = "leaving"
    /\ asking' = [asking EXCEPT ![t] = "over"]
    /\ pending' = IF verdict[t] = "unseen" THEN pending ELSE pending \ {t}
    /\ UNCHANGED <<named, registry, cancelled, channel, verdict, told, doomed>>

\* PendingApprovalGuard::drop.
DropGuard(t) ==
    /\ asking[t] = "leaving"
    /\ asking' = [asking EXCEPT ![t] = "over"]
    /\ pending' = pending \ {t}
    /\ UNCHANGED <<named, registry, cancelled, channel, verdict, told, doomed>>

-----------------------------------------------------------------------------
(* The user and the host.                                                  *)

\* respond: the entry is consumed whoever asks, and the answer is delivered
\* if the receiver is still there.
Respond(t, answer) ==
    /\ t \in pending
    /\ pending' = pending \ {t}
    /\ IF channel[t] = "open"
       THEN /\ channel' = [channel EXCEPT ![t] = answer]
            /\ told' = told \union {<<t, answer>>}
       ELSE UNCHANGED <<channel, told>>
    /\ UNCHANGED <<named, registry, cancelled, asking, verdict, doomed>>

\* Dropping a sender wakes a receiver that has had no answer.
Dropped(S) ==
    [t \in Tasks |-> IF t \in S /\ channel[t] = "open" THEN "dropped" ELSE channel[t]]

\* RunRegistry::cancel.
CancelToken(name) ==
    /\ registry[name] \in Tasks
    /\ cancelled' = cancelled \union {registry[name]}
    /\ UNCHANGED <<named, registry, pending, channel, asking, verdict, told, doomed>>

\* cancel_run takes the requests of a run down under one lock ...
SnapshotRun(name) ==
    /\ doomed = {}
    /\ doomed' = {t \in pending : named[t] = name}
    /\ doomed' # {}
    /\ UNCHANGED <<named, registry, cancelled, pending, channel, asking, verdict, told>>

\* ... and removes each of them under another.
RemoveOne(t) ==
    /\ t \in doomed
    /\ doomed' = doomed \ {t}
    /\ pending' = pending \ {t}
    /\ channel' = Dropped({t} \intersect pending)
    /\ UNCHANGED <<named, registry, cancelled, asking, verdict, told>>

\* Shutdown: the registry's cancel_all, and the router's.
CancelEveryToken ==
    /\ cancelled' = cancelled \union {registry[name] : name \in
                                        {n \in Names : registry[n] \in Tasks}}
    /\ cancelled' # cancelled
    /\ UNCHANGED <<named, registry, pending, channel, asking, verdict, told, doomed>>

CancelEveryRequest ==
    /\ pending # {}
    /\ pending' = {}
    /\ channel' = Dropped(pending)
    /\ UNCHANGED <<named, registry, cancelled, asking, verdict, told, doomed>>

-----------------------------------------------------------------------------
InitApprovals ==
    /\ named = [t \in Tasks |-> Nobody]
    /\ registry = [name \in Names |-> Nobody]
    /\ cancelled = {}
    /\ pending = {}
    /\ channel = [t \in Tasks |-> "none"]
    /\ asking = [t \in Tasks |-> "no"]
    /\ verdict = [t \in Tasks |-> "none"]
    /\ told = {}
    /\ doomed = {}

\* What the frontend, the user and the host may do at any time.
Outside ==
    \/ \E t \in Tasks : \/ RemoveOne(t)
                        \/ \E answer \in {"granted", "denied"} : Respond(t, answer)
    \/ \E name \in Names : CancelToken(name) \/ SnapshotRun(name)
    \/ CancelEveryToken \/ CancelEveryRequest

\* What the task of an execution does of its own accord.
Waiting(t) == EmitRequest(t) \/ Wake(t) \/ DropGuard(t)

-----------------------------------------------------------------------------
ApprovalsTypeOK ==
    /\ \A t \in Tasks :
        /\ named[t] \in Names \union {Nobody}
        /\ channel[t] \in {"none", "open", "granted", "denied", "dropped", "closed"}
        /\ asking[t] \in {"no", "emitting", "waiting", "leaving", "over"}
        /\ verdict[t] \in Verdicts \union {"none"}
    /\ registry \in [Names -> Tasks \union {Nobody}]
    /\ cancelled \subseteq Tasks /\ doomed \subseteq Tasks
    /\ told \subseteq Tasks \X {"granted", "denied"}

\* An approval is granted or denied only by an answer of the user to that very
\* request, which respond() said it had delivered; no request is answered
\* twice; and silence, a lost surface, a cancellation and a full router never
\* grant anything.
AnswersAreTheUsers ==
    \A t \in Tasks :
        /\ verdict[t] \in {"granted", "denied"} => <<t, verdict[t]>> \in told
        /\ Cardinality({a \in told : a[1] = t}) <= 1

\* The router never holds more requests than it may, and none that nobody
\* waits for: whatever ends the wait, a slot is never lost.
NoSlotIsLost ==
    /\ Cardinality(pending) <= MaxPending
    /\ \A t \in pending : asking[t] \in {"emitting", "waiting", "leaving"}

\* Every request is decided by its user or not at all, and then forgotten.
ApprovalsSound == AnswersAreTheUsers /\ NoSlotIsLost

\* "Returns false for a stale, cancelled, or previously consumed request": an
\* answer that was delivered is the answer the run got.
DeliveredMeansTaken ==
    \A t \in Tasks : \A answer \in {"granted", "denied"} :
        (asking[t] = "over" /\ <<t, answer>> \in told) => verdict[t] = answer
=============================================================================
