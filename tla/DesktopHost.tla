------------------------------ MODULE DesktopHost ------------------------------
(***************************************************************************)
(* An embedded desktop application: each run registers itself, emits its   *)
(* events to the trace store as it goes, asks the user for one approval on *)
(* the way, and completes.  The runner's own steps are those of DirectRun; *)
(* here they are only the places where the two components meet.            *)
(***************************************************************************)
EXTENDS Approvals, TraceStore

CONSTANT Scenes
    \* Applications to check: which runs there are, whose events are kept in the
    \* store and whose policy asks for approval, the schema of the database and
    \* how much else happens to it (a bound).

VARIABLES
    at,     \* where each run is
    scene   \* the application

desktop == <<approvals, store, at, scene>>

ASSUME SceneAssumption ==
    /\ Tasks = Execs /\ Names \subseteq Runs
    /\ Scenes \subseteq [runs : SUBSET Tasks, kept : SUBSET Tasks, asking : SUBSET Tasks,
                         schema : {1, 3}, events : Nat]

Moves(t, from, to) ==
    /\ at[t] = from
    /\ at' = [at EXCEPT ![t] = to]

\* RunRegistry::register; a public id in use is refused.
Start(t) ==
    \E name \in NamesOf[t] :
        /\ Open(App)
        /\ \/ Moves(t, "new", "started") /\ Register(t, name)
           \/ registry[name] # Nobody /\ Moves(t, "new", "done") /\ UNCHANGED approvals
        /\ UNCHANGED store

\* An event of a run, which the host may have given another sink.
Record(t, what) ==
    IF t \in scene.kept THEN Emit(t, named[t], what) ELSE UNCHANGED store

Recorded(t) == report[t] = "none"

\* The run announces itself, and the request it is about to make.
Announce(t) ==
    /\ Moves(t, "started", "asking")
    /\ Record(t, "asked")
    /\ UNCHANGED approvals

Request(t) ==
    /\ t \in scene.asking
    /\ Moves(t, "asking", "asked") /\ Recorded(t)
    /\ Ask(t)
    /\ UNCHANGED store

\* Most calls need no approval: they are dispatched and the run ends.
Dispatch(t) ==
    /\ t \notin scene.asking
    /\ Moves(t, "asking", "decided")
    /\ Record(t, "answered")
    /\ UNCHANGED approvals

\* What follows a decision, if only a denial kept the call from its dispatch.
ProceedUnlessDenied(t) ==
    /\ asking[t] = "over"
    /\ \/ /\ t \notin cancelled
          /\ Moves(t, "asked", "decided")
          /\ Record(t, IF verdict[t] = "denied" THEN "rejected" ELSE "dispatched")
       \/ /\ t \in cancelled
          /\ Moves(t, "asked", "ended")
          /\ Record(t, "finished")
    /\ UNCHANGED approvals

\* A decision is followed by the call's dispatch or its rejection; an error
\* ends the run.
Proceed(t) ==
    /\ asking[t] = "over"
    /\ \/ /\ verdict[t] \in {"granted", "denied"} /\ t \notin cancelled
          /\ Moves(t, "asked", "decided")
          /\ Record(t, IF verdict[t] = "granted" THEN "dispatched" ELSE "rejected")
       \/ /\ verdict[t] \notin {"granted", "denied"} \/ t \in cancelled
          /\ Moves(t, "asked", "ended")
          /\ Record(t, "finished")
    /\ UNCHANGED approvals

Finish(t) ==
    /\ Moves(t, "decided", "ended")
    /\ Record(t, "finished")
    /\ UNCHANGED approvals

\* RunRegistry::complete, once the runner has returned.
Unregister(t) ==
    /\ Moves(t, "ended", "done") /\ Recorded(t)
    /\ Deregister(t)
    /\ UNCHANGED store

RunStep(t) ==
    \/ Start(t) \/ Announce(t) \/ Request(t) \/ Dispatch(t)
    \/ Proceed(t) \/ Finish(t) \/ Unregister(t)
    \/ Waiting(t) /\ UNCHANGED <<store, at>>

Init ==
    /\ scene \in Scenes
    /\ InitApprovals /\ InitStore(scene.schema, scene.events)
    /\ at = [t \in Tasks |-> IF t \in scene.runs THEN "new" ELSE "done"]

Next ==
    /\ \/ \E t \in Tasks : RunStep(t)
       \/ scene.asking # {} /\ Outside /\ UNCHANGED <<store, at>>
       \/ StoreStep /\ UNCHANGED <<approvals, at>>
    /\ UNCHANGED scene

\* A run's own thread: its steps, and the recording of what it appended, which
\* is part of the call that emits an event.
Thread(t) ==
    /\ \/ RunStep(t)
       \/ /\ RecordSuccess(t) \/ CountFailure(t) \/ MarkUnhealthy(t)
          /\ UNCHANGED <<approvals, at>>
    /\ UNCHANGED scene

\* The runtime polls every task that can move, and the five minutes pass; the
\* user, the frontend's surface and the host may do nothing.
Fairness == \A t \in Tasks : WF_desktop(Thread(t))

Spec == Init /\ [][Next]_desktop /\ Fairness

-----------------------------------------------------------------------------
TypeOK ==
    /\ ApprovalsTypeOK /\ StoreTypeOK
    /\ at \in [Tasks -> {"new", "started", "asking", "asked", "decided", "ended", "done"}]

\* The trace tells the truth about the approval: what it says was dispatched
\* the user granted, and what it says was rejected the user denied.
TraceTellsTruth ==
    \A r \in rows : /\ r.what = "dispatched" => <<r.exec, "granted">> \in told
                    /\ r.what = "rejected" => <<r.exec, "denied">> \in told

\* A run that started comes to its end and frees its name and its slot though
\* no user answers, no frontend listens and every append is refused.
EveryRunEnds ==
    <>[](\A t \in Tasks : at[t] \in {"new", "done"} /\ t \notin pending
                            /\ \A name \in Names : registry[name] # t)
=============================================================================
