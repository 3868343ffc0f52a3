------------------------------- MODULE Sidecar -------------------------------
(***************************************************************************)
(* The stdio sidecar (llama-harness-runtime): serve_stdio's command loop,  *)
(* one task per run, the table of pending host callbacks, and the bounded  *)
(* writer every frame passes through.  The host SDK at the other end of    *)
(* the pipes may answer late, twice, with the wrong kind or not at all,    *)
(* may stop reading, and may close either pipe.                            *)
(*                                                                         *)
(* The runtime is multi-threaded: run tasks and the command loop interleave*)
(* at every lock and at every send.  What a run does between callbacks is  *)
(* module DirectRun; here it emits events, asks its host, and ends.        *)
(***************************************************************************)
EXTENDS Naturals, Sequences, FiniteSets

CONSTANTS
  Runs,          \* the tasks the loop may spawn: a run, by its id, or a provider inquiry
  NoRun,
  Kinds,         \* callback kinds
  GuardedKinds,  \* the kinds awaited under await_guarded: policy and approval
  MaxRuns,       \* MAX_CONCURRENT_RUNS
  MaxPending,    \* MAX_PENDING_CALLBACKS
  MaxQueue,      \* MAX_QUEUE_DEPTH
  MaxAsks,       \* bound of the model: callbacks of each run
  MaxEvents,     \* bound of the model: events of each run
  MaxReplies     \* bound of the model: answers the host sends to one callback

ASSUME SidecarAssumption ==
  /\ NoRun \notin Runs
  /\ GuardedKinds \subseteq Kinds
  /\ MaxRuns \in Nat /\ MaxPending \in Nat /\ MaxQueue \in Nat
  /\ MaxAsks \in [Runs -> Nat] /\ MaxEvents \in [Runs -> Nat] /\ MaxReplies \in Nat

VARIABLES
  main,       \* where serve_stdio's loop is
  acking,     \* the run whose cancel_run the loop is about to acknowledge
  writer,     \* the writer task: "up" until stdout breaks
  queue,      \* its channel
  runPc,      \* where each run task is
  token,      \* which runs' cancellation tokens are cancelled
  sequence,   \* RunControl.sequence
  pending,    \* RuntimeState.callbacks: callback id -> kind
  ask,        \* the callback a run is requesting or awaiting
  asks,       \* callbacks a run has requested
  events,     \* events a run has emitted
  inbox,      \* runs whose oneshot receiver holds an answer
  received,   \* host: callback ids it has been sent
  replies,    \* host: answers sent to each callback
  accepted,   \* history: answers a run has been given to each callback
  numbered    \* history: the last numbered frame of a run that the channel accepted

mainVars == <<main, acking>>
channelVars == <<writer, queue, received, numbered>>
runVars == <<runPc, ask, asks, events, inbox>>
vars == <<main, acking, writer, queue, runPc, token, sequence, pending, ask, asks, events,
          inbox, received, replies, accepted, numbered>>

Ids == UNION {{r} \X (1..MaxAsks[r]) : r \in Runs}
NoId == <<NoRun, 0>>
NoAsk == [id |-> NoId, kind |-> "none", seq |-> 0]
NoFrame == [kind |-> "none", seq |-> 0]
Owner(i) == i[1]

Init ==
  /\ main = "serving" /\ acking = NoRun
  /\ writer = "up" /\ queue = << >>
  /\ runPc = [r \in Runs |-> "free"]
  /\ token = {}
  /\ sequence = [r \in Runs |-> 0]
  /\ pending = << >>
  /\ ask = [r \in Runs |-> NoAsk]
  /\ asks = [r \in Runs |-> 0]
  /\ events = [r \in Runs |-> 0]
  /\ inbox = {}
  /\ received = {}
  /\ replies = [i \in Ids |-> 0]
  /\ accepted = [i \in Ids |-> 0]
  /\ numbered = [r \in Runs |-> NoFrame]

-----------------------------------------------------------------------------
(* The channel.                                                            *)

\* try_send: refused when the channel is full or the writer has stopped.
CanSend == writer = "up" /\ Len(queue) < MaxQueue

Reply == [kind |-> "reply", id |-> NoId]

\* A frame that belongs to no run.
PutReply == CanSend /\ queue' = Append(queue, Reply) /\ UNCHANGED <<writer, received, numbered>>

\* A frame of run r; an acknowledgement carries no sequence number.
PutScoped(r, kind, id, seq) ==
  /\ CanSend
  /\ queue' = Append(queue, [kind |-> kind, id |-> id])
  /\ numbered' = IF kind = "ack" THEN numbered
                 ELSE [numbered EXCEPT ![r] = [kind |-> kind, seq |-> seq]]
  /\ UNCHANGED <<writer, received>>

Write ==
  /\ writer = "up" /\ queue # << >>
  /\ received' = IF Head(queue).kind = "callback" THEN received \cup {Head(queue).id} ELSE received
  /\ queue' = Tail(queue)
  /\ UNCHANGED <<mainVars, writer, runVars, token, sequence, pending, replies, accepted, numbered>>

\* The host closes the runtime's stdout: the writer task ends with an error.
StdoutBreaks ==
  /\ writer = "up" /\ main # "exited"
  /\ writer' = "down"
  /\ queue' = << >>
  /\ UNCHANGED <<mainVars, runVars, token, sequence, pending, received, replies, accepted, numbered>>

-----------------------------------------------------------------------------
(* The command loop.                                                       *)

\* The JoinSet, and the runs among its tasks: only those are in the table of runs.
Tasks == {r \in Runs : runPc[r] \notin {"free", "gone"}}
Registered == {r \in Tasks : runPc[r] # "inquiry"}

\* `?` on a refused send leaves serve_stdio: the tasks die with the process.
LoopFails == main' = "failed" /\ UNCHANGED <<acking, channelVars>>

\* Answer the command, or leave.
AnswerCommand ==
  \/ PutReply /\ UNCHANGED mainVars
  \/ ~CanSend /\ LoopFails

StartRun(r) ==
  /\ main = "serving" /\ runPc[r] = "free"
  /\ Cardinality(Registered) < MaxRuns
  /\ runPc' = [runPc EXCEPT ![r] = "spawned"]
  /\ \/ PutScoped(r, "ack", NoId, 0) /\ UNCHANGED mainVars
     \/ ~CanSend /\ LoopFails
  /\ UNCHANGED <<token, sequence, pending, ask, asks, events, inbox, replies, accepted>>

\* get_provider_health or get_model_inventory: a task with no token.
StartInquiry(r) ==
  /\ main = "serving" /\ runPc[r] = "free"
  /\ runPc' = [runPc EXCEPT ![r] = "inquiry"]
  /\ UNCHANGED <<mainVars, channelVars, token, sequence, pending, ask, asks, events, inbox,
                 replies, accepted>>

\* start_run at the run limit; ping; a malformed, unexpected or unknown command.
OtherCommand ==
  /\ main = "serving"
  /\ AnswerCommand
  /\ UNCHANGED <<runVars, token, sequence, pending, replies, accepted>>

\* cancel_run finds the run and cancels its token under the lock ...
CancelRun(r) ==
  /\ main = "serving" /\ r \in Registered
  /\ token' = token \cup {r}
  /\ main' = "acking" /\ acking' = r
  /\ UNCHANGED <<channelVars, runVars, sequence, pending, replies, accepted>>

\* ... and acknowledges it afterwards.
AckCancel ==
  /\ main = "acking"
  /\ \/ PutScoped(acking, "ack", NoId, 0) /\ main' = "serving" /\ acking' = NoRun
     \/ ~CanSend /\ LoopFails
  /\ UNCHANGED <<runVars, token, sequence, pending, replies, accepted>>

Without(f, i) == [j \in DOMAIN f \ {i} |-> f[j]]

\* MUTANT of Resolve: an answer of the wrong kind is refused without cancelling the run.
ResolveLenient(i, kind) ==
  LET r == Owner(i)
      awaited == runPc[r] = "await" /\ ask[r].id = i IN
  /\ pending' = Without(pending, i)
  /\ \/ /\ i \in DOMAIN pending /\ pending[i] = kind /\ awaited
        /\ inbox' = inbox \cup {r}
        /\ accepted' = [accepted EXCEPT ![i] = @ + 1]
        /\ UNCHANGED <<token, mainVars, channelVars>>
     \/ /\ ~(i \in DOMAIN pending /\ pending[i] = kind /\ awaited)
        /\ AnswerCommand
        /\ UNCHANGED <<token, inbox, accepted>>

\* MUTANT of Resolve: the entry is looked up and left in the table.
ResolveKeepingEntry(i, kind) ==
  LET r == Owner(i)
      awaited == runPc[r] = "await" /\ ask[r].id = i IN
  /\ UNCHANGED pending
  /\ \/ /\ i \in DOMAIN pending /\ pending[i] = kind /\ awaited
        /\ inbox' = inbox \cup {r}
        /\ accepted' = [accepted EXCEPT ![i] = @ + 1]
        /\ UNCHANGED <<token, mainVars, channelVars>>
     \/ /\ ~(i \in DOMAIN pending /\ pending[i] = kind /\ awaited)
        /\ AnswerCommand
        /\ UNCHANGED <<token, inbox, accepted>>

\* resolve: the entry goes first, so a second answer finds nothing.
Resolve(i, kind) ==
  LET r == Owner(i)
      awaited == runPc[r] = "await" /\ ask[r].id = i IN
  /\ pending' = Without(pending, i)
  /\ \/ /\ i \in DOMAIN pending /\ pending[i] = kind /\ awaited
        /\ inbox' = inbox \cup {r}
        /\ accepted' = [accepted EXCEPT ![i] = @ + 1]
        /\ UNCHANGED <<token, mainVars, channelVars>>
     \/ /\ i \in DOMAIN pending /\ ~(pending[i] = kind /\ awaited)
        /\ token' = token \cup {r}
        /\ AnswerCommand
        /\ UNCHANGED <<inbox, accepted>>
     \/ /\ i \notin DOMAIN pending
        /\ AnswerCommand
        /\ UNCHANGED <<token, inbox, accepted>>

\* tool_result, policy_decision or approval_decision.
Respond(i, kind) ==
  /\ main = "serving"
  /\ i \in received /\ replies[i] < MaxReplies
  /\ replies' = [replies EXCEPT ![i] = @ + 1]
  /\ Resolve(i, kind)
  /\ UNCHANGED <<runPc, ask, asks, events, sequence>>

Shutdown ==
  /\ main = "serving"
  /\ \/ PutReply /\ main' = "stopping" /\ UNCHANGED acking
     \/ ~CanSend /\ LoopFails
  /\ UNCHANGED <<runVars, token, sequence, pending, replies, accepted>>

Eof ==
  /\ main = "serving"
  /\ main' = "stopping"
  /\ UNCHANGED <<acking, channelVars, runVars, token, sequence, pending, replies, accepted>>

\* An unreadable or oversized frame, or a broken stdin.
ReadFails ==
  /\ main = "serving"
  /\ LoopFails
  /\ UNCHANGED <<runVars, token, sequence, pending, replies, accepted>>

\* MUTANT of CancelAll: shutdown waits for the runs without cancelling them.
CancelNone ==
  /\ main = "stopping"
  /\ main' = "joining"
  /\ UNCHANGED <<acking, channelVars, runVars, token, sequence, pending, replies, accepted>>

CancelAll ==
  /\ main = "stopping"
  /\ token' = token \cup Registered
  /\ main' = "joining"
  /\ UNCHANGED <<acking, channelVars, runVars, sequence, pending, replies, accepted>>

\* MUTANT of Join: the loop does not wait for the run tasks.
JoinAtOnce ==
  /\ main = "joining"
  /\ main' = "flushing"
  /\ UNCHANGED <<acking, channelVars, runVars, token, sequence, pending, replies, accepted>>

\* The JoinSet is empty: inquiries, which nothing cancels, are waited for too.
Join ==
  /\ main = "joining"
  /\ Tasks = {}
  /\ main' = "flushing"
  /\ UNCHANGED <<acking, channelVars, runVars, token, sequence, pending, replies, accepted>>

Exit ==
  /\ main = "flushing"
  /\ queue = << >>
  /\ main' = IF writer = "up" THEN "exited" ELSE "failed"
  /\ UNCHANGED <<acking, channelVars, runVars, token, sequence, pending, replies, accepted>>

-----------------------------------------------------------------------------
(* A run task.                                                             *)

Alive == main \notin {"failed", "exited"}
At(r, l) == Alive /\ runPc[r] = l
Goto(r, l) == runPc' = [runPc EXCEPT ![r] = l]
Draw(r) == sequence' = [sequence EXCEPT ![r] = @ + 1]

\* `let _ = state.send(..)`: a refused frame is dropped.
SendOrDrop(r, kind) ==
  \/ PutScoped(r, kind, NoId, sequence[r] + 1)
  \/ ~CanSend /\ UNCHANGED channelVars

RunStarts(r) ==
  /\ At(r, "spawned")
  /\ Draw(r)
  /\ SendOrDrop(r, "started")
  /\ Goto(r, "work")
  /\ UNCHANGED <<mainVars, token, pending, ask, asks, events, inbox, replies, accepted>>

\* An unsupported strategy.
RunRefused(r) ==
  /\ At(r, "spawned")
  /\ Draw(r)
  /\ SendOrDrop(r, "terminal")
  /\ Goto(r, "reported")
  /\ UNCHANGED <<mainVars, token, pending, ask, asks, events, inbox, replies, accepted>>

\* RuntimeEventSink.emit: an event outside the protocol still takes a number,
\* and a refused frame cancels every run.
Emit(r) ==
  /\ Alive /\ runPc[r] \in {"work", "ending"}
  /\ events[r] < MaxEvents[r]
  /\ events' = [events EXCEPT ![r] = @ + 1]
  /\ Draw(r)
  /\ \/ UNCHANGED <<channelVars, token>>
     \/ PutScoped(r, "event", NoId, sequence[r] + 1) /\ UNCHANGED token
     \/ ~CanSend /\ token' = token \cup Registered /\ UNCHANGED channelVars
  /\ UNCHANGED <<mainVars, runPc, pending, ask, asks, inbox, replies, accepted>>

\* request_callback: the number is drawn, then the limit tested under the lock.
\* A resource limit ends the run under every strategy (is_terminal_failure).
AskHost(r, kind) ==
  /\ At(r, "work")
  /\ Draw(r)
  /\ \/ /\ Cardinality(DOMAIN pending) >= MaxPending
        /\ Goto(r, "ending")
        /\ UNCHANGED <<ask, asks>>
     \/ /\ Cardinality(DOMAIN pending) < MaxPending
        /\ asks[r] < MaxAsks[r]
        /\ Goto(r, "checked")
        /\ asks' = [asks EXCEPT ![r] = @ + 1]
        /\ ask' = [ask EXCEPT ![r] = [id |-> <<r, asks[r] + 1>>, kind |-> kind,
                                      seq |-> sequence[r] + 1]]
  /\ UNCHANGED <<mainVars, channelVars, token, pending, events, inbox, replies, accepted>>

\* The lock is taken a second time for the insertion.
InsertAsk(r) ==
  /\ At(r, "checked")
  /\ pending' = [i \in DOMAIN pending \cup {ask[r].id} |->
                   IF i = ask[r].id THEN ask[r].kind ELSE pending[i]]
  /\ Goto(r, "inserted")
  /\ UNCHANGED <<mainVars, channelVars, token, sequence, ask, asks, events, inbox, replies, accepted>>

\* A refused frame is an error of the tool, policy or approval, which a plan may
\* recover from; the entry stays.
SendAsk(r) ==
  /\ At(r, "inserted")
  /\ \/ PutScoped(r, "callback", ask[r].id, ask[r].seq) /\ Goto(r, "await") /\ UNCHANGED ask
     \/ /\ ~CanSend
        /\ Goto(r, "ending") \/ Goto(r, "work")
        /\ ask' = [ask EXCEPT ![r] = NoAsk]
        /\ UNCHANGED channelVars
  /\ UNCHANGED <<mainVars, token, sequence, pending, asks, events, inbox, replies, accepted>>

\* The request is over; its entry is removed unless the future was dropped.
Settle(r, l, entries) ==
  /\ Goto(r, l)
  /\ ask' = [ask EXCEPT ![r] = NoAsk]
  /\ inbox' = inbox \ {r}
  /\ pending' = entries
  /\ UNCHANGED <<mainVars, channelVars, token, sequence, asks, events, replies, accepted>>

Answered(r) ==
  /\ At(r, "await") /\ r \in inbox /\ r \notin token
  /\ Settle(r, "work", Without(pending, ask[r].id))

\* A timeout is terminal under every strategy, where a refused frame is not.
CallbackTimesOut(r) ==
  /\ At(r, "await") /\ r \notin token
  /\ Settle(r, "ending", Without(pending, ask[r].id))

\* MUTANT of CancelledInside: a tool callback waits for its host alone.
NeverCancelledInside(r) ==
  /\ At(r, "await") /\ r \in token /\ r \in inbox
  /\ ask[r].kind \notin GuardedKinds
  /\ Settle(r, "ending", Without(pending, ask[r].id))

\* A tool's future is polled on after a cancellation and sees it too ...
CancelledInside(r) ==
  /\ At(r, "await") /\ r \in token
  /\ ask[r].kind \notin GuardedKinds
  /\ Settle(r, "ending", Without(pending, ask[r].id))

\* ... a guarded one is dropped where it stands.
Abandoned(r) ==
  /\ At(r, "await") /\ r \in token
  /\ ask[r].kind \in GuardedKinds
  /\ Settle(r, "ending", pending)

\* The run's own deadline drops the future, of a tool after its grace.
DeadlinePasses(r) ==
  /\ At(r, "await")
  /\ Settle(r, "ending", pending)

\* The strategy returns: an answer, a limit, an error, or a stop.
RunEnds(r) ==
  /\ At(r, "work")
  /\ Goto(r, "ending")
  /\ UNCHANGED <<mainVars, channelVars, token, sequence, pending, ask, asks, events, inbox,
                 replies, accepted>>

\* MUTANT of Report: the run is removed first, and next_sequence finds nothing.
ReportRemoved(r) ==
  /\ At(r, "ending")
  /\ \/ PutScoped(r, "terminal", NoId, 0)
     \/ ~CanSend /\ UNCHANGED channelVars
  /\ Goto(r, "reported")
  /\ UNCHANGED <<mainVars, token, sequence, pending, ask, asks, events, inbox, replies, accepted>>

Report(r) ==
  /\ At(r, "ending")
  /\ Draw(r)
  /\ SendOrDrop(r, "terminal")
  /\ Goto(r, "reported")
  /\ UNCHANGED <<mainVars, token, pending, ask, asks, events, inbox, replies, accepted>>

Remove(r) ==
  /\ At(r, "reported")
  /\ Goto(r, "gone")
  /\ UNCHANGED <<mainVars, channelVars, token, sequence, pending, ask, asks, events, inbox,
                 replies, accepted>>

\* The provider has answered, or its request has failed; a refused reply is dropped.
AnswerInquiry(r) ==
  /\ At(r, "inquiry")
  /\ PutReply \/ (~CanSend /\ UNCHANGED channelVars)
  /\ Goto(r, "gone")
  /\ UNCHANGED <<mainVars, token, sequence, pending, ask, asks, events, inbox, replies, accepted>>

-----------------------------------------------------------------------------
\* What the task of run r does without waiting for its host or its strategy.
TaskStep(r) ==
  \/ RunStarts(r)
  \/ RunRefused(r)
  \/ InsertAsk(r)
  \/ SendAsk(r)
  \/ Answered(r)
  \/ CancelledInside(r)
  \/ Abandoned(r)
  \/ Report(r)
  \/ Remove(r)

\* What the strategy of run r decides, and the clocks.
StrategyStep(r) ==
  \/ Emit(r)
  \/ \E kind \in Kinds : AskHost(r, kind)
  \/ CallbackTimesOut(r)
  \/ DeadlinePasses(r)
  \/ RunEnds(r)

HostStep ==
  \/ \E r \in Runs : StartRun(r) \/ StartInquiry(r) \/ CancelRun(r)
  \/ OtherCommand
  \/ \E i \in Ids, kind \in Kinds : Respond(i, kind)
  \/ Shutdown
  \/ Eof
  \/ ReadFails
  \/ StdoutBreaks

LoopStep == AckCancel \/ CancelAll \/ Join \/ Exit

Next ==
  \/ HostStep
  \/ LoopStep
  \/ Alive /\ Write
  \/ \E r \in Runs : TaskStep(r) \/ StrategyStep(r) \/ AnswerInquiry(r)

Safe == Init /\ [][Next]_vars

(* The executor polls every task and the loop; a run that is cancelled     *)
(* while it works is ended by its strategy (StoppedRunEnds of DirectRun),  *)
(* an inquiry by the timeout of the provider's HTTP client.                *)
Spec ==
  /\ Safe
  /\ WF_vars(LoopStep)
  /\ \A r \in Runs : /\ WF_vars(TaskStep(r)) /\ WF_vars(AnswerInquiry(r))
                     /\ WF_vars(r \in token /\ RunEnds(r))

-----------------------------------------------------------------------------
RunPc == {"free", "inquiry", "spawned", "work", "checked", "inserted", "await", "ending", "reported", "gone"}
Frame == {"reply", "ack", "started", "event", "callback", "terminal"}

TypeOK ==
  /\ main \in {"serving", "acking", "stopping", "joining", "flushing", "exited", "failed"}
  /\ acking \in Runs \cup {NoRun}
  /\ writer \in {"up", "down"}
  /\ queue \in Seq([kind : Frame, id : Ids \cup {NoId}]) /\ Len(queue) <= MaxQueue
  /\ runPc \in [Runs -> RunPc]
  /\ token \subseteq Runs /\ inbox \subseteq Runs
  /\ sequence \in [Runs -> Nat]
  /\ DOMAIN pending \subseteq Ids /\ \A i \in DOMAIN pending : pending[i] \in Kinds
  /\ \A r \in Runs : ask[r] = NoAsk \/ ask[r] \in [id : Ids, kind : Kinds, seq : Nat]
  /\ asks \in [Runs -> Nat] /\ events \in [Runs -> Nat]
  /\ received \subseteq Ids
  /\ replies \in [Ids -> Nat] /\ accepted \in [Ids -> Nat]
  /\ numbered \in [Runs -> [kind : Frame \cup {"none"}, seq : Nat]]

(* A run that awaits its host can still be woken: its callback is in the   *)
(* table, or an answer is in its receiver, or its token is cancelled.      *)
(* Whatever resolve removes, it hands over or turns into a cancellation.   *)
NeverStranded ==
  \A r \in Runs : runPc[r] = "await" =>
    ask[r].id \in DOMAIN pending \/ r \in inbox \/ r \in token

(* docs/protocol.md: the runtime accepts each callback response at most    *)
(* once, however often and however late the host answers.                  *)
AcceptedAtMostOnce == \A i \in Ids : accepted[i] <= 1

(* serve_stdio returns success only when no task is left, of a run or of   *)
(* an inquiry, and every frame the channel accepted has been written.      *)
ExitIsClean == main = "exited" => Tasks = {} /\ queue = << >>

(* A question to the host is answered once or given up, never forgotten,   *)
(* and what a run was told to send is written before a clean exit.         *)
AnswersHandedOver == NeverStranded /\ AcceptedAtMostOnce /\ ExitIsClean

(* The numbered frames of a run carry increasing positive numbers, and its *)
(* terminal frame is the last of them: also when the channel refuses       *)
(* frames, and when the run is cancelled while it asks its host.           *)
Sequenced ==
  [][\A r \in Runs : numbered'[r] # numbered[r] =>
       numbered[r].seq < numbered'[r].seq /\ numbered[r].kind # "terminal"]_vars

(* compatibility/v1.md: concurrent runs are capped.                        *)
RunsCapped == Cardinality(Registered) <= MaxRuns

(* A cancelled run ends although its host never answers, unless the        *)
(* process goes first.                                                     *)
CancelledRunEnds == \A r \in Runs : r \in token ~> runPc[r] = "gone" \/ ~Alive

(* Shutdown and end of input end the process if the host keeps reading     *)
(* what it is sent, or closes the pipe.                                    *)
ShutdownEnds == WF_vars(Alive /\ Write) => (main = "stopping" ~> ~Alive)

-----------------------------------------------------------------------------
(* What the documents say and the code does not do.                        *)

(* compatibility/v1.md: pending callbacks are capped at                    *)
(* MAX_PENDING_CALLBACKS.                                                  *)
CallbacksCapped == Cardinality(DOMAIN pending) <= MaxPending

(* docs/protocol.md: the terminal message is the last run-scoped one.  A   *)
(* cancel_run is acknowledged after the run's terminal frame went out.     *)
TerminalIsLast ==
  [][main = "acking" /\ numbered[acking].kind = "terminal" => Len(queue') <= Len(queue)]_vars

(* docs/protocol.md: the messages of a run that is over end with a         *)
(* terminal one, as long as there is a writer to send it to.               *)
TerminalIsSent ==
  \A r \in Runs : runPc[r] = "gone" /\ writer = "up" => numbered[r].kind = "terminal"
=============================================================================
