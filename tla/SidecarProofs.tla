---------------------------- MODULE SidecarProofs ----------------------------
(***************************************************************************)
(* Theorems about Sidecar, for every set of runs and callback kinds and    *)
(* every limit on runs, pending callbacks and queued frames.               *)
(***************************************************************************)
EXTENDS Sidecar, FiniteSetTheorems, TLAPS

-----------------------------------------------------------------------------
(* The inductive invariant *)

\* The steps between drawing a number for a callback and its answer.
Holding == {"checked", "inserted", "await"}

Domains ==
  /\ runPc \in [Runs -> RunPc]
  /\ sequence \in [Runs -> Nat]
  /\ asks \in [Runs -> Nat] /\ \A r \in Runs : asks[r] <= MaxAsks[r]
  /\ ask \in [Runs -> [id : Ids \cup {NoId}, kind : Kinds \cup {"none"}, seq : Nat]]
  /\ numbered \in [Runs -> [kind : Frame \cup {"none"}, seq : Nat]]
  /\ accepted \in [Ids -> Nat]

\* A run holds one callback at a time, its latest, and once the entry was
\* inserted it is in the table, answered, or its removal cancelled the run.
AskInv ==
  \A r \in Runs :
    /\ runPc[r] \in Holding => ask[r].id = <<r, asks[r]>> /\ ask[r].id \in Ids
    /\ runPc[r] \in {"inserted", "await"} =>
         ask[r].id \in DOMAIN pending \/ r \in inbox \/ r \in token
    /\ runPc[r] = "checked" => accepted[ask[r].id] = 0

\* An entry of the table was not answered yet, nor was an id not yet asked.
AcceptedInv ==
  \A i \in Ids :
    /\ accepted[i] <= 1
    /\ i \in DOMAIN pending => accepted[i] = 0
    /\ i[2] > asks[i[1]] => accepted[i] = 0

\* The number of a callback is drawn before its frame is sent, and no frame of
\* the run goes out in between.
SequenceInv ==
  \A r \in Runs :
    /\ numbered[r].seq <= sequence[r]
    /\ runPc[r] \in {"checked", "inserted"} =>
         numbered[r].seq < ask[r].seq /\ ask[r].seq <= sequence[r]
    /\ numbered[r].kind = "terminal" => runPc[r] \in {"reported", "gone"}

\* After the join no task is left, and none can be started.
LoopInv ==
  /\ main \in {"flushing", "exited"} => Tasks = {}
  /\ main = "exited" => queue = << >>

CapInv == IsFiniteSet(Registered) /\ Cardinality(Registered) <= MaxRuns

IInv == Domains /\ AskInv /\ AcceptedInv /\ SequenceInv /\ LoopInv

-----------------------------------------------------------------------------
LEMMA IdsArePairs ==
  /\ \A i \in Ids : i[1] \in Runs /\ i[2] \in 1 .. MaxAsks[i[1]] /\ i = <<i[1], i[2]>>
  /\ \A r \in Runs, n \in Nat : <<r, n>> \in Ids <=> n \in 1 .. MaxAsks[r]
BY SidecarAssumption DEF Ids

LEMMA InitKeeps == Init => IInv
<1> SUFFICES ASSUME Init PROVE IInv
  OBVIOUS
<1> USE SidecarAssumption DEF Init
<1>1. Domains
  BY DEF Domains, RunPc, NoAsk, NoFrame
<1>2. AskInv /\ SequenceInv /\ LoopInv
  BY DEF AskInv, Holding, SequenceInv, LoopInv, NoFrame
<1>3. AcceptedInv
  BY DEF AcceptedInv
<1> QED BY <1>1, <1>2, <1>3 DEF IInv

\* The command loop outside Resolve leaves the runs alone, but for starting one.
LoopMoves ==
  \/ \E r \in Runs : StartRun(r) \/ StartInquiry(r) \/ CancelRun(r)
  \/ OtherCommand \/ AckCancel \/ Shutdown \/ Eof \/ ReadFails
  \/ CancelAll \/ Join \/ Exit \/ StdoutBreaks \/ (Alive /\ Write)

LEMMA LoopKeeps ==
  ASSUME IInv, LoopMoves
  PROVE  IInv'
<1> USE DEF IInv
<1>1. /\ UNCHANGED <<sequence, pending, ask, asks, events, inbox, accepted, numbered>>
      /\ token \subseteq token'
      /\ \/ runPc' = runPc
         \/ \E r \in Runs, l \in {"spawned", "inquiry"} :
              main = "serving" /\ runPc[r] = "free" /\ runPc' = [runPc EXCEPT ![r] = l]
  BY DEF LoopMoves, StartRun, StartInquiry, CancelRun, OtherCommand, AckCancel, Shutdown, Eof, ReadFails,
     CancelAll, Join, Exit, StdoutBreaks, Write, AnswerCommand, LoopFails, PutReply, PutScoped,
     channelVars, runVars, mainVars
<1>2. Domains'
  BY <1>1 DEF Domains, RunPc
<1>3. \A r \in Runs : runPc'[r] = runPc[r] \/ (runPc[r] = "free" /\ runPc'[r] \in {"spawned", "inquiry"})
  BY <1>1 DEF Domains
<1>4. AskInv'
  BY <1>1, <1>3 DEF AskInv, Holding
<1>5. AcceptedInv'
  BY <1>1 DEF AcceptedInv
<1>6. SequenceInv'
  BY <1>1, <1>3 DEF SequenceInv
<1>7. LoopInv'
  BY <1>1 DEF LoopInv, Tasks, Alive, Domains, LoopMoves, StartRun, StartInquiry, CancelRun,
     OtherCommand, AckCancel, Shutdown, Eof, ReadFails, CancelAll, Join, Exit, StdoutBreaks, Write, AnswerCommand, LoopFails,
     PutReply, PutScoped, channelVars, runVars, mainVars
<1> QED BY <1>2, <1>4, <1>5, <1>6, <1>7

\* resolve takes the entry out of the table and either hands the answer to the
\* run that awaits it or cancels that run.
LEMMA RespondKeeps ==
  ASSUME IInv, NEW i \in Ids, NEW kind \in Kinds, Respond(i, kind)
  PROVE  IInv'
<1> USE SidecarAssumption DEF IInv
<1> DEFINE r == Owner(i)
<1>1. r \in Runs /\ r = i[1]
  BY IdsArePairs DEF Owner
<1>2. /\ UNCHANGED <<runPc, ask, asks, events, sequence, numbered>>
      /\ token \subseteq token' /\ inbox \subseteq inbox' /\ main = "serving"
      /\ DOMAIN pending' = DOMAIN pending \ {i}
      /\ \/ accepted' = accepted /\ (i \in DOMAIN pending => r \in token')
         \/ /\ i \in DOMAIN pending /\ runPc[r] = "await" /\ ask[r].id = i /\ r \in inbox'
            /\ accepted' = [accepted EXCEPT ![i] = @ + 1]
  BY DEF Respond, Resolve, Without, AnswerCommand, LoopFails, PutReply, channelVars, mainVars
<1>3. main' # "exited" /\ main' # "flushing"
  BY <1>2 DEF Respond, Resolve, AnswerCommand, LoopFails, PutReply, mainVars
<1>4. Domains'
  BY <1>2 DEF Domains
<1>5. AskInv'
  <2> SUFFICES ASSUME NEW s \in Runs
               PROVE  /\ runPc'[s] \in Holding => ask'[s].id = <<s, asks'[s]>> /\ ask'[s].id \in Ids
                      /\ runPc'[s] \in {"inserted", "await"} =>
                           ask'[s].id \in DOMAIN pending' \/ s \in inbox' \/ s \in token'
                      /\ runPc'[s] = "checked" => accepted'[ask'[s].id] = 0
    BY DEF AskInv
  <2>1. runPc'[s] \in Holding => ask'[s].id = <<s, asks'[s]>> /\ ask'[s].id \in Ids
    BY <1>2 DEF AskInv
  <2>2. ASSUME runPc'[s] \in {"inserted", "await"}
        PROVE  ask'[s].id \in DOMAIN pending' \/ s \in inbox' \/ s \in token'
    <3>1. ask[s].id = <<s, asks[s]>>
      BY <1>2, <2>2 DEF AskInv, Holding
    <3>2. ask[s].id = i => s = r
      BY <1>1, <3>1
    <3> QED BY <1>2, <2>2, <3>2 DEF AskInv
  <2>3. ASSUME runPc'[s] = "checked" PROVE accepted'[ask'[s].id] = 0
    <3>1. ask[s].id = <<s, asks[s]>> /\ ask[s].id \in Ids /\ accepted[ask[s].id] = 0
      BY <1>2, <2>3 DEF AskInv, Holding
    <3>2. ask[s].id = i => s = r
      BY <1>1, <3>1
    <3> QED BY <1>2, <2>3, <3>1, <3>2 DEF Domains
  <2> QED BY <2>1, <2>2, <2>3
<1>6. AcceptedInv'
  <2>1. ASSUME ask[r].id = i, runPc[r] = "await" PROVE i[2] = asks[i[1]]
    BY <1>1, <2>1 DEF AskInv, Holding
  <2> SUFFICES ASSUME NEW j \in Ids
               PROVE  /\ accepted'[j] <= 1
                      /\ j \in DOMAIN pending' => accepted'[j] = 0
                      /\ j[2] > asks'[j[1]] => accepted'[j] = 0
    BY DEF AcceptedInv
  <2>2. CASE j = i
    <3>1. asks[i[1]] \in Nat
      BY <1>1 DEF Domains
    <3> QED BY <1>2, <2>1, <2>2, <3>1 DEF AcceptedInv, Domains
  <2>3. CASE j # i
    BY <1>2, <2>3 DEF AcceptedInv, Domains
  <2> QED BY <2>2, <2>3
<1>7. SequenceInv' /\ LoopInv'
  BY <1>2, <1>3 DEF SequenceInv, LoopInv
<1> QED BY <1>4, <1>5, <1>6, <1>7

\* A run task moves its own run; an insertion or a removal concerns its own
\* entry of the table.
RunMoves(r) ==
  \/ RunStarts(r) \/ RunRefused(r) \/ Emit(r) \/ RunEnds(r) \/ Report(r) \/ Remove(r)
  \/ AnswerInquiry(r)

LEMMA OwnRunOnly ==
  ASSUME IInv, NEW r \in Runs, TaskStep(r) \/ StrategyStep(r) \/ AnswerInquiry(r)
  PROVE  /\ UNCHANGED <<accepted, replies>> /\ token \subseteq token' /\ Alive
         /\ \A s \in Runs : s # r =>
              /\ runPc'[s] = runPc[s] /\ ask'[s] = ask[s] /\ asks'[s] = asks[s]
              /\ sequence'[s] = sequence[s] /\ numbered'[s] = numbered[s]
              /\ s \in inbox => s \in inbox'
         /\ main' = main
         /\ runPc[r] \notin {"free", "gone"} /\ (runPc[r] = "inquiry" => runPc'[r] = "gone")
BY SMTT(30) DEF IInv, Domains, TaskStep, StrategyStep, RunStarts, RunRefused, Emit, RunEnds, Report, Remove,
   AnswerInquiry, PutReply, InsertAsk, SendAsk, Answered, CancelledInside, Abandoned, AskHost, CallbackTimesOut,
   DeadlinePasses, Settle, At, Goto, Draw, SendOrDrop, PutScoped, channelVars, mainVars, Alive

LEMMA RunKeeps ==
  ASSUME IInv, NEW r \in Runs, RunMoves(r)
  PROVE  IInv'
<1> USE SidecarAssumption DEF IInv
<1>1. /\ UNCHANGED <<accepted, pending, ask, asks, inbox>> /\ token \subseteq token' /\ Alive /\ main' = main
      /\ \E l \in {"work", "ending", "reported", "gone"} : runPc' = [runPc EXCEPT ![r] = l]
      /\ runPc[r] \in {"inquiry", "spawned", "work", "ending", "reported"}
      /\ runPc[r] = "reported" => runPc'[r] = "gone"
  BY SMTT(60) DEF RunMoves, RunStarts, RunRefused, Emit, RunEnds, Report, Remove, AnswerInquiry,
     PutReply, At, Goto, Draw, SendOrDrop, PutScoped, channelVars, mainVars, Alive, Domains
<1>2. /\ sequence' \in {sequence, [sequence EXCEPT ![r] = @ + 1]}
      /\ numbered' = numbered \/ \E k \in {"started", "event", "terminal"} :
           /\ numbered' = [numbered EXCEPT ![r] = [kind |-> k, seq |-> sequence[r] + 1]]
           /\ sequence' = [sequence EXCEPT ![r] = @ + 1]
           /\ k = "terminal" => runPc'[r] = "reported"
  BY SMTT(60) DEF RunMoves, RunStarts, RunRefused, Emit, RunEnds, Report, Remove, AnswerInquiry,
     PutReply, At, Goto, Draw, SendOrDrop, PutScoped, channelVars, Domains
<1>3. Domains'
  <2>1. runPc' \in [Runs -> RunPc]
    BY <1>1 DEF Domains, RunPc
  <2>2. sequence' \in [Runs -> Nat]
    BY <1>2 DEF Domains
  <2>3. ASSUME NEW k \in {"started", "event", "terminal"},
               numbered' = [numbered EXCEPT ![r] = [kind |-> k, seq |-> sequence[r] + 1]]
        PROVE  numbered' \in [Runs -> [kind : Frame \cup {"none"}, seq : Nat]]
    <3>1. [kind |-> k, seq |-> sequence[r] + 1] \in [kind : Frame \cup {"none"}, seq : Nat]
      BY DEF Domains, Frame
    <3> QED BY <2>3, <3>1 DEF Domains
  <2>4. numbered' \in [Runs -> [kind : Frame \cup {"none"}, seq : Nat]]
    BY <1>2, <2>3 DEF Domains
  <2> QED BY <1>1, <2>1, <2>2, <2>4 DEF Domains
<1>4. AskInv' /\ AcceptedInv'
  BY <1>1 DEF AskInv, AcceptedInv, Holding, Domains
<1>5. SequenceInv'
  BY <1>1, <1>2 DEF SequenceInv, Domains
<1>6. LoopInv'
  BY <1>1 DEF LoopInv, Tasks, Alive
<1> QED BY <1>3, <1>4, <1>5, <1>6

\* request_callback draws the number and names the callback.
LEMMA AskKeeps ==
  ASSUME IInv, NEW r \in Runs, NEW kind \in Kinds, AskHost(r, kind)
  PROVE  IInv'
<1> USE SidecarAssumption DEF IInv
<1>1. /\ UNCHANGED <<accepted, pending, inbox, token, numbered, main>> /\ Alive
      /\ runPc[r] = "work" /\ sequence' = [sequence EXCEPT ![r] = @ + 1]
      /\ \/ runPc' = [runPc EXCEPT ![r] = "ending"] /\ UNCHANGED <<ask, asks>>
         \/ /\ runPc' = [runPc EXCEPT ![r] = "checked"]
            /\ asks[r] < MaxAsks[r]
            /\ asks' = [asks EXCEPT ![r] = @ + 1]
            /\ ask' = [ask EXCEPT ![r] = [id |-> <<r, asks[r] + 1>>, kind |-> kind,
                                          seq |-> sequence[r] + 1]]
  BY DEF AskHost, At, Goto, Draw, channelVars, mainVars
<1>2. /\ <<r, asks[r] + 1>> \in Ids <=> asks[r] + 1 \in 1 .. MaxAsks[r]
      /\ asks[r] \in Nat /\ sequence[r] \in Nat /\ MaxAsks[r] \in Nat
  BY IdsArePairs DEF Domains
<1>3. Domains'
  <2>1. runPc' \in [Runs -> RunPc]
    <3>1. \E l \in RunPc : runPc' = [runPc EXCEPT ![r] = l]
      BY <1>1 DEF RunPc
    <3> QED BY <3>1 DEF Domains
  <2>4. sequence' \in [Runs -> Nat]
    BY <1>1 DEF Domains
  <2>2. asks' \in [Runs -> Nat] /\ \A s \in Runs : asks'[s] <= MaxAsks[s]
    <3>1. asks' = asks \/ (asks[r] < MaxAsks[r] /\ asks' = [asks EXCEPT ![r] = @ + 1])
      BY <1>1
    <3>2. asks' \in [Runs -> Nat]
      BY <3>1 DEF Domains
    <3>3. ASSUME NEW s \in Runs PROVE asks'[s] <= MaxAsks[s]
      <4>1. asks[s] \in Nat /\ MaxAsks[s] \in Nat /\ asks[s] <= MaxAsks[s]
        BY SidecarAssumption DEF Domains
      <4>2. asks'[s] = asks[s] \/ (s = r /\ asks[r] < MaxAsks[r] /\ asks'[s] = asks[s] + 1)
        BY <3>1 DEF Domains
      <4> QED BY <4>1, <4>2
    <3> QED BY <3>2, <3>3
  <2>3. ask' \in [Runs -> [id : Ids \cup {NoId}, kind : Kinds \cup {"none"}, seq : Nat]]
    <3>1. CASE ask' = ask
      BY <3>1 DEF Domains
    <3>2. CASE asks[r] < MaxAsks[r] /\ ask' = [ask EXCEPT ![r] = [id |-> <<r, asks[r] + 1>>,
                                                  kind |-> kind, seq |-> sequence[r] + 1]]
      <4>1. <<r, asks[r] + 1>> \in Ids /\ sequence[r] + 1 \in Nat
        BY <1>2, <3>2
      <4> QED BY <3>2, <4>1 DEF Domains
    <3> QED BY <1>1, <3>1, <3>2
  <2> QED BY <1>1, <2>1, <2>2, <2>3, <2>4 DEF Domains
<1>4. ASSUME runPc'[r] = "checked" PROVE ask'[r].id \in Ids /\ accepted[ask'[r].id] = 0
  <2>1. asks[r] < MaxAsks[r] /\ ask'[r].id = <<r, asks[r] + 1>>
    BY <1>1, <1>4 DEF Domains
  <2>3. <<r, asks[r] + 1>> \in Ids
    BY <1>2, <2>1
  <2>2. <<r, asks[r] + 1>>[1] = r /\ <<r, asks[r] + 1>>[2] > asks[r]
    BY <1>2
  <2> QED BY <2>1, <2>2, <2>3 DEF AcceptedInv
<1>5. AskInv'
  BY <1>1, <1>4 DEF AskInv, Holding, Domains
<1>6. AcceptedInv'
  BY <1>1, IdsArePairs, SMTT(30) DEF AcceptedInv, Domains
<1>7. SequenceInv'
  BY <1>1 DEF SequenceInv, Domains
<1>8. LoopInv'
  BY <1>1 DEF LoopInv, Tasks, Alive
<1> QED BY <1>3, <1>5, <1>6, <1>7, <1>8

LEMMA InsertKeeps ==
  ASSUME IInv, NEW r \in Runs, InsertAsk(r)
  PROVE  IInv'
<1> USE SidecarAssumption DEF IInv
<1>1. /\ UNCHANGED <<accepted, inbox, token, numbered, main, ask, asks, sequence>> /\ Alive
      /\ runPc[r] = "checked" /\ runPc' = [runPc EXCEPT ![r] = "inserted"]
      /\ DOMAIN pending' = DOMAIN pending \cup {ask[r].id}
  BY DEF InsertAsk, At, Goto, channelVars, mainVars
<1>2. Domains'
  BY <1>1 DEF Domains, RunPc
<1>3. AskInv'
  BY <1>1 DEF AskInv, Holding, Domains
<1>4. AcceptedInv'
  BY <1>1 DEF AcceptedInv, AskInv
<1>5. SequenceInv'
  BY <1>1 DEF SequenceInv, Domains
<1>6. LoopInv'
  BY <1>1 DEF LoopInv, Tasks, Alive
<1> QED BY <1>2, <1>3, <1>4, <1>5, <1>6

LEMMA SendKeeps ==
  ASSUME IInv, NEW r \in Runs, SendAsk(r)
  PROVE  IInv'
<1> USE SidecarAssumption DEF IInv
<1>1. /\ UNCHANGED <<accepted, inbox, token, main, asks, sequence, pending>> /\ Alive
      /\ runPc[r] = "inserted"
      /\ \/ /\ runPc' = [runPc EXCEPT ![r] = "await"] /\ ask' = ask
            /\ numbered' = [numbered EXCEPT ![r] = [kind |-> "callback", seq |-> ask[r].seq]]
         \/ /\ \E l \in {"ending", "work"} : runPc' = [runPc EXCEPT ![r] = l]
            /\ ask' = [ask EXCEPT ![r] = NoAsk] /\ numbered' = numbered
  BY DEF SendAsk, PutScoped, At, Goto, channelVars, mainVars
<1>2. Domains'
  <2>1. runPc' \in [Runs -> RunPc]
    BY <1>1 DEF Domains, RunPc
  <2>2. ask' \in [Runs -> [id : Ids \cup {NoId}, kind : Kinds \cup {"none"}, seq : Nat]]
    BY <1>1 DEF Domains, NoAsk
  <2>3. [kind |-> "callback", seq |-> ask[r].seq] \in [kind : Frame \cup {"none"}, seq : Nat]
    BY DEF Domains, Frame
  <2>4. numbered' \in [Runs -> [kind : Frame \cup {"none"}, seq : Nat]]
    BY <1>1, <2>3 DEF Domains
  <2> QED BY <1>1, <2>1, <2>2, <2>4 DEF Domains
<1>3. AskInv' /\ AcceptedInv'
  BY <1>1 DEF AskInv, AcceptedInv, Holding, Domains
<1>4. SequenceInv'
  BY <1>1, SMTT(30) DEF SequenceInv, Domains
<1>5. LoopInv'
  BY <1>1 DEF LoopInv, Tasks, Alive
<1> QED BY <1>2, <1>3, <1>4, <1>5

\* A request that is over removes its own entry at most.
LEMMA SettleKeeps ==
  ASSUME IInv, NEW r \in Runs,
         \/ Answered(r) \/ CallbackTimesOut(r) \/ CancelledInside(r) \/ Abandoned(r)
         \/ DeadlinePasses(r)
  PROVE  IInv'
<1> USE SidecarAssumption DEF IInv
<1>1. /\ UNCHANGED <<accepted, token, main, asks, sequence, numbered>> /\ Alive
      /\ runPc[r] = "await" /\ inbox' = inbox \ {r}
      /\ \E l \in {"ending", "work"} : runPc' = [runPc EXCEPT ![r] = l]
      /\ ask' = [ask EXCEPT ![r] = NoAsk]
      /\ DOMAIN pending' \subseteq DOMAIN pending
      /\ DOMAIN pending \ {ask[r].id} \subseteq DOMAIN pending'
  BY DEF Answered, CallbackTimesOut, CancelledInside, Abandoned, DeadlinePasses, Settle, Without,
     At, Goto, channelVars, mainVars
<1>2. Domains'
  BY <1>1 DEF Domains, RunPc, NoAsk
<1>3. AskInv'
  <2>1. \A s \in Runs : s # r /\ runPc[s] \in Holding => ask[s].id # ask[r].id
    BY <1>1 DEF AskInv, Holding
  <2> QED BY <1>1, <2>1 DEF AskInv, Holding, Domains
<1>4. AcceptedInv' /\ SequenceInv'
  BY <1>1 DEF AcceptedInv, SequenceInv, Domains
<1>5. LoopInv'
  BY <1>1 DEF LoopInv, Tasks, Alive
<1> QED BY <1>2, <1>3, <1>4, <1>5

LEMMA StepKeeps == IInv /\ [Next]_vars => IInv'
<1> SUFFICES ASSUME IInv, [Next]_vars PROVE IInv'
  OBVIOUS
<1>1. CASE LoopMoves
  BY <1>1, LoopKeeps
<1>2. CASE \E i \in Ids, kind \in Kinds : Respond(i, kind)
  BY <1>2, RespondKeeps
<1>3. ASSUME NEW r \in Runs, TaskStep(r) \/ StrategyStep(r) \/ AnswerInquiry(r) PROVE IInv'
  BY <1>3, RunKeeps, AskKeeps, InsertKeeps, SendKeeps, SettleKeeps
     DEF TaskStep, StrategyStep, RunMoves
<1>4. CASE UNCHANGED vars
  BY <1>4 DEF vars, IInv, Domains, AskInv, AcceptedInv, SequenceInv, LoopInv, Tasks
<1> QED BY <1>1, <1>2, <1>3, <1>4 DEF Next, HostStep, LoopStep, LoopMoves

\* What a run asks, what was answered and what was numbered stay consistent
\* with where the run is.
THEOREM Invariance == Safe => []IInv
BY InitKeeps, StepKeeps, PTL DEF Safe

-----------------------------------------------------------------------------
(* What follows *)

\* A question to the host is answered at most once, is never forgotten while
\* its run waits, and a clean exit leaves no task and no unwritten frame: for
\* any number of runs, callbacks, answers and queued frames.
THEOREM HandedOver == Spec => []AnswersHandedOver
<1>1. IInv => AnswersHandedOver
  BY DEF IInv, AskInv, AcceptedInv, LoopInv, AnswersHandedOver, NeverStranded,
     AcceptedAtMostOnce, ExitIsClean
<1>2. Spec => Safe
  BY PTL DEF Spec
<1> QED BY <1>1, <1>2, Invariance, PTL

\* The numbered frames of a run increase and end with its terminal one.
LEMMA StepNumbers ==
  ASSUME IInv, [Next]_vars, NEW r \in Runs, numbered'[r] # numbered[r]
  PROVE  numbered[r].seq < numbered'[r].seq /\ numbered[r].kind # "terminal"
<1>1. ~LoopMoves /\ ~(\E i \in Ids, kind \in Kinds : Respond(i, kind)) /\ ~UNCHANGED vars
  BY DEF LoopMoves, StartRun, StartInquiry, CancelRun, OtherCommand, AckCancel, Shutdown, Eof, ReadFails,
     CancelAll, Join, Exit, StdoutBreaks, Write, AnswerCommand, LoopFails, PutReply, PutScoped,
     Respond, Resolve, channelVars, vars
<1>2. PICK s \in Runs : TaskStep(s) \/ StrategyStep(s) \/ AnswerInquiry(s)
  BY <1>1 DEF Next, HostStep, LoopStep, LoopMoves
<1>3. s = r
  BY <1>2, OwnRunOnly
<1>4. \/ RunStarts(r) \/ RunRefused(r) \/ Emit(r) \/ Report(r) \/ SendAsk(r)
  BY <1>2, <1>3 DEF TaskStep, StrategyStep, AnswerInquiry, PutReply, RunEnds, Remove, InsertAsk,
     Answered, CancelledInside, Abandoned, AskHost, CallbackTimesOut, DeadlinePasses, Settle, channelVars
<1>5. CASE SendAsk(r)
  <2>1. numbered'[r].seq = ask[r].seq /\ runPc[r] = "inserted"
    BY <1>5 DEF SendAsk, PutScoped, At, channelVars, IInv, Domains
  <2> QED BY <2>1 DEF IInv, SequenceInv
<1>6. CASE ~SendAsk(r)
  <2>1. numbered'[r].seq = sequence[r] + 1 /\ runPc[r] \in {"spawned", "work", "ending"}
    BY <1>4, <1>6 DEF RunStarts, RunRefused, Emit, Report, SendOrDrop, PutScoped, At, channelVars,
       IInv, Domains
  <2> QED BY <2>1 DEF IInv, SequenceInv, Domains
<1> QED BY <1>5, <1>6

THEOREM NumbersIncrease == Spec => Sequenced
<1>1. IInv /\ [Next]_vars =>
        [\A r \in Runs : numbered'[r] # numbered[r] =>
           numbered[r].seq < numbered'[r].seq /\ numbered[r].kind # "terminal"]_vars
  BY StepNumbers
<1>2. Spec => Safe
  BY PTL DEF Spec
<1> QED BY <1>1, <1>2, Invariance, PTL DEF Safe, Sequenced

\* compatibility/v1.md's cap on concurrent runs: the limit is tested and the
\* run inserted in one step of the loop, and a run leaves the table for good.
THEOREM RunsAreCapped == Spec => []RunsCapped
<1>1. Init => CapInv
  <2> SUFFICES ASSUME Init PROVE CapInv
    OBVIOUS
  <2>1. Registered = {}
    BY DEF Init, Registered, Tasks
  <2> QED BY <2>1, FS_EmptySet, SidecarAssumption DEF CapInv
<1>2. IInv /\ CapInv /\ [Next]_vars => CapInv'
  <2> SUFFICES ASSUME IInv, CapInv, [Next]_vars PROVE CapInv'
    OBVIOUS
  <2>1. CASE \E r \in Runs : StartRun(r)
    <3>1. PICK r \in Runs : StartRun(r)
      BY <2>1
    <3>2. Registered' = Registered \cup {r} /\ Cardinality(Registered) < MaxRuns
      BY <3>1 DEF StartRun, Registered, Tasks, IInv, Domains
    <3>3. Cardinality(Registered) \in Nat
      BY FS_CardinalityType DEF CapInv
    <3>4. /\ IsFiniteSet(Registered \cup {r})
          /\ Cardinality(Registered \cup {r}) \in {Cardinality(Registered), Cardinality(Registered) + 1}
      BY FS_AddElement DEF CapInv
    <3> QED BY <3>2, <3>3, <3>4, SidecarAssumption DEF CapInv
  <2>2. CASE ~(\E r \in Runs : StartRun(r))
    <3>1. CASE \E r \in Runs : TaskStep(r) \/ StrategyStep(r) \/ AnswerInquiry(r)
      <4>1. Registered' \subseteq Registered
        BY <3>1, OwnRunOnly DEF Registered, Tasks
      <4>2. /\ IsFiniteSet(Registered') /\ Cardinality(Registered') <= Cardinality(Registered)
            /\ Cardinality(Registered') \in Nat /\ Cardinality(Registered) \in Nat
        BY <4>1, FS_Subset, FS_CardinalityType DEF CapInv
      <4> QED BY <4>2, SidecarAssumption DEF CapInv
    <3>2. CASE ~(\E r \in Runs : TaskStep(r) \/ StrategyStep(r) \/ AnswerInquiry(r))
      <4>1. runPc' = runPc \/ \E r \in Runs : StartInquiry(r)
        BY <2>2, <3>2 DEF Next, HostStep, LoopStep, CancelRun, OtherCommand, AckCancel, Shutdown, Eof,
           ReadFails, CancelAll, Join, Exit, StdoutBreaks, Write, Respond, runVars, vars
      <4>2. Registered' = Registered
        BY <4>1 DEF StartInquiry, Registered, Tasks, IInv, Domains
      <4> QED BY <4>2 DEF CapInv
    <3> QED BY <3>1, <3>2
  <2> QED BY <2>1, <2>2
<1>3. Spec => Safe
  BY PTL DEF Spec
<1>4. CapInv => RunsCapped
  BY DEF CapInv, RunsCapped
<1> QED BY <1>1, <1>2, <1>3, <1>4, Invariance, PTL DEF Safe
=============================================================================
