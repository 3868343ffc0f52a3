----------------------------- MODULE ModelStream -----------------------------
(***************************************************************************)
(* One model request, from the provider to the response the runner gets    *)
(* (crates/llama-harness-ollama: provider.rs, streaming.rs, wire.rs; the   *)
(* consumer is stream_reactive_response of core/src/speculation.rs).  A    *)
(* request is answered whole or as a stream.  The Ollama provider decodes  *)
(* lines from a body that arrives in chunks of any size and may end or     *)
(* break anywhere, and passes its events through a controller of its own;  *)
(* any other provider yields events as it likes.  The consumer passes what *)
(* it gets through a second controller, with the limits of the run, into   *)
(* the response.  What speculation does meanwhile is module Speculation.   *)
(***************************************************************************)
EXTENDS StreamAssembly

CONSTANTS
  Jobs,       \* what may be asked, and answered: see JobFields
  Items,      \* events another provider may yield
  MaxItems,   \* bound: how many of them
  MaxResponse, MaxStream, MaxLine,  \* the byte limits of the Ollama provider
  MaxEvents   \* max_stream_events of the speculation config

(* streamed: stream or complete; ollama: by Ollama or by another provider; *)
(* tools, caps, run: the request's tools, the provider's caps, the run's   *)
(* limits; structured: structured output is asked for; status: of the HTTP *)
(* response; lines, closed: the body, and whether its last line ends in a  *)
(* newline; length: whether its length is announced; model: the model      *)
(* asked for.  A line is sound (decodes), blank, or neither.               *)
JobFields == {"streamed", "ollama", "tools", "caps", "run", "structured",
              "status", "lines", "closed", "length", "model"}

ASSUME StreamAssumption == \A j \in Jobs : DOMAIN j = JobFields

VARIABLES
  job,
  pc,        \* where the request is
  transport, \* "open", "eof" or "broken"
  received,  \* bytes of the body that arrived (received_bytes)
  parsed,    \* lines taken out of the buffer
  queue,     \* events of the last of them, still to be yielded
  nextCall,  \* call_index of the Ollama provider's stream
  inner,     \* its controller
  outer,     \* the consumer's controller
  resp,      \* the consumer's response so far
  events,    \* stream_events
  sent,      \* what another provider has yielded
  stop,      \* the run cancelled, or past the call's deadline
  outcome, answer

vars == <<job, pc, transport, received, parsed, queue, nextCall, inner, outer,
          resp, events, sent, stop, outcome, answer>>
body     == <<received, parsed, queue, nextCall, inner>>
consumer == <<outer, resp, events, outcome, answer>>

NoAnswer == [output |-> {}, model |-> Absent, calls |-> <<>>]

ProviderLimits == ForProvider(job.caps)
RunLimits      == ForRun(job.caps, job.run, Len(job.tools))

----------------------------------------------------------------------------
(* The body *)

LineEnd(n) == MapThenSumSet(LAMBDA i : job.lines[i].bytes + 1, 1..n)

BodyBytes == LineEnd(Len(job.lines)) - (IF job.closed THEN 0 ELSE 1)

Buffered == received - LineEnd(parsed)

(* tool_calls: numbered from 0 in each message; the stream adds a number   *)
(* of its own, counted over the response.                                  *)
WireId(i) == <<"ollama", i - 1>>

UnnumberedId(id, n) == id

StreamId(id, n) == Append(id, n)

WireCalls(line) ==
  [i \in DOMAIN line.calls |-> [id |-> WireId(i), tool |-> line.calls[i].tool,
                                arguments |-> line.calls[i].arguments]]

(* parse_line *)
LineEvents(line) ==
  IF line.blank THEN <<>>
  ELSE (IF line.content = <<>> THEN <<>>
        ELSE <<[kind |-> "text", content |-> line.content]>>)
       \o [i \in DOMAIN line.calls |-> [kind |-> "wire", call |-> WireCalls(line)[i]]]
       \o (IF line.done
           THEN <<[kind |-> "done",
                   model |-> IF line.model = Absent THEN <<>> ELSE line.model]>>
           ELSE <<>>)

(* The map of OllamaProvider::stream: a whole call is one final delta. *)
Delta(call, n) ==
  [index |-> n, id |-> StreamId(call.id, n), tool |-> call.tool,
   fragment |-> call.arguments, final |-> TRUE]

Mapped(event) ==
  IF event.kind = "wire"
  THEN [kind |-> "call", delta |-> Delta(event.call, nextCall)] ELSE event

Error(kind) == [kind |-> "error", error |-> kind]

----------------------------------------------------------------------------
Init ==
  /\ job \in Jobs
  /\ pc = "new" /\ transport = "open"
  /\ received = 0 /\ parsed = 0 /\ queue = <<>> /\ nextCall = 0
  /\ inner = NewController /\ outer = NewController
  /\ resp = NewResponse /\ events = 0
  /\ sent = <<>>
  /\ stop = "none" /\ outcome = "none" /\ answer = NoAnswer

Finish(kind, response) ==
  /\ outcome' = kind /\ answer' = response
  /\ pc' = "done"

Fail(kind) == Finish(kind, NoAnswer) /\ UNCHANGED <<outer, resp, events>>

(* Every await of the run is guarded: cancellation and the deadline come   *)
(* first, and the stream is dropped.                                       *)
Running == stop = "none" /\ pc # "done"

AskToStop ==
  /\ Running
  /\ stop' \in {"Cancelled", "TimedOut"}
  /\ UNCHANGED <<job, pc, transport, body, consumer, sent>>

StoppedBeginsAgain ==
  /\ stop # "none" /\ pc # "done"
  /\ pc' = "new" /\ stop' = "none"
  /\ UNCHANGED <<job, transport, body, consumer, sent>>

Stopped ==
  /\ stop # "none" /\ pc # "done"
  /\ Fail(stop)
  /\ UNCHANGED <<job, transport, body, sent, stop>>

(* What is checked before anything is sent: the limits and the tools, with *)
(* the run's limits and then with the provider's; what Ollama cannot do.   *)
Refused ==
  IF job.streamed /\ ~(CapsUsable(job.caps) /\ LimitsValid(ProviderLimits)
                       /\ LimitsValid(RunLimits))
  THEN "InvalidRequest"
  ELSE IF job.streamed /\ CatalogError(job.tools, RunLimits) # "none"
  THEN CatalogError(job.tools, RunLimits)
  ELSE IF job.streamed /\ job.ollama /\ CatalogError(job.tools, ProviderLimits) # "none"
  THEN CatalogError(job.tools, ProviderLimits)
  ELSE IF job.ollama /\ job.structured THEN "UnsupportedCapability"
  ELSE "none"

Begin ==
  /\ Running /\ pc = "new"
  /\ IF Refused # "none" THEN Fail(Refused)
     ELSE /\ pc' = IF job.ollama THEN "send" ELSE "others"
          /\ UNCHANGED consumer
  /\ UNCHANGED <<job, transport, body, sent, stop>>

(* send, ensure_success, and read_bounded's look at the length.  No answer *)
(* at all is an error too, and may be retried if it is of the connection.  *)
TooLong == job.length /\ BodyBytes > MaxResponse

Headers ==
  /\ Running /\ pc = "send"
  /\ \/ \E kind \in {"RetryableProvider", "Provider"} : Fail(kind)
     \/ job.status # "ok" /\ Fail(job.status)
     \/ job.status = "ok" /\ ~job.streamed /\ TooLong /\ Fail("ResourceLimit")
     \/ /\ job.status = "ok" /\ (job.streamed \/ ~TooLong)
        /\ pc' = IF job.streamed THEN "wait" ELSE "body"
        /\ UNCHANGED consumer
  /\ UNCHANGED <<job, transport, body, sent, stop>>

----------------------------------------------------------------------------
(* The consumer: one turn of the loop of stream_reactive_response. *)
Output(text) == IF text = <<>> THEN {} ELSE {text}

Answered(r) ==
  [output |-> Output(Response(r).text), model |-> Response(r).model,
   calls |-> Response(r).calls]

ConsumerError(pushed, grown) ==
  IF events + 1 > MaxEvents THEN "ResourceLimit"
  ELSE IF pushed.error # "none" THEN pushed.error
  ELSE IF grown.retained > job.run.responseBytes THEN "ResourceLimit"
  ELSE "none"

Consume(event, continue) ==
  \E pushed \in {ControllerPush(outer, event, job.tools, RunLimits)} :
  \E grown \in {WithEvent(resp, event, pushed.call)} :
  \E error \in {ConsumerError(pushed, grown)} :
    /\ events' = events + 1
    /\ outer' = IF events + 1 > MaxEvents THEN outer ELSE pushed.ctl
    /\ resp' = IF error = "none" THEN grown ELSE resp
    /\ \/ error # "none" /\ Finish(error, NoAnswer)
       \/ error = "none" /\ event.kind = "done" /\ Finish("Ok", Answered(grown))
       \/ /\ error = "none" /\ event.kind # "done"
          /\ pc' = continue /\ UNCHANGED <<outcome, answer>>

(* The Ollama provider yields an event, or the error its controller makes  *)
(* of it.                                                                  *)
Handed(pushed, event) ==
  IF pushed.error = "none" THEN Mapped(event) ELSE Error(pushed.error)

Yield(event, continue) ==
  \E pushed \in {ControllerPush(inner, Mapped(event), job.tools, ProviderLimits)} :
  \E handed \in {Handed(pushed, event)} :
    /\ inner' = pushed.ctl
    /\ nextCall' = IF event.kind = "wire" THEN nextCall + 1 ELSE nextCall
    /\ Consume(handed, continue)

(* A chunk arrives, of any size. *)
Chunk ==
  /\ Running /\ pc = "wait"
  /\ \E k \in 1..(BodyBytes - received) :
       /\ received' = received + k
       /\ IF received + k > MaxStream
          THEN Yield(Error("ResourceLimit"), "done")
          ELSE pc' = "parse" /\ UNCHANGED <<inner, nextCall, consumer>>
  /\ UNCHANGED <<job, transport, parsed, queue, sent, stop>>

(* The lines of the buffer, one after the other; then what is left of it   *)
(* is measured.                                                            *)
HasLine == parsed < Len(job.lines) /\ LineEnd(parsed + 1) <= received

TakeLine(continue) ==
  LET line == job.lines[parsed + 1]
  IN /\ parsed' = parsed + 1
     /\ IF line.sound \/ line.blank
        THEN /\ queue' = LineEvents(line) /\ pc' = continue
             /\ UNCHANGED <<inner, nextCall, consumer>>
        ELSE Yield(Error("Provider"), "done") /\ UNCHANGED queue

ParseLine ==
  /\ Running /\ pc = "parse" /\ queue = <<>> /\ HasLine
  /\ TakeLine("parse")
  /\ UNCHANGED <<job, transport, received, sent, stop>>

Measure ==
  /\ Running /\ pc = "parse" /\ queue = <<>> /\ ~HasLine
  /\ IF Buffered > MaxLine THEN Yield(Error("ResourceLimit"), "done")
     ELSE pc' = "wait" /\ UNCHANGED <<inner, nextCall, consumer>>
  /\ UNCHANGED <<job, transport, received, parsed, queue, sent, stop>>

YieldNext ==
  /\ Running /\ pc \in {"parse", "tail"} /\ queue # <<>>
  /\ queue' = Tail(queue)
  /\ Yield(Head(queue), pc)
  /\ UNCHANGED <<job, transport, received, parsed, sent, stop>>

(* The body ends, where it should or before: what is left of the buffer is *)
(* a line too.                                                             *)
BodyEnds ==
  /\ Running /\ pc = "wait"
  /\ transport' = "eof"
  /\ IF Buffered = 0 THEN pc' = "tail" /\ UNCHANGED <<body, consumer>>
     ELSE IF Buffered = job.lines[parsed + 1].bytes
     THEN TakeLine("tail") /\ UNCHANGED received
     ELSE Yield(Error("Provider"), "done") /\ UNCHANGED <<received, parsed, queue>>
  /\ UNCHANGED <<job, sent, stop>>

(* No done event came. *)
NoDone ==
  /\ Running /\ pc = "tail" /\ queue = <<>>
  /\ Yield(Error("Provider"), "done")
  /\ UNCHANGED <<job, transport, received, parsed, queue, sent, stop>>

(* The connection breaks, or the client's timeout is over. *)
Breaks ==
  /\ Running /\ pc = "wait"
  /\ transport' = "broken"
  /\ Yield(Error("RetryableProvider"), "done")
  /\ UNCHANGED <<job, received, parsed, queue, sent, stop>>

----------------------------------------------------------------------------
(* complete: the whole body is one document. *)
BodyChunk ==
  /\ Running /\ pc = "body"
  /\ \E k \in 1..(BodyBytes - received) :
       /\ received' = received + k
       /\ IF received + k > MaxResponse THEN Fail("ResourceLimit")
          ELSE UNCHANGED <<pc, consumer>>
  /\ UNCHANGED <<job, transport, parsed, queue, nextCall, inner, sent, stop>>

Document(line) ==
  [output |-> IF line.content = <<>> /\ line.calls # <<>> THEN {} ELSE {line.content},
   model  |-> IF line.model = Absent THEN job.model ELSE line.model,
   calls  |-> WireCalls(line)]

Decodes == /\ Len(job.lines) = 1 /\ received >= job.lines[1].bytes
           /\ job.lines[1].sound

BodyRead ==
  /\ Running /\ pc = "body"
  /\ transport' = "eof"
  /\ IF Decodes /\ job.lines[1].done
     THEN Finish("Ok", Document(job.lines[1])) /\ UNCHANGED <<outer, resp, events>>
     ELSE Fail("Provider")
  /\ UNCHANGED <<job, body, sent, stop>>

BodyBreaks ==
  /\ Running /\ pc = "body"
  /\ transport' = "broken"
  /\ \E kind \in {"RetryableProvider", "Provider"} : Fail(kind)
  /\ UNCHANGED <<job, body, sent, stop>>

(* Another provider: any event, any error, or the end. *)
OthersYield ==
  /\ Running /\ pc = "others" /\ Len(sent) < MaxItems
  /\ \E event \in Items :
       /\ sent' = Append(sent, event)
       /\ Consume(event, "others")
  /\ UNCHANGED <<job, transport, body, stop>>

OthersEnd ==
  /\ Running /\ pc = "others"
  /\ Fail(FinishEof(outer))
  /\ UNCHANGED <<job, transport, body, sent, stop>>

Terminated == pc = "done" /\ UNCHANGED vars

Working   == Begin \/ ParseLine \/ Measure \/ YieldNext \/ NoDone \/ Stopped
Transport == Headers \/ Chunk \/ BodyEnds \/ Breaks \/ BodyChunk \/ BodyRead \/ BodyBreaks

Next == Working \/ Transport \/ AskToStop \/ OthersYield \/ OthersEnd \/ Terminated

Spec == Init /\ [][Next]_vars /\ WF_vars(Working) /\ WF_vars(Transport)

----------------------------------------------------------------------------
(* Every variable has its type, and no more lines have been taken than     *)
(* have arrived (the buffer of crates/llama-harness-ollama streaming.rs).  *)
TypeOK ==
  /\ job \in Jobs
  /\ pc \in {"new", "send", "wait", "parse", "tail", "body", "others", "done"}
  /\ transport \in {"open", "eof", "broken"}
  /\ received \in 0..BodyBytes /\ parsed \in DOMAIN job.lines \union {0}
  /\ parsed > 0 => LineEnd(parsed - 1) < received
  /\ nextCall \in Nat /\ events \in 0..(MaxEvents + 1)
  /\ Len(sent) <= MaxItems /\ ToSet(sent) \subseteq Items
  /\ stop \in {"none", "Cancelled", "TimedOut"}
  /\ outcome # "none" <=> pc = "done"

----------------------------------------------------------------------------
(* The reference: the lines of the body up to the first that says done,    *)
(* and what they hold.                                                     *)
DoneLines == {i \in DOMAIN job.lines : job.lines[i].sound /\ job.lines[i].done}

LastLine == Min(DoneLines)

Texts(n) == FlattenSeq([i \in 1..n |-> job.lines[i].content])
Calls(n) == FlattenSeq([i \in 1..n |-> job.lines[i].calls])

CallSound(call) ==
  /\ \E i \in DOMAIN job.tools : job.tools[i].id = call.tool
  /\ call.arguments \in ValidArguments[call.tool]

IdsDistinct(calls) ==
  \A i, j \in DOMAIN calls : calls[i].id = calls[j].id => i = j

AsLinesSay ==
  /\ DoneLines # {}
  /\ \A i \in 1..LastLine : job.lines[i].sound \/ job.lines[i].blank
  /\ answer.output = Output(Texts(LastLine))
  /\ answer.model = (IF job.lines[LastLine].model = Absent THEN <<>>
                     ELSE job.lines[LastLine].model)
  /\ Len(answer.calls) = Len(Calls(LastLine))
  /\ IdsDistinct(answer.calls)
  /\ \A i \in DOMAIN answer.calls :
       /\ answer.calls[i].tool = Calls(LastLine)[i].tool
       /\ answer.calls[i].arguments = Calls(LastLine)[i].arguments
       /\ CallSound(answer.calls[i])

(* And of another provider's events: of each index, all its fragments.     *)
Deltas(index) ==
  LET mine == SelectSeq(sent, LAMBDA e : e.kind = "call" /\ e.delta.index = index)
  IN [i \in DOMAIN mine |-> mine[i].delta]

Indices == {sent[i].delta.index : i \in {j \in DOMAIN sent : sent[j].kind = "call"}}

Whole(index, call) ==
  /\ call.arguments = FlattenSeq([i \in DOMAIN Deltas(index) |-> Deltas(index)[i].fragment])
  /\ \A i \in DOMAIN Deltas(index) :
       /\ Deltas(index)[i].id \in {Absent, call.id}
       /\ Deltas(index)[i].tool \in {Absent, call.tool}
       /\ Deltas(index)[i].final <=> i = Len(Deltas(index))
  /\ CallSound(call)

AsEventsSay ==
  LET texts == SelectSeq(sent, LAMBDA e : e.kind = "text")
      order == Sorted(Indices)
  IN /\ \A i \in DOMAIN sent : (sent[i].kind = "done") <=> i = Len(sent)
     /\ answer.output = Output(FlattenSeq([i \in DOMAIN texts |-> texts[i].content]))
     /\ answer.model = Last(sent).model
     /\ Len(answer.calls) = Len(order)
     /\ IdsDistinct(answer.calls)
     /\ \A i \in DOMAIN order : Whole(order[i], answer.calls[i])

(* A streamed response that is accepted is what the provider sent: every   *)
(* text and every call up to the first done, each call whole, valid, under *)
(* an id of its own, in the order of the indices; however the body was cut *)
(* into chunks and the fragments were interleaved, and never from a body   *)
(* that ended early (stream_response, ToolCallAssembler::push,             *)
(* StreamResponseAssembler).                                               *)
ReassembledAsSent ==
  outcome = "Ok" /\ job.streamed => IF job.ollama THEN AsLinesSay ELSE AsEventsSay

(* The converse: a stream of Ollama's that came whole, within the limits,  *)
(* is not refused; a reply of several sound calls on several lines is not  *)
(* mistaken for a repeated one (OllamaProvider::stream).                   *)
RefusedForCause ==
  outcome = "ModelStream" /\ job.ollama /\ transport # "broken" =>
    \/ DoneLines = {} \/ LineEnd(LastLine) - 1 > received
    \/ \E i \in 1..LastLine : ~(job.lines[i].sound \/ job.lines[i].blank)
    \/ \E i \in DOMAIN Calls(LastLine) : ~CallSound(Calls(LastLine)[i])

(* The runner retries a retryable error with a fresh request; nothing of   *)
(* the failed one may have reached it by then, neither events nor a        *)
(* speculative call they led to (normalize_upstream_stream_error).         *)
RetriedOnlyUnanswered ==
  outcome = "RetryableProvider" => events = 0 /\ sent = <<>> /\ resp = NewResponse

(* Errors are told as what they are: refused for a cause, and retryable    *)
(* only as long as nothing was answered.                                   *)
ErrorsSound == RefusedForCause /\ RetriedOnlyUnanswered

(* The bytes an assembler counts are those of the calls it still holds, so *)
(* calls that come and go never use the buffer up, and every limit holds   *)
(* (ToolCallAssembler::push, StreamResponseAssembler::retain).             *)
AssemblerSound(ctl, l) ==
  LET asm == ctl.asm
  IN ctl.state = "Active" =>
       /\ asm.buffered = MapThenSumSet(LAMBDA i : asm.pending[i].bytes, DOMAIN asm.pending)
       /\ asm.buffered <= l.bufferBytes
       /\ \A i \in DOMAIN asm.pending :
            /\ asm.pending[i].bytes = Len(asm.pending[i].arguments)
                 + NewFieldBytes(Absent, asm.pending[i].id)
                 + NewFieldBytes(Absent, asm.pending[i].tool)
            /\ asm.pending[i].bytes <= l.callBytes
            /\ Len(asm.pending[i].arguments) <= l.argumentBytes
       /\ DOMAIN asm.pending \cap asm.finalized = {}
       /\ Cardinality(DOMAIN asm.pending \union asm.finalized) <= l.calls

BuffersAccounted ==
  /\ AssemblerSound(inner, ProviderLimits) /\ AssemblerSound(outer, RunLimits)
  /\ resp.retained <= job.run.responseBytes
  /\ resp.retained = Len(resp.text)
                     + MapThenSumSet(LAMBDA i : CallBytes(resp.calls[i]), DOMAIN resp.calls)
                     + NewFieldBytes(Absent, resp.model)

(* What is put together is what was sent, and what is buffered meanwhile is *)
(* counted byte for byte.                                                  *)
AssemblySound == ReassembledAsSent /\ BuffersAccounted

(* Every request of Ollama's comes to an end, since the client bounds its  *)
(* time; one of another provider at least when the run is stopped.         *)
EveryRequestEnds == <>[](pc = "done" \/ (~job.ollama /\ stop = "none"))

(* max_stream_line_bytes: "Sets the maximum size of one newline-delimited  *)
(* streaming response line."                                               *)
LinesBounded == \A i \in 1..parsed : job.lines[i].bytes <= MaxLine
=============================================================================
