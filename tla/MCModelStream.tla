--------------------------- MODULE MCModelStream ---------------------------
(* Two tools, bodies of up to three lines, events of another provider that *)
(* interleave two calls and break every rule of the assembler.             *)
EXTENDS ModelStream

A == <<"a">>
B == <<"b">>

MCHard    == [calls |-> 3, callBytes |-> 8, argumentBytes |-> 4, bufferBytes |-> 9,
              fieldBytes |-> 3, tools |-> 3, schemaBytes |-> 6]
MCDefault == [MCHard EXCEPT !.calls = 3, !.bufferBytes = 9]

MCValid == [t \in {A, B, <<"c">>} |->
              IF t = A THEN {<<"1">>, <<"1", "2">>} ELSE {<<"1">>}]

NoCaps == [n \in CapNames |-> NoCap]
Run    == [calls |-> 3, argumentBytes |-> 3, requestBytes |-> 9, responseBytes |-> 9]
Tools  == <<[id |-> A, schemaBytes |-> 2], [id |-> B, schemaBytes |-> 3]>>

Text(c, n)   == [sound |-> TRUE, blank |-> FALSE, content |-> c, calls |-> <<>>,
                 done |-> FALSE, model |-> Absent, bytes |-> n]
Call(calls)  == [Text(<<>>, 2) EXCEPT !.calls = calls]
Done(model)  == [Text(<<>>, 1) EXCEPT !.done = TRUE, !.model = model]
Blank        == [Text(<<>>, 0) EXCEPT !.blank = TRUE]
Broken       == [Text(<<>>, 1) EXCEPT !.sound = FALSE]

Job(lines) ==
  [streamed |-> TRUE, ollama |-> TRUE, tools |-> Tools, caps |-> NoCaps, run |-> Run,
   structured |-> FALSE, status |-> "ok", lines |-> lines, closed |-> TRUE,
   length |-> FALSE, model |-> <<"m">>]

One(t) == [tool |-> t, arguments |-> <<"1">>]

Bodies == {
  <<Text(<<"x">>, 2), Text(<<"y">>, 1), Done(<<"m">>)>>,
  <<Call(<<One(A)>>), Call(<<One(B)>>), Done(Absent)>>,
  <<Text(<<"x">>, 1), Done(<<"m">>), Text(<<"z">>, 1)>>,
  <<[Call(<<One(A), One(A)>>) EXCEPT !.done = TRUE, !.content = <<"x">>]>>,
  <<Call(<<[tool |-> B, arguments |-> <<"2">>]>>), Done(<<"m">>)>>,
  <<Call(<<[tool |-> <<"c">>, arguments |-> <<"1">>]>>), Done(<<"m">>)>>,
  <<Blank, Broken, Done(<<"m">>)>>,
  <<Text(<<"x">>, 5), Done(<<"m">>)>>,
  <<Text(<<"x", "x", "x", "x", "x">>, 2), Text(<<"x", "x", "x", "x", "x">>, 2), Done(<<"m">>)>>,
  <<Text(<<"x">>, 4), Text(<<"y">>, 4), Done(<<"m">>)>>,
  <<Text(<<"x">>, 1)>> }

Streams  == {Job(b) : b \in Bodies}
Unclosed == {[Job(b) EXCEPT !.closed = FALSE] : b \in Bodies}
Wholes   == {[Job(b) EXCEPT !.streamed = FALSE, !.length = known] :
               b \in Bodies \union {<<Done(Absent)>>}, known \in BOOLEAN}
Refusals == {
  [Job(<<>>) EXCEPT !.caps.tools = 0],
  [Job(<<>>) EXCEPT !.run.calls = 0],
  [Job(<<>>) EXCEPT !.caps.tools = 1],
  [Job(<<>>) EXCEPT !.caps.schemaBytes = 4],
  [Job(<<>>) EXCEPT !.tools = <<Tools[1], Tools[1]>>],
  [Job(<<>>) EXCEPT !.structured = TRUE],
  [Job(<<>>) EXCEPT !.status = "Provider"],
  [Job(<<>>) EXCEPT !.status = "RetryableProvider", !.streamed = FALSE] }
Others   == {[Job(<<>>) EXCEPT !.ollama = FALSE, !.caps.streamedCalls = 2,
                               !.caps.argumentBytes = 9]}

MCJobs == Streams \union Unclosed \union Wholes \union Refusals \union Others

D(index, id, tool, fragment, final) ==
  [kind |-> "call", delta |-> [index |-> index, id |-> id, tool |-> tool,
                               fragment |-> fragment, final |-> final]]

MCItems == {
  [kind |-> "text", content |-> <<"x", "y">>],
  D(0, <<"i">>, A, <<"1">>, FALSE),
  D(0, Absent, Absent, <<"2">>, TRUE),
  D(0, <<"j">>, Absent, <<>>, FALSE),
  D(1, <<"j">>, B, <<"1">>, TRUE),
  D(1, <<"i">>, Absent, <<>>, FALSE),
  D(1, Absent, A, <<"1">>, TRUE),
  D(2, <<"k">>, A, <<"1", "2">>, TRUE),
  D(2, <<>>, A, <<>>, FALSE),
  [kind |-> "done", model |-> <<"m">>],
  [kind |-> "error", error |-> "RetryableProvider"] }
=============================================================================
