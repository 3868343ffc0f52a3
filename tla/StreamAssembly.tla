--------------------------- MODULE StreamAssembly ---------------------------
(***************************************************************************)
(* What turns the events of a streamed model response into a response      *)
(* (core/src/streaming.rs, and StreamResponseAssembler of                  *)
(* core/src/speculation.rs): the bounded assembler of tool calls, the      *)
(* controller that is fused by the first terminal event, the assembler of  *)
(* the response.  Operators on their values; ModelStream.tla says who      *)
(* calls them when.  A string is the sequence of its bytes.                *)
(***************************************************************************)
EXTENDS Integers, SequencesExt, FiniteSetsExt

CONSTANTS
  HardLimits,    \* the MAX_ASSEMBLY_* of the module: record of LimitNames
  DefaultLimits, \* ToolCallAssemblyLimits::default
  ValidArguments \* of each tool id: the texts that parse, are not too deep
                 \* and match the schema

LimitNames == {"calls", "callBytes", "argumentBytes", "bufferBytes",
               "fieldBytes", "tools", "schemaBytes"}
CapNames   == {"tools", "schemaBytes", "streamedCalls", "parallelCalls",
               "argumentBytes"}

Absent == <<"absent">>   \* None: of an optional field of a delta
NoCap  == -1             \* None: of a provider's limit

ASSUME AssemblyAssumption ==
  /\ HardLimits \in [LimitNames -> Nat \ {0}]
  /\ DefaultLimits \in [LimitNames -> Nat \ {0}]

----------------------------------------------------------------------------
(* ToolCallAssemblyLimits *)

LimitsValid(l) ==
  /\ \A n \in LimitNames : l[n] > 0 /\ l[n] <= HardLimits[n]
  /\ l.argumentBytes <= l.callBytes

(* for_provider: a cap of zero is an error, one beyond the hard limit is   *)
(* brought down to it.                                                     *)
CapsUsable(caps) == \A n \in CapNames : caps[n] # 0

Capped(cap, hard, otherwise) ==
  IF cap = NoCap THEN otherwise ELSE Min({cap, hard})

ForProvider(caps) ==
  [DefaultLimits EXCEPT
     !.tools         = Capped(caps.tools, HardLimits.tools, @),
     !.schemaBytes   = Capped(caps.schemaBytes, HardLimits.schemaBytes, @),
     !.calls         = Min({@, Capped(caps.streamedCalls, HardLimits.calls, @),
                               Capped(caps.parallelCalls, HardLimits.calls, @)}),
     !.argumentBytes = Capped(caps.argumentBytes, HardLimits.argumentBytes, @)]

(* assembly_limits: the run's own limits on top of the provider's. *)
ForRun(caps, run, toolCount) ==
  LET l == ForProvider(caps)
  IN [l EXCEPT
        !.calls         = Min({@, run.calls}),
        !.argumentBytes = Min({@, run.argumentBytes}),
        !.callBytes     = Min({@, run.argumentBytes + 2 * l.fieldBytes}),
        !.bufferBytes   = Min({@, run.requestBytes, run.responseBytes}),
        !.tools         = Min({@, Max({toolCount, 1})}),
        !.schemaBytes   = Min({@, run.requestBytes})]

(* ToolCallAssembler::new: the tools of the request, each with the size of *)
(* its schema.                                                             *)
CatalogError(tools, l) ==
  LET bytes(n) == MapThenSumSet(LAMBDA i : tools[i].schemaBytes, 1..n)
  IN IF Len(tools) > l.tools THEN "ResourceLimit"
     ELSE IF \E i \in DOMAIN tools : tools[i].id = <<>> \/ Len(tools[i].id) > l.fieldBytes
                                     \/ \E j \in 1..(i - 1) : tools[j].id = tools[i].id
          THEN "InvalidTool"
     ELSE IF bytes(Len(tools)) > l.schemaBytes THEN "ResourceLimit"
     ELSE "none"

----------------------------------------------------------------------------
(* ToolCallAssembler *)

NewAssembler == [pending |-> <<>>, seen |-> {}, finalized |-> {}, ids |-> {},
                 buffered |-> 0]

NoPending == [id |-> Absent, tool |-> Absent, arguments |-> <<>>, bytes |-> 0]

Current(asm, index) ==
  IF index \in DOMAIN asm.pending THEN asm.pending[index] ELSE NoPending

BadField(value, l) == value # Absent /\ (value = <<>> \/ Len(value) > l.fieldBytes)

Conflicting(current, incoming) ==
  current # Absent /\ incoming # Absent /\ current # incoming

NewFieldBytes(current, incoming) ==
  IF current = Absent /\ incoming # Absent THEN Len(incoming) ELSE 0

AddedBytes(current, delta) ==
  Len(delta.fragment) + NewFieldBytes(current.id, delta.id)
                      + NewFieldBytes(current.tool, delta.tool)

(* The checks before anything is stored, in the order of the code. *)
Refusal(asm, delta, l) ==
  LET current == Current(asm, delta.index)
      added   == AddedBytes(current, delta)
  IN CASE delta.index \in asm.finalized -> "ModelStream"
       [] delta.index \notin asm.finalized \union asm.seen
            /\ Cardinality(asm.seen) >= l.calls -> "ResourceLimit"
       [] OTHER ->
          IF \/ BadField(delta.id, l) \/ BadField(delta.tool, l)
             \/ Conflicting(current.id, delta.id)
             \/ Conflicting(current.tool, delta.tool)
          THEN "ModelStream"
          ELSE IF \/ Len(current.arguments) + Len(delta.fragment) > l.argumentBytes
                  \/ current.bytes + added > l.callBytes
                  \/ asm.buffered + added > l.bufferBytes
          THEN "ResourceLimit" ELSE "none"

FirstGiven(current, incoming) == IF current = Absent THEN incoming ELSE current

Extended(current, delta) ==
  [id        |-> FirstGiven(current.id, delta.id),
   tool      |-> FirstGiven(current.tool, delta.tool),
   arguments |-> current.arguments \o delta.fragment,
   bytes     |-> current.bytes + AddedBytes(current, delta)]

(* The final fragment gives the call up, whether or not it is valid. *)
ReleasedKeepingBytes(buffered, call) == buffered

Released(buffered, call) == buffered - call.bytes

WithPending(asm, delta) ==
  LET call == Extended(Current(asm, delta.index), delta)
  IN [asm EXCEPT !.pending  = [i \in DOMAIN @ \union {delta.index} |->
                                 IF i = delta.index THEN call ELSE @[i]],
                 !.seen     = @ \union {delta.index},
                 !.buffered = @ + AddedBytes(Current(asm, delta.index), delta)]

Finalized(asm, delta) ==
  LET call == Extended(Current(asm, delta.index), delta)
      grown == WithPending(asm, delta)
  IN [grown EXCEPT !.pending   = [i \in DOMAIN @ \ {delta.index} |-> @[i]],
                   !.finalized = @ \union {delta.index},
                   !.ids       = IF call.id = Absent \/ call.tool = Absent THEN @
                                 ELSE @ \union {call.id},
                   !.buffered  = Released(@, call)]

Acceptable(asm, call, tools) ==
  /\ call.id # Absent /\ call.tool # Absent /\ call.id \notin asm.ids
  /\ \E i \in DOMAIN tools : tools[i].id = call.tool
  /\ call.arguments \in ValidArguments[call.tool]

(* push: the new assembler, the error or "none", the completed call or     *)
(* none (a set of at most one).  An error fuses the controller, so what    *)
(* the assembler then holds is not looked at again.                        *)
AssemblerPush(asm, delta, tools, l) ==
  LET call == Extended(Current(asm, delta.index), delta)
  IN IF Refusal(asm, delta, l) # "none"
     THEN [asm |-> asm, error |-> Refusal(asm, delta, l), call |-> {}]
     ELSE IF ~delta.final
     THEN [asm |-> WithPending(asm, delta), error |-> "none", call |-> {}]
     ELSE IF Acceptable(asm, call, tools)
     THEN [asm |-> Finalized(asm, delta), error |-> "none",
           call |-> {[id |-> call.id, tool |-> call.tool,
                      arguments |-> call.arguments]}]
     ELSE [asm |-> Finalized(asm, delta), error |-> "ModelStream", call |-> {}]

----------------------------------------------------------------------------
(* ModelStreamController.  Events: [kind |-> "text", content],             *)
(* [kind |-> "call", delta], [kind |-> "done", model], [kind |-> "error",  *)
(* error].                                                                 *)

NewController == [asm |-> NewAssembler, state |-> "Active"]

(* normalize_upstream_stream_error: a stream that has begun is not retried.*)
KeptRetryable(error) ==
  IF error \in {"Cancelled", "ResourceLimit", "ModelStream", "RetryableProvider"}
  THEN error ELSE "ModelStream"

Normalized(error) ==
  IF error \in {"Cancelled", "ResourceLimit", "ModelStream"} THEN error
  ELSE "ModelStream"

Failed(ctl, error) == [ctl |-> [ctl EXCEPT !.state = "Failed"], error |-> error,
                       call |-> {}]

DoneAnyway(ctl) == TRUE

NonePending(ctl) == DOMAIN ctl.asm.pending = {}

ControllerPush(ctl, event, tools, l) ==
  IF ctl.state # "Active" THEN [ctl |-> ctl, error |-> "ModelStream", call |-> {}]
  ELSE CASE event.kind = "error" -> Failed(ctl, Normalized(event.error))
         [] event.kind = "text"  -> [ctl |-> ctl, error |-> "none", call |-> {}]
         [] event.kind = "done"  ->
              IF NonePending(ctl)
              THEN [ctl |-> [ctl EXCEPT !.state = "Completed"], error |-> "none",
                    call |-> {}]
              ELSE Failed(ctl, "ModelStream")
         [] event.kind = "call"  ->
              LET pushed == AssemblerPush(ctl.asm, event.delta, tools, l)
              IN [ctl   |-> [asm   |-> pushed.asm,
                             state |-> IF pushed.error = "none" THEN "Active"
                                       ELSE "Failed"],
                  error |-> pushed.error, call |-> pushed.call]

(* finish_eof *)
FinishEof(ctl) == IF ctl.state = "Completed" THEN "none" ELSE "ModelStream"

----------------------------------------------------------------------------
(* StreamResponseAssembler.  Calls come out in the order of their indices, *)
(* whatever the order in which they were completed.                        *)

NewResponse == [text |-> <<>>, calls |-> <<>>, model |-> Absent, retained |-> 0]

CallBytes(call) == Len(call.id) + Len(call.tool) + Len(call.arguments)

EventBytes(event, call) ==
  CASE event.kind = "text" -> Len(event.content)
    [] event.kind = "call" -> MapThenSumSet(CallBytes, call)
    [] event.kind = "done" -> Len(event.model)
    [] event.kind = "error" -> 0

WithEvent(resp, event, call) ==
  LET grown == [resp EXCEPT !.retained = @ + EventBytes(event, call)]
  IN CASE event.kind = "error" -> resp
       [] event.kind = "text" -> [grown EXCEPT !.text = @ \o event.content]
       [] event.kind = "done" -> [grown EXCEPT !.model = event.model]
       [] event.kind = "call" /\ call = {} -> grown
       [] event.kind = "call" /\ call # {} ->
            [grown EXCEPT !.calls =
               [i \in DOMAIN @ \union {event.delta.index} |->
                  IF i = event.delta.index THEN CHOOSE c \in call : TRUE ELSE @[i]]]

(* finish: the calls as a sequence. *)
Sorted(S) == SelectSeq([i \in 1..(Max(S \union {0}) + 1) |-> i - 1], LAMBDA i : i \in S)

Response(resp) ==
  LET order == Sorted(DOMAIN resp.calls)
  IN [text |-> resp.text, model |-> resp.model,
      calls |-> [i \in DOMAIN order |-> resp.calls[order[i]]]]
=============================================================================
