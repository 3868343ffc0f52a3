------------------------------ MODULE SandboxVm ------------------------------
(***************************************************************************)
(* The sandbox's virtual machine (vm.rs): it runs verified code one unit   *)
(* of fuel at a time, in slices the host asks for; it hands tool calls     *)
(* out in batches and goes on when the answers come back, each at its own  *)
(* place.  Comparing and aggregating composite values takes a unit per     *)
(* step, as in the code; building and following them, several units there, *)
(* is one unit here.  Strings and byte accounting are left out.            *)
(***************************************************************************)
EXTENDS SandboxSource

CONSTANTS
  Programs,    \* the parsed programs the host submits
  Outputs,     \* the values a tool answers
  Slices,      \* the fuel the host gives a step: 1..max_slice_fuel
  MaxFuel,     \* max_fuel
  MaxYields    \* max_yields

VARIABLES
  program,     \* the syntax tree
  vm,          \* the Execution
  answers      \* the batches of values the host has answered, in order

vars == <<program, vm, answers>>

NotStored == [k |-> "unset"]
Idle == [a |-> "idle"]
NoWork == [w |-> "none"]
NoOperation == [o |-> "none"]
NotPending == [on |-> FALSE]
Running == [o |-> "running"]

-----------------------------------------------------------------------------
(* Transitions of the machine m over the code it runs, m.code.             *)

At(m) == m.code[m.pc]
\* Goes one instruction further.
Ahead(m) == [m EXCEPT !.pc = @ + 1]

\* An error, after which the execution is terminal.
Terminal(m, why) ==
  [m EXCEPT !.outcome = [o |-> "failed", why |-> why], !.remaining = 0,
            !.active = Idle, !.work = NoWork, !.pending = NotPending]

Store(m, slot, v) ==
  IF m.locals[slot] # NotStored THEN Terminal(m, "internal")
  ELSE Ahead([m EXCEPT !.locals[slot] = v])

\* A scoped slot is simply overwritten.
Assign(m, slot, v) == [m EXCEPT !.locals[slot] = v]
Clear(m, slots) ==
  [m EXCEPT !.locals = [s \in DOMAIN @ |-> IF s \in slots THEN NotStored ELSE @[s]]]

Scoped(ins) == IF ins.op = "reduce" THEN {ins.item, ins.item + 1} ELSE {ins.item}

\* start_eval: which expression of the instruction, and what for.
Eval(m, purpose, expr, kept) ==
  [m EXCEPT !.active =
    [a |-> "eval", purpose |-> purpose, expr |-> expr, ip |-> 1, stack |-> << >>,
     operation |-> NoOperation, kept |-> kept]]
Materialize(m, v) == [m EXCEPT !.active = [a |-> "materialize", v |-> v]]

\* suspend: m.ordinal numbers the calls of the execution.
Suspend(m, ins, args, fanout) ==
  IF m.yields >= MaxYields THEN Terminal(m, "resource")
  ELSE [m EXCEPT !.yields = @ + 1, !.remaining = 0, !.work = NoWork, !.active = Idle,
                 !.pending =
    [on |-> TRUE, token |-> m.yields, slot |-> ins.slot, fanout |-> fanout, args |-> args,
     calls |-> [j \in DOMAIN args |->
                  [site |-> ins.site, ordinal |-> m.ordinal - Len(args) + j - 1]]]]

-----------------------------------------------------------------------------
(* Expressions: one opcode on the operand stack, or one step of an         *)
(* operation that an opcode began (EvalOperation).                         *)

Pushed(stack, v) == [stack |-> Append(stack, v), fault |-> "none", operation |-> NoOperation]
Fault(why) == [stack |-> << >>, fault |-> why, operation |-> NoOperation]
Begun(stack, operation) == [stack |-> stack, fault |-> "none", operation |-> operation]

IsBool(v) == v.k = "bool"
IsInt(v) == v.k = "int"

\* checked_add and its like: the exact result, if it has one and it fits.
Signed(negative, n) == IF negative THEN -n ELSE n
Magnitude(n) == Signed(n < 0, n)
Quotiented(a, b) == Signed((a < 0) # (b < 0), Magnitude(a) \div Magnitude(b))

Computed(op, a, b) ==
  CASE op = "add" -> a + b
    [] op = "subtract" -> a - b
    [] op = "multiply" -> a * b
    [] op = "divide" -> Quotiented(a, b)
    [] op = "remainder" -> a - b * Quotiented(a, b)

Overflows(op, a, b) ==
  IF op \in {"divide", "remainder"} THEN b = 0 \/ ~Representable(Quotiented(a, b))
  ELSE ~Representable(Computed(op, a, b))

Ordered(op, a, b) ==
  CASE op = "less" -> a < b
    [] op = "less_equal" -> a <= b
    [] op = "greater" -> a > b
    [] op = "greater_equal" -> a >= b

\* binary_scalar: && and || of Rust do not look at a right operand they do not need.
BinaryScalar(op, below, l, r) ==
  IF op \in {"and", "or"} THEN
         IF ~IsBool(l) \/ (l.b = (op = "and") /\ ~IsBool(r)) THEN Fault("execution")
         ELSE Pushed(below, Bool(IF op = "and" THEN l.b /\ r.b ELSE l.b \/ r.b))
  ELSE IF ~IsInt(l) \/ ~IsInt(r) THEN Fault("execution")
  ELSE IF op \in Orderings THEN Pushed(below, Bool(Ordered(op, l.n, r.n)))
  ELSE IF Overflows(op, l.n, r.n) THEN Fault("execution")
  ELSE Pushed(below, Num(Computed(op, l.n, r.n)))

\* unary_scalar
UnaryScalar(op, below, v) ==
  CASE op = "not" -> IF IsBool(v) THEN Pushed(below, Bool(~v.b)) ELSE Fault("execution")
    [] op = "negate" -> IF ~IsInt(v) \/ v.n = MinInt THEN Fault("execution")
                        ELSE Pushed(below, Num(-v.n))
    [] op = "count" -> CASE v.k = "arr" -> Pushed(below, Num(Len(v.xs)))
                         [] v.k = "obj" -> Pushed(below, Num(Len(v.es)))
                         [] OTHER -> Fault("execution")

\* Frames still to be compared: two values, or the members of two composites
\* from the next one on.
Values(l, r) == [f |-> "values", l |-> l, r |-> r]
Members(l, r, next) == [f |-> "members", l |-> l, r |-> r, next |-> next]
Children(v) == IF v.k = "arr" THEN [j \in DOMAIN v.xs |-> Entry("", v.xs[j])] ELSE v.es

\* MUTANT of Frames: the members after the next one are forgotten.
FramesOfNext(frame, rest) ==
  Append(rest, Values(frame.l[frame.next].v, frame.r[frame.next].v))

Frames(frame, rest) ==
  rest \o <<Members(frame.l, frame.r, frame.next + 1),
            Values(frame.l[frame.next].v, frame.r[frame.next].v)>>

\* advance_equality
Compared(s) ==
  LET frame == Last(s.frames)
      rest == Front(s.frames)
      Left(frames) == [s EXCEPT !.frames = frames]
      Differ == [s EXCEPT !.equal = FALSE, !.frames = << >>] IN
  IF frame.f = "members"
    THEN IF frame.next > Len(frame.l) THEN Left(rest)
         ELSE IF frame.l[frame.next].key # frame.r[frame.next].key THEN Differ
         ELSE Left(Frames(frame, rest))
  ELSE IF frame.l.k # frame.r.k THEN Differ
  ELSE IF frame.l.k \in {"arr", "obj"}
    THEN LET l == Children(frame.l)
             r == Children(frame.r) IN
         IF Len(l) # Len(r) THEN Differ
         ELSE Left(IF l = << >> THEN rest ELSE Append(rest, Members(l, r, 1)))
  ELSE IF frame.l = frame.r THEN Left(rest) ELSE Differ

\* advance_aggregate: the next item, or the value. Nothing is cut short.
Aggregated(s, stack) ==
  LET item == s.xs[s.next]
      Next(acc) == Begun(stack, [s EXCEPT !.acc = acc, !.next = @ + 1]) IN
  IF s.next > Len(s.xs) THEN Pushed(stack, s.acc)
  ELSE CASE s.of = "sum" /\ IsInt(item) ->
         IF Overflows("add", s.acc.n, item.n) THEN Fault("execution")
         ELSE Next(Num(s.acc.n + item.n))
    [] s.of = "all" /\ IsBool(item) -> Next(Bool(s.acc.b /\ item.b))
    [] s.of = "any" /\ IsBool(item) -> Next(Bool(s.acc.b \/ item.b))
    [] OTHER -> Fault("execution")

\* advance_eval_operation
Continued(s, stack) ==
  IF s.o = "aggregate" THEN Aggregated(s, stack)
  ELSE LET c == Compared(s) IN
       IF c.frames # << >> THEN Begun(stack, c)
       ELSE Pushed(stack, Bool(c.equal # c.negate))

ArrayBuilt(stack, n) == Pushed(Popped(stack, n), Arr(TopItems(stack, n)))
ObjectBuilt(stack, keys) ==
  LET vs == TopItems(stack, Len(keys)) IN
  Pushed(Popped(stack, Len(keys)), Obj([j \in DOMAIN keys |-> Entry(keys[j], vs[j])]))

\* An aggregate begins at the first item.
AggregateOf(op, xs) ==
  [o |-> "aggregate", of |-> op, xs |-> xs, next |-> 1,
   acc |-> IF op = "sum" THEN Num(0) ELSE Bool(op = "all")]
EqualityOf(op, l, r) ==
  [o |-> "equality", negate |-> op = "not_equal", equal |-> TRUE, frames |-> <<Values(l, r)>>]

\* advance_eval
Evaluated(ins, stack, locals) ==
  LET v == Last(stack)
      below == Popped(stack, 1) IN
  CASE ins.i = "const" -> Pushed(stack, ins.v)
    [] ins.i = "load" -> IF locals[ins.slot] = NotStored THEN Fault("internal")
                         ELSE Pushed(stack, locals[ins.slot])
    [] ins.i = "path" -> IF HasMember(v, ins.key) THEN Pushed(below, Member(v, ins.key))
                         ELSE Fault("execution")
    [] ins.i = "array" -> ArrayBuilt(stack, ins.n)
    [] ins.i = "object" -> ObjectBuilt(stack, ins.keys)
    [] ins.i = "binary" ->
         IF ins.op \in {"equal", "not_equal"}
           THEN Begun(Front(below), EqualityOf(ins.op, Last(below), v))
         ELSE BinaryScalar(ins.op, Front(below), Last(below), v)
    [] ins.i = "unary" ->
         IF ins.op \notin {"sum", "all", "any"} THEN UnaryScalar(ins.op, below, v)
         ELSE IF v.k # "arr" THEN Fault("execution")
         ELSE Begun(below, AggregateOf(ins.op, v.xs))

-----------------------------------------------------------------------------
(* What an expression's value is for (finish_eval).                        *)

Branched(m, v) ==
  IF ~IsBool(v) THEN Terminal(m, "execution")
  ELSE IF v.b THEN Ahead(m) ELSE [m EXCEPT !.pc = At(m).target]

LoopEntered(m, v) ==
  IF v.k # "arr" THEN Terminal(m, "execution")
  ELSE IF Len(v.xs) > MaxItems THEN Terminal(m, "resource")
  ELSE IF v.xs = << >> THEN [m EXCEPT !.pc = At(m).target]
  ELSE Ahead([Assign(m, At(m).item, v.xs[1])
                EXCEPT !.loops = Append(@, [coll |-> v.xs, index |-> 1, pc |-> m.pc])])

\* start_collection_work, start_reduce_work: out is the output or the accumulator.
WorkStarted(m, v, out) ==
  IF v.k # "arr" THEN Terminal(m, "execution")
  ELSE IF Len(v.xs) > MaxItems THEN Terminal(m, "resource")
  ELSE IF At(m).op = "fanout" /\ v.xs = << >> THEN Store(Clear(m, Scoped(At(m))), At(m).slot, v)
  ELSE [m EXCEPT !.work = [w |-> At(m).op, coll |-> v.xs, index |-> 1, out |-> out]]

\* One item of a map, a filter or a reduce.
ItemDone(m, v) ==
  LET item == m.work.coll[m.work.index]
      With(out) == [m EXCEPT !.work.out = out, !.work.index = @ + 1] IN
  CASE At(m).op = "map" -> With(Append(m.work.out, v))
    [] At(m).op = "reduce" -> With(v)
    [] At(m).op = "filter" ->
         IF ~IsBool(v) THEN Terminal(m, "execution")
         ELSE With(IF v.b THEN Append(m.work.out, item) ELSE m.work.out)
    [] At(m).op = "fanout" ->
         IF v.k # "obj" THEN Terminal(m, "execution") ELSE Materialize(m, v)

FinishEval(done, v) ==
  LET m == [done EXCEPT !.active = Idle]
      ins == At(m) IN
  IF done.active.purpose = "item" THEN ItemDone(m, v)
  ELSE IF done.active.purpose = "initial" THEN WorkStarted(m, done.active.kept, v)
  ELSE CASE ins.op = "let" -> Store(m, ins.slot, v)
    [] ins.op = "branch" -> Branched(m, v)
    [] ins.op = "loop" -> LoopEntered(m, v)
    [] ins.op = "reduce" -> Eval(m, "initial", 2, v)
    [] ins.op \in {"map", "filter", "fanout"} -> WorkStarted(m, v, << >>)
    [] ins.op = "invoke" -> IF v.k # "obj" THEN Terminal(m, "execution") ELSE Materialize(m, v)
    [] ins.op = "return" -> IF Serialized(v) > MaxReturn THEN Terminal(m, "output")
                            ELSE Materialize(m, v)

FinishMaterialize(m) ==
  LET v == m.active.v
      numbered == [m EXCEPT !.ordinal = @ + 1, !.active = Idle] IN
  CASE At(m).op = "return" ->
         [m EXCEPT !.outcome = [o |-> "complete", v |-> v], !.remaining = 0, !.active = Idle]
    [] At(m).op = "invoke" -> Suspend(numbered, At(m), <<v>>, FALSE)
    [] At(m).op = "fanout" ->
         [numbered EXCEPT !.work.out = Append(@, v), !.work.index = @ + 1]

\* The next round of the innermost loop, or its end.
LoopNext(m) ==
  IF m.loops = << >> THEN Terminal(m, "internal")
  ELSE LET frame == Last(m.loops) IN
       IF frame.pc + 1 # At(m).body THEN Terminal(m, "internal")
       ELSE IF frame.index + 1 > Len(frame.coll)
         THEN Ahead(Clear([m EXCEPT !.loops = Front(@)], {m.code[frame.pc].item}))
       ELSE [m EXCEPT !.active = [a |-> "clear", left |-> m.code[frame.pc].clear,
                                  next |-> frame.coll[frame.index + 1]]]

\* advance_work
NextItem(m) ==
  LET w == m.work
      ins == At(m)
      done == [Clear(m, Scoped(ins)) EXCEPT !.work = NoWork] IN
  IF w.index <= Len(w.coll)
    THEN LET bound == Assign(m, ins.item, w.coll[w.index]) IN
         IF w.w = "reduce" THEN Eval(Assign(bound, ins.item + 1, w.out), "item", 3, Null)
         ELSE Eval(bound, "item", 2, Null)
  ELSE CASE w.w = "fanout" -> Suspend(done, ins, w.out, TRUE)
         [] w.w = "reduce" -> Store(done, ins.slot, w.out)
         [] OTHER -> Store(done, ins.slot, Arr(w.out))

\* MUTANT of ClearNext: the round starts over as soon as one slot is clear.
ClearNextFirst(m) ==
  LET frame == Last(m.loops)
      left == m.active.left
      first == {s \in left : \A t \in left : s <= t} IN
  [Assign(Clear(m, first), m.code[frame.pc].item, m.active.next)
     EXCEPT !.active = Idle, !.loops[Len(m.loops)].index = @ + 1, !.pc = frame.pc + 1]

\* The lowest slot left to clear, then the next item and the body again.
ClearNext(m) ==
  LET frame == Last(m.loops)
      left == m.active.left IN
  IF left # {}
    THEN LET s == CHOOSE s \in left : \A t \in left : s <= t IN
         [Clear(m, {s}) EXCEPT !.active.left = @ \ {s}]
  ELSE [Assign(m, m.code[frame.pc].item, m.active.next)
          EXCEPT !.active = Idle, !.loops[Len(m.loops)].index = @ + 1, !.pc = frame.pc + 1]

-----------------------------------------------------------------------------
(* The host.                                                               *)

Init ==
  \E p \in Programs :
    LET verdict == Verdict(p)
        c == Compiled(p) IN
    /\ program = p
    /\ answers = << >>
    /\ vm = [code |-> c.code, pc |-> 1, locals |-> [s \in 1..c.slots |-> NotStored],
             loops |-> << >>, work |-> NoWork, active |-> Idle, pending |-> NotPending,
             outcome |-> IF verdict = "ok" THEN Running ELSE [o |-> "rejected", why |-> verdict],
             fuel |-> 0, remaining |-> 0, yields |-> 0, ordinal |-> 0]

Step(f) ==
  /\ vm.outcome = Running /\ ~vm.pending.on /\ vm.remaining = 0
  /\ vm' = [vm EXCEPT !.remaining = f]
  /\ UNCHANGED <<program, answers>>

\* charge_one, then a transition.
Charged == [vm EXCEPT !.fuel = @ + 1, !.remaining = @ - 1]
Unit(next) ==
  /\ vm.remaining > 0
  /\ vm' = IF vm.fuel >= MaxFuel THEN Terminal(vm, "resource") ELSE next
  /\ UNCHANGED <<program, answers>>

StartInstruction ==
  /\ vm.active = Idle /\ vm.work = NoWork
  /\ LET op == At(vm).op IN
     Unit(CASE op = "jump" -> [Charged EXCEPT !.pc = At(vm).target]
            [] op = "next" -> LoopNext(Charged)
            [] OTHER -> Eval(Charged, "value", 1, Null))

AdvanceEval ==
  /\ vm.active.a = "eval"
  /\ LET e == vm.active
         expr == At(vm).exprs[e.expr]
         done == IF e.operation # NoOperation THEN Continued(e.operation, e.stack)
                 ELSE Evaluated(expr[e.ip], e.stack, vm.locals) IN
     Unit(IF done.fault # "none" THEN Terminal(Charged, done.fault)
          ELSE IF done.operation # NoOperation
            THEN [Charged EXCEPT !.active.stack = done.stack, !.active.operation = done.operation]
          ELSE IF e.ip = Len(expr) THEN FinishEval(Charged, Last(done.stack))
          ELSE [Charged EXCEPT !.active.stack = done.stack, !.active.ip = @ + 1,
                                !.active.operation = NoOperation])

AdvanceMaterialize == vm.active.a = "materialize" /\ Unit(FinishMaterialize(Charged))
AdvanceClear == vm.active.a = "clear" /\ Unit(ClearNext(Charged))
AdvanceWork == vm.active = Idle /\ vm.work # NoWork /\ Unit(NextItem(Charged))

\* What the host may hand to resume: an answer per call, or a batch that was
\* cut short or put out of order; the token of this suspension, or another.
Answered(calls, values) ==
  [j \in DOMAIN calls |-> [call |-> calls[j], ok |-> values[j] # Null, output |-> values[j]]]
Deliveries(rs) == {rs, Reverse(rs), Front(rs)}

\* MUTANT of Fits: the answers are only counted.
FitsByCount(p, token, rs) == p.on /\ token = p.token /\ Len(rs) = Len(p.calls)

\* validate_resume
Fits(p, token, rs) ==
  /\ p.on /\ token = p.token
  /\ Len(rs) = Len(p.calls)
  /\ \A j \in DOMAIN rs : rs[j].call = p.calls[j]

Resume(values, rs, token) ==
  /\ vm.outcome = Running /\ vm.remaining = 0
  /\ IF Fits(vm.pending, token, rs)
       THEN LET each == [j \in DOMAIN rs |-> Response(rs[j].ok, rs[j].output)]
                m == [vm EXCEPT !.pending = NotPending] IN
            /\ vm' = Store(m, vm.pending.slot, IF vm.pending.fanout THEN Arr(each) ELSE each[1])
            /\ answers' = Append(answers, values)
       ELSE vm' = Terminal(vm, "resume") /\ UNCHANGED answers
  /\ UNCHANGED program

ResumeSuspended ==
  /\ vm.pending.on
  /\ \E values \in [DOMAIN vm.pending.calls -> Outputs] :
       LET rs == Answered(vm.pending.calls, values) IN
       \E delivered \in Deliveries(rs) : \E token \in {vm.pending.token, vm.yields} :
         Resume(values, delivered, token)

\* A token from another execution, before this one asked for anything (bounded:
\* before it ran at all).
ResumeUnasked == ~vm.pending.on /\ vm.fuel = 0 /\ Resume(<< >>, << >>, 0)

Next ==
  \/ \E f \in Slices : Step(f)
  \/ StartInstruction
  \/ AdvanceEval
  \/ AdvanceMaterialize
  \/ AdvanceClear
  \/ AdvanceWork
  \/ ResumeSuspended
  \/ ResumeUnasked

Spec == Init /\ [][Next]_vars

-----------------------------------------------------------------------------
(* Properties.                                                             *)

Whys == {"none", "invalid", "operands", "output", "execution", "resource", "resume"}

\* The machine stays within its code, its operands and its limits, and none of
\* the checks that the verifier makes redundant ever fails: a local read before
\* it is set or set twice, a loop end without its frame ("internal" is no Why).
TypeOK ==
  /\ vm.outcome.o \in {"running", "complete", "failed", "rejected"}
  /\ vm.outcome.o \in {"failed", "rejected"} => vm.outcome.why \in Whys
  /\ vm.outcome.o = "running" => vm.pc \in DOMAIN vm.code
  /\ vm.fuel \in 0..MaxFuel /\ vm.yields \in 0..MaxYields
  /\ vm.remaining \in 0..Max(Slices)
  /\ vm.active.a = "eval" => Len(vm.active.stack) < vm.active.ip
  /\ vm.pending.on => vm.remaining = 0 /\ vm.active = Idle /\ vm.work = NoWork

\* The bytecode verifier, which sees slots and jumps only, accepts every program
\* whose names are in scope, that cannot run off its end and that has room for its
\* operands, and nothing that breaks one of the three (compile_program,
\* verify_expression, verify_definite_local_initialization).
VerifierAgrees ==
  vm.fuel = 0 /\ vm.remaining = 0 =>
    LET accepted == Verdict(program) # "invalid"
        sound == WellScoped(program) /\ Returns(program) IN
    /\ accepted => sound \/ Verdict(program) = "operands"
    /\ Verdict(program) = "operands" => Needed(program) > MaxOperands
    /\ vm.outcome = Running => Needed(program) <= MaxOperands
    /\ sound /\ Tidy(program) /\ ValidAst(program) => accepted

\* Whatever the slices were, each batch the machine hands out, what it returns
\* and how it fails are what the source means with the answers received so far:
\* no answer is lost or bound to another call, no round of a loop sees the
\* locals of the one before.
AgreesWithSource ==
  LET meant == Meant(program, answers) IN
  /\ vm.pending.on =>
       meant.d = "asks" /\ meant.what = [args |-> vm.pending.args, fanout |-> vm.pending.fanout]
  /\ vm.outcome.o = "complete" => meant.d = "returns" /\ meant.what = vm.outcome.v
  /\ vm.outcome.o = "failed" =>
       CASE vm.outcome.why \in {"execution", "output"} ->
              meant.d = "fails" /\ meant.what = vm.outcome.why
         [] vm.outcome.why = "resource" ->
              \/ vm.fuel = MaxFuel
              \/ vm.yields = MaxYields /\ meant.d = "asks"
              \/ meant.d = "fails" /\ meant.what = "resource"
         [] OTHER -> vm.outcome.why = "resume"

\* What the verifier says is the shortest a return can serialize to is no more
\* than what it serializes to: a program is refused for the size of its result
\* only when no run of that return could have fitted (AbstractValue).
StaticMinimumHolds ==
  vm.outcome.o = "complete" =>
    ReturnMinimum(vm.code, Flowed(vm.code), vm.pc) <= Serialized(vm.outcome.v)

\* The operand stack has no bound of its own at run time: that no expression of an
\* accepted program outgrows it, or runs out of operands, is verify_expression's word.
OperandsBounded ==
  vm.active.a = "eval" =>
    LET e == vm.active
        expr == At(vm).exprs[e.expr] IN
    /\ Len(e.stack) <= MaxOperands
    /\ e.operation = NoOperation => Consumes(expr[e.ip]) <= Len(e.stack)

\* The verifier judges a program as its source deserves: its names and its ends,
\* the operands it needs, and the size of its result.
VerifierSound == VerifierAgrees /\ OperandsBounded /\ StaticMinimumHolds
=============================================================================
