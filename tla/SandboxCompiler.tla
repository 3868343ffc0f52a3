--------------------------- MODULE SandboxCompiler ---------------------------
(***************************************************************************)
(* The compiler and the bytecode verifier of the programmatic sandbox      *)
(* (parser.rs, compiler.rs of llama-harness-programmatic-sandbox): a       *)
(* program is a tree of statements over immutable names; what the VM runs  *)
(* is flat code over numbered slots, checked a second time without the     *)
(* compiler's bookkeeping.  Names, tools and values are abstract; the      *)
(* limits on bytes, nodes and nesting are left out, but for the one on     *)
(* what a program returns.                                                 *)
(***************************************************************************)
EXTENDS Integers, FiniteSets, SequencesExt

CONSTANTS
  MaxInt,      \* i64::MAX
  MaxItems,    \* the ceiling of each statement: max_iterations, max_items, max_calls
  MaxOperands, \* max_operand_stack
  MaxReturn    \* max_return_bytes

ASSUME LimitAssumption ==
  /\ MaxItems \in Nat \ {0} /\ MaxOperands \in Nat \ {0} /\ MaxReturn \in Nat
  /\ MaxInt \in Nat

MinInt == -(MaxInt + 1)

-----------------------------------------------------------------------------
(* Values (RuntimeValue), and how many bytes they serialize to.            *)

Null == [k |-> "null"]
Bool(b) == [k |-> "bool", b |-> b]
Num(n) == [k |-> "int", n |-> n]
Arr(xs) == [k |-> "arr", xs |-> xs]
\* Objects are sequences of entries; a tool's response is {"ok", "output"}.
Obj(es) == [k |-> "obj", es |-> es]
Entry(key, v) == [key |-> key, v |-> v]
Response(ok, output) == Obj(<<Entry("ok", Bool(ok)), Entry("output", output)>>)

KeyBytes(key) == CASE key = "ok" -> 4 [] key = "output" -> 8 [] OTHER -> 3
Total(ns) == FoldLeft(LAMBDA a, n : a + n, 0, ns)
Commas(n) == IF n = 0 THEN 0 ELSE n - 1

RECURSIVE Digits(_)
Digits(n) == IF n < 0 THEN 1 + Digits(-n) ELSE IF n < 10 THEN 1 ELSE 1 + Digits(n \div 10)

RECURSIVE Serialized(_)
Serialized(v) ==
  CASE v.k = "null" -> 4
    [] v.k = "bool" -> IF v.b THEN 4 ELSE 5
    [] v.k = "int" -> Digits(v.n)
    [] v.k = "arr" -> 2 + Commas(Len(v.xs)) + Total([i \in DOMAIN v.xs |-> Serialized(v.xs[i])])
    [] v.k = "obj" -> 2 + Commas(Len(v.es)) +
         Total([i \in DOMAIN v.es |-> KeyBytes(v.es[i].key) + 1 + Serialized(v.es[i].v)])

\* The place a pointer's segment names in an array; 0 if it is no index.
PathIndex(key) == CASE key = "0" -> 1 [] key = "1" -> 2 [] OTHER -> 0

\* One segment of a pointer: whether it resolves, and to what.
HasMember(v, key) ==
  \/ v.k = "obj" /\ \E i \in DOMAIN v.es : v.es[i].key = key
  \/ v.k = "arr" /\ PathIndex(key) \in DOMAIN v.xs
Member(v, key) ==
  IF v.k = "arr" THEN v.xs[PathIndex(key)]
  ELSE v.es[CHOOSE i \in DOMAIN v.es : v.es[i].key = key].v

-----------------------------------------------------------------------------
(* Expressions become postfix code; a name not in scope, "unbound".        *)

RECURSIVE Emit(_, _)
Emit(e, env) ==
  LET EmitAll(es) == FlattenSeq([i \in DOMAIN es |-> Emit(es[i], env)]) IN
  CASE e.e = "const" -> <<[i |-> "const", v |-> e.v]>>
    [] e.e = "var" -> <<IF e.name \in DOMAIN env THEN [i |-> "load", slot |-> env[e.name]]
                        ELSE [i |-> "unbound"]>>
    [] e.e = "path" -> Append(Emit(e.of, env), [i |-> "path", key |-> e.key])
    [] e.e = "array" -> Append(EmitAll(e.items), [i |-> "array", n |-> Len(e.items)])
    [] e.e = "object" -> Append(EmitAll([j \in DOMAIN e.entries |-> e.entries[j].v]),
         [i |-> "object", keys |-> [j \in DOMAIN e.entries |-> e.entries[j].key]])
    [] e.e = "unary" -> Append(Emit(e.of, env), [i |-> "unary", op |-> e.op])
    [] e.e = "binary" ->
         Append(Emit(e.left, env) \o Emit(e.right, env), [i |-> "binary", op |-> e.op])

Bound(code) == \A j \in DOMAIN code : code[j].i # "unbound"

\* How many operands an opcode takes; it always leaves one.
Consumes(ins) ==
  CASE ins.i \in {"const", "load", "unbound"} -> 0
    [] ins.i \in {"path", "unary"} -> 1
    [] ins.i = "binary" -> 2
    [] ins.i = "array" -> ins.n
    [] ins.i = "object" -> Len(ins.keys)

\* MUTANT of Balanced: only what is left at the end is held against the stack.
BalancedAtTheEnd(code) ==
  LET after == [j \in 0..Len(code) |->
                  j - Total([i \in 1..j |-> Consumes(code[i])])] IN
  /\ \A j \in DOMAIN code : Consumes(code[j]) <= after[j - 1]
  /\ after[Len(code)] = 1 /\ after[Len(code)] <= MaxOperands

\* verify_expression: no opcode lacks an operand, none outgrows the stack, one
\* value is left.
Balanced(code) ==
  LET after == [j \in 0..Len(code) |->
                  j - Total([i \in 1..j |-> Consumes(code[i])])] IN
  /\ \A j \in DOMAIN code : Consumes(code[j]) <= after[j - 1] /\ after[j] <= MaxOperands
  /\ after[Len(code)] = 1

-----------------------------------------------------------------------------
(* The compiler: c is its state (code so far, slots and call sites given   *)
(* out, and whether every name was in scope and none rebound).             *)

Bind(env, name, slot) == [n \in DOMAIN env \cup {name} |-> IF n = name THEN slot ELSE env[n]]

Push(c, ins) == [c EXCEPT !.code = Append(@, ins)]
Checked(c, ok) == [c EXCEPT !.ok = @ /\ ok]
Slots(c, n) == [c EXCEPT !.slots = @ + n]
Scope(env, c) == [env |-> env, c |-> c]

\* bind: a fresh slot for a name that is not in scope yet.
Define(env, name, c) == Scope(Bind(env, name, c.slots + 1),
                              Slots(Checked(c, name \notin DOMAIN env), 1))

\* MUTANT of BodySlots: the slots the body of a nested block takes are left out.
BodySlotsOfFirst(start, c) == IF c.slots > start THEN {start + 1} ELSE {}

\* What LoopNext has to clear: every slot given out in the body.
BodySlots(start, c) == (start + 1)..c.slots

RECURSIVE CompileBlock(_, _, _)

CompileBranch(s, env, c) ==
  LET cond == Emit(s.cond, env)
      at == Len(c.code) + 1
      t == CompileBlock(s.then, env, Push(Checked(c, Bound(cond)), [op |-> "branch"])).c
      jump == Len(t.code) + 1
      f == CompileBlock(s.else, env, Push(t, [op |-> "jump"])).c IN
  Scope(env, [f EXCEPT !.code[at] = [op |-> "branch", exprs |-> <<cond>>, target |-> jump + 1],
                       !.code[jump] = [op |-> "jump", target |-> Len(f.code) + 1]])

CompileLoop(s, env, c) ==
  LET coll == Emit(s.coll, env)
      at == Len(c.code) + 1
      item == c.slots + 1
      b == CompileBlock(s.body, Bind(env, s.item, item),
                        Push(Slots(Checked(c, Bound(coll)), 1), [op |-> "loop"])).c
      n == Push(b, [op |-> "next", body |-> at + 1]) IN
  Scope(env, [n EXCEPT !.code[at] =
    [op |-> "loop", exprs |-> <<coll>>, item |-> item, target |-> Len(n.code) + 1,
     clear |-> BodySlots(item, n)]])

\* map, filter, reduce, fan-out: a collection, scoped names, an expression over them.
CompileCollection(s, env, c) ==
  LET coll == Emit(s.coll, env)
      init == IF s.op = "reduce" THEN <<Emit(s.init, env)>> ELSE << >>
      item == c.slots + 1
      inner == Bind(env, s.item, item)
      scoped == IF s.op = "reduce" THEN Bind(inner, s.acc, item + 1) ELSE inner
      each == Emit(s.value, scoped)
      exprs == <<coll>> \o init \o <<each>>
      d == Define(env, s.name, Slots(Checked(c, \A j \in DOMAIN exprs : Bound(exprs[j])),
                                     1 + Len(init))) IN
  Scope(d.env, Push([d.c EXCEPT !.sites = IF s.op = "fanout" THEN @ + 1 ELSE @],
    [op |-> s.op, exprs |-> exprs, item |-> item, slot |-> d.c.slots, site |-> c.sites]))

CompileStatement(s, env, c) ==
  LET value == Emit(s.value, env)
      checked == Checked(c, Bound(value)) IN
  CASE s.op = "branch" -> CompileBranch(s, env, c)
    [] s.op = "for" -> CompileLoop(s, env, c)
    [] s.op \in {"map", "filter", "reduce", "fanout"} -> CompileCollection(s, env, c)
    [] s.op = "return" -> Scope(env, Push(checked, [op |-> "return", exprs |-> <<value>>]))
    [] s.op \in {"let", "invoke"} ->
         LET d == Define(env, s.name, checked) IN
         Scope(d.env, Push([d.c EXCEPT !.sites = IF s.op = "invoke" THEN @ + 1 ELSE @],
           [op |-> s.op, exprs |-> <<value>>, slot |-> d.c.slots, site |-> c.sites]))

CompileBlock(body, env, c) ==
  FoldLeft(LAMBDA acc, s : CompileStatement(s, acc.env, acc.c), Scope(env, c), body)

NoNames == [n \in {} |-> 0]
Compiled(body) ==
  CompileBlock(body, NoNames, [code |-> << >>, slots |-> 0, sites |-> 0, ok |-> TRUE]).c

-----------------------------------------------------------------------------
(* validate_ast: a name is declared by one statement of the program.       *)

RECURSIVE Declared(_)
Declared(body) ==
  FlattenSeq([i \in DOMAIN body |->
    CASE body[i].op = "branch" -> Declared(body[i].then) \o Declared(body[i].else)
      [] body[i].op = "for" -> Declared(body[i].body)
      [] body[i].op = "return" -> << >>
      [] OTHER -> <<body[i].name>>])

ValidAst(body) ==
  Cardinality(ToSet(Declared(body))) = Len(Declared(body))

-----------------------------------------------------------------------------
(* Abstract values: how short a value can serialize, and what is known of  *)
(* its shape.                                                              *)

Scalar(n) == [min |-> n, shape |-> [k |-> "none"]]
Unknown == Scalar(1)

Joined(a, b) == IF a = b THEN a ELSE Scalar(IF a.min < b.min THEN a.min ELSE b.min)

Aggregate(min, shape) == [min |-> min, shape |-> shape]

\* MUTANT of AbstractPath: a member is as long as the object it is read from.
AbstractPathOfWhole(a, key) == a

AbstractPath(a, key) ==
  CASE a.shape.k = "obj" /\ key \in DOMAIN a.shape.at -> a.shape.at[key]
    [] a.shape.k = "arr" /\ PathIndex(key) \in DOMAIN a.shape.at -> a.shape.at[PathIndex(key)]
    [] OTHER -> Unknown

Popped(stack, n) == SubSeq(stack, 1, Len(stack) - n)
TopItems(stack, n) == SubSeq(stack, Len(stack) - n + 1, Len(stack))

\* analyze_expression
AbstractStep(stack, ins, known) ==
  CASE ins.i = "const" -> Append(stack, Scalar(Serialized(ins.v)))
    [] ins.i = "load" -> Append(stack, known[ins.slot])
    [] ins.i = "path" -> Append(Popped(stack, 1), AbstractPath(Last(stack), ins.key))
    [] ins.i = "unary" -> Append(Popped(stack, 1), Unknown)
    [] ins.i = "binary" -> Append(Popped(stack, 2), Unknown)
    [] ins.i = "array" ->
         LET items == TopItems(stack, ins.n) IN
         Append(Popped(stack, ins.n), Aggregate(
           2 + Commas(ins.n) + Total([j \in DOMAIN items |-> items[j].min]),
           [k |-> "arr", at |-> items]))
    [] ins.i = "object" ->
         LET n == Len(ins.keys)
             vs == TopItems(stack, n) IN
         Append(Popped(stack, n), Aggregate(
           2 + Commas(n) + Total([j \in 1..n |-> KeyBytes(ins.keys[j]) + 1 + vs[j].min]),
           [k |-> "obj", at |-> [key \in ToSet(ins.keys) |->
                                   vs[CHOOSE j \in 1..n : ins.keys[j] = key]]]))

Analyzed(code, known) ==
  FoldLeft(LAMBDA st, ins : AbstractStep(st, ins, known), << >>, code)[1]

-----------------------------------------------------------------------------
(* The verifier: a forward flow of what each instruction finds initialized. *)

SlotsOf(ins) ==
  CASE ins.op \in {"let", "invoke"} -> {ins.slot}
    [] ins.op = "loop" -> {ins.item}
    [] ins.op \in {"map", "filter", "fanout"} -> {ins.slot, ins.item}
    [] ins.op = "reduce" -> {ins.slot, ins.item, ins.item + 1}
    [] OTHER -> {}

RegionSlots(code, from, to) == UNION {SlotsOf(code[j]) : j \in from..to}

\* The metadata of every loop is what its region of code says.
LoopsAgree(code) ==
  \A pc \in DOMAIN code : code[pc].op = "loop" =>
    /\ code[code[pc].target - 1] = [op |-> "next", body |-> pc + 1]
    /\ code[pc].clear = RegionSlots(code, pc + 1, code[pc].target - 2) \ {code[pc].item}

SitesDiffer(code) ==
  \A p, q \in DOMAIN code :
    p # q /\ code[p].op \in {"invoke", "fanout"} /\ code[q].op \in {"invoke", "fanout"}
      => code[p].site # code[q].site

LoopOf(code, pc) == code[code[pc].body - 1]

Known(known, slot, a) ==
  [s \in DOMAIN known \cup {slot} |-> IF s = slot THEN a ELSE known[s]]
Forget(known, slots) == [s \in DOMAIN known \ slots |-> known[s]]

Loads(code, known) == \A j \in DOMAIN code : code[j].i = "load" => code[j].slot \in DOMAIN known

\* verify_instruction_loads, and the checks before a binding.
Usable(ins, known) ==
  LET outer == IF ins.op = "reduce" THEN 2 ELSE 1
      scoped == IF ins.op = "reduce" THEN {ins.item, ins.item + 1} ELSE {ins.item}
      inner == [s \in DOMAIN known \cup scoped |-> Unknown] IN
  CASE ins.op \in {"jump", "next"} -> TRUE
    [] ins.op \in {"branch", "return"} -> Loads(ins.exprs[1], known)
    [] ins.op = "loop" -> Loads(ins.exprs[1], known) /\ ins.item \notin DOMAIN known
    [] ins.op \in {"let", "invoke"} -> Loads(ins.exprs[1], known) /\ ins.slot \notin DOMAIN known
    [] OTHER ->
         /\ scoped \cap DOMAIN known = {}
         /\ \A j \in 1..outer : Loads(ins.exprs[j], known)
         /\ Loads(ins.exprs[outer + 1], inner)
         /\ ins.slot \notin DOMAIN known

\* Where control goes from pc, and what is known there.
Flows(code, pc, known) ==
  LET ins == code[pc]
      To(target, k) == [target |-> target, known |-> k] IN
  CASE ins.op = "return" -> {}
    [] ins.op = "branch" -> {To(pc + 1, known), To(ins.target, known)}
    [] ins.op = "jump" -> {To(ins.target, known)}
    [] ins.op = "loop" -> {To(pc + 1, Known(known, ins.item, Unknown)), To(ins.target, known)}
    [] ins.op = "next" ->
         LET loop == LoopOf(code, pc)
             after == Forget(known, loop.clear \cup {loop.item}) IN
         {To(ins.body, Known(after, loop.item, Unknown)), To(pc + 1, after)}
    [] ins.op = "let" -> {To(pc + 1, Known(known, ins.slot, Analyzed(ins.exprs[1], known)))}
    [] ins.op \in {"map", "filter", "fanout"} -> {To(pc + 1, Known(known, ins.slot, Scalar(2)))}
    [] OTHER -> {To(pc + 1, Known(known, ins.slot, Unknown))}

Meet(a, b) == [s \in DOMAIN a \cap DOMAIN b |-> Joined(a[s], b[s])]

\* One instruction of the worklist: [states, pending], or a state with bad set.
Propagate(code, w, flow) ==
  IF flow.target \notin DOMAIN code THEN [w EXCEPT !.bad = TRUE]
  ELSE IF flow.target \notin DOMAIN w.at
    THEN [w EXCEPT !.at = Known(@, flow.target, flow.known),
                   !.pending = @ \cup {flow.target}]
  ELSE LET met == Meet(w.at[flow.target], flow.known) IN
       IF met = w.at[flow.target] THEN w
       ELSE [w EXCEPT !.at[flow.target] = met, !.pending = @ \cup {flow.target}]

RECURSIVE Flow(_, _)
Flow(code, w) ==
  IF w.pending = {} \/ w.bad THEN w
  ELSE LET pc == CHOOSE p \in w.pending : TRUE
           taken == [w EXCEPT !.pending = @ \ {pc}]
           flows == Flows(code, pc, w.at[pc]) IN
       IF ~Usable(code[pc], w.at[pc]) THEN [w EXCEPT !.bad = TRUE]
       ELSE Flow(code, FoldLeft(LAMBDA acc, f : Propagate(code, acc, f),
                                taken, SetToSeq(flows)))

Flowed(code) == Flow(code, [at |-> [p \in {1} |-> NoNames], pending |-> {1}, bad |-> FALSE])

\* The shortest a reachable return can serialize to.
ReturnMinimum(code, w, pc) == Analyzed(code[pc].exprs[1], w.at[pc]).min

Expressions(ins) == IF ins.op \in {"jump", "next"} THEN {} ELSE ToSet(ins.exprs)

\* compile_program; which of two reasons the verifier meets first is left out.
Verdict(body) ==
  LET c == Compiled(body)
      w == Flowed(c.code) IN
  IF ~ValidAst(body) \/ ~c.ok THEN "invalid"
  ELSE IF \E pc \in DOMAIN c.code : \E e \in Expressions(c.code[pc]) : ~Balanced(e)
    THEN "operands"
  ELSE IF c.code = << >> THEN "invalid"
  ELSE IF Last(c.code).op # "return" THEN "invalid"
  ELSE IF ~LoopsAgree(c.code) \/ ~SitesDiffer(c.code) \/ w.bad THEN "invalid"
  ELSE IF \E pc \in DOMAIN w.at : c.code[pc].op = "return" /\ ReturnMinimum(c.code, w, pc) > MaxReturn
    THEN "output"
  ELSE "ok"
=============================================================================
