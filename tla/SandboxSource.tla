---------------------------- MODULE SandboxSource ----------------------------
(***************************************************************************)
(* What a sandbox program means, read off its syntax tree: names, no       *)
(* slots, no code, no fuel.  Given the answers received so far, a program  *)
(* asks for a batch of calls, returns, or fails.  The VM is checked        *)
(* against it.                                                             *)
(***************************************************************************)
EXTENDS SandboxCompiler

-----------------------------------------------------------------------------
(* Which programs are well formed.                                         *)

RECURSIVE Names(_)
Names(e) ==
  CASE e.e = "const" -> {}
    [] e.e = "var" -> {e.name}
    [] e.e \in {"path", "unary"} -> Names(e.of)
    [] e.e = "array" -> UNION {Names(e.items[j]) : j \in DOMAIN e.items}
    [] e.e = "object" -> UNION {Names(e.entries[j].v) : j \in DOMAIN e.entries}
    [] e.e = "binary" -> Names(e.left) \cup Names(e.right)

\* The names a statement leaves in scope for the next one.
Leaves(s) == IF s.op \in {"branch", "for", "return"} THEN {} ELSE {s.name}

RECURSIVE BlockScoped(_, _)
BlockScoped(body, scope) ==
  \A j \in DOMAIN body :
    LET s == body[j]
        here == scope \cup UNION {Leaves(body[i]) : i \in 1..(j - 1)} IN
    /\ Leaves(s) \cap here = {}
    /\ CASE s.op = "branch" -> /\ Names(s.cond) \subseteq here
                               /\ BlockScoped(s.then, here) /\ BlockScoped(s.else, here)
         [] s.op = "for" -> /\ Names(s.coll) \subseteq here
                            /\ BlockScoped(s.body, here \cup {s.item})
         [] s.op = "reduce" -> /\ Names(s.coll) \cup Names(s.init) \subseteq here
                               /\ Names(s.value) \subseteq here \cup {s.item, s.acc}
         [] s.op \in {"map", "filter", "fanout"} ->
              Names(s.coll) \subseteq here /\ Names(s.value) \subseteq here \cup {s.item}
         [] OTHER -> Names(s.value) \subseteq here

WellScoped(body) == BlockScoped(body, {})

\* Whether control cannot run off the end of the block.
RECURSIVE Returns(_)
Returns(body) ==
  \E j \in DOMAIN body :
    \/ body[j].op = "return"
    \/ body[j].op = "branch" /\ Returns(body[j].then) /\ Returns(body[j].else)

\* Nothing follows a statement that always returns.
RECURSIVE Tidy(_)
Tidy(body) ==
  \A j \in DOMAIN body :
    /\ j < Len(body) => ~Returns(<<body[j]>>)
    /\ body[j].op = "branch" => Tidy(body[j].then) /\ Tidy(body[j].else)
    /\ body[j].op = "for" => Tidy(body[j].body)

\* How many values an expression keeps at once: while an operand is computed, those
\* before it wait.
RECURSIVE Needs(_)
Needs(e) ==
  LET Deepest(es) == Max({1} \cup {j - 1 + Needs(es[j]) : j \in DOMAIN es}) IN
  CASE e.e \in {"const", "var"} -> 1
    [] e.e \in {"path", "unary"} -> Needs(e.of)
    [] e.e = "array" -> Deepest(e.items)
    [] e.e = "object" -> Deepest([j \in DOMAIN e.entries |-> e.entries[j].v])
    [] e.e = "binary" -> Deepest(<<e.left, e.right>>)

RECURSIVE Needed(_)
Needed(body) ==
  Max({0} \cup UNION {
    CASE body[j].op = "branch" ->
           {Needs(body[j].cond), Needed(body[j].then), Needed(body[j].else)}
      [] body[j].op = "for" -> {Needs(body[j].coll), Needed(body[j].body)}
      [] body[j].op = "reduce" ->
           {Needs(body[j].coll), Needs(body[j].init), Needs(body[j].value)}
      [] body[j].op \in {"map", "filter", "fanout"} -> {Needs(body[j].coll), Needs(body[j].value)}
      [] OTHER -> {Needs(body[j].value)} : j \in DOMAIN body})

-----------------------------------------------------------------------------
(* What they do.                                                           *)

Good(v) == [ok |-> TRUE, v |-> v]
Bad == [ok |-> FALSE, v |-> Null]
GoodIf(ok, v) == IF ok THEN Good(v) ELSE Bad

Representable(n) == n \in MinInt..MaxInt

\* Division towards zero, by its law; undefined for two pairs of operands.
DividesTo(a, b, q) ==
  LET r == a - b * q IN
  /\ IF r < 0 THEN a < 0 ELSE r > 0 => a > 0
  /\ IF b < 0 THEN b < r /\ r < -b ELSE -b < r /\ r < b
Divisible(a, b) == b # 0 /\ ~(a = MinInt /\ b = -1)
Quotient(a, b) == CHOOSE q \in MinInt..MaxInt : DividesTo(a, b, q)

Arithmetic == {"add", "subtract", "multiply", "divide", "remainder"}
Orderings == {"less", "less_equal", "greater", "greater_equal"}

MeaningOfNumbers(op, a, b) ==
  CASE op = "add" -> GoodIf(Representable(a + b), Num(a + b))
    [] op = "subtract" -> GoodIf(Representable(a - b), Num(a - b))
    [] op = "multiply" -> GoodIf(Representable(a * b), Num(a * b))
    [] op = "divide" -> IF Divisible(a, b) THEN Good(Num(Quotient(a, b))) ELSE Bad
    [] op = "remainder" -> IF Divisible(a, b) THEN Good(Num(a - b * Quotient(a, b))) ELSE Bad
    [] op = "less" -> Good(Bool(a < b))
    [] op = "less_equal" -> Good(Bool(a < b \/ a = b))
    [] op = "greater" -> Good(Bool(b < a))
    [] op = "greater_equal" -> Good(Bool(b < a \/ a = b))

\* "and" and "or" look at the right operand only when the left leaves it open.
MeaningOfBinary(op, l, r) ==
  CASE op = "equal" -> Good(Bool(l = r))
    [] op = "not_equal" -> Good(Bool(l # r))
    [] op \in Arithmetic \cup Orderings ->
         IF l.k = "int" /\ r.k = "int" THEN MeaningOfNumbers(op, l.n, r.n) ELSE Bad
    [] op \in {"and", "or"} ->
         IF l.k # "bool" THEN Bad
         ELSE IF l.b = (op = "or") THEN Good(l)
         ELSE GoodIf(r.k = "bool", r)

\* A sum must be representable after every item.
MeaningOfUnary(op, v) ==
  LET Each(kind) == v.k = "arr" /\ \A j \in DOMAIN v.xs : v.xs[j].k = kind
      SumTo(j) == FoldLeft(LAMBDA acc, x : acc + x.n, 0, SubSeq(v.xs, 1, j)) IN
  CASE op = "not" -> IF v.k = "bool" THEN Good(Bool(~v.b)) ELSE Bad
    [] op = "negate" -> IF v.k = "int" THEN GoodIf(v.n # MinInt, Num(-v.n)) ELSE Bad
    [] op = "count" -> CASE v.k = "arr" -> Good(Num(Len(v.xs)))
                         [] v.k = "obj" -> Good(Num(Len(v.es)))
                         [] OTHER -> Bad
    [] op = "sum" -> IF ~Each("int") THEN Bad
                     ELSE GoodIf(\A j \in DOMAIN v.xs : Representable(SumTo(j)),
                                 Num(SumTo(Len(v.xs))))
    [] op = "all" -> IF Each("bool") THEN Good(Bool(\A j \in DOMAIN v.xs : v.xs[j].b)) ELSE Bad
    [] op = "any" -> IF Each("bool") THEN Good(Bool(\E j \in DOMAIN v.xs : v.xs[j].b)) ELSE Bad

RECURSIVE Meaning(_, _)
Meaning(e, env) ==
  LET All(es) == [j \in DOMAIN es |-> Meaning(es[j], env)] IN
  CASE e.e = "const" -> Good(e.v)
    [] e.e = "var" -> Good(env[e.name])
    [] e.e = "path" ->
         LET of == Meaning(e.of, env) IN
         IF of.ok /\ HasMember(of.v, e.key) THEN Good(Member(of.v, e.key)) ELSE Bad
    [] e.e = "unary" ->
         LET of == Meaning(e.of, env) IN IF of.ok THEN MeaningOfUnary(e.op, of.v) ELSE Bad
    [] e.e = "array" ->
         LET ms == All(e.items) IN
         IF \A j \in DOMAIN ms : ms[j].ok THEN Good(Arr([j \in DOMAIN ms |-> ms[j].v])) ELSE Bad
    [] e.e = "object" ->
         LET ms == All([j \in DOMAIN e.entries |-> e.entries[j].v]) IN
         IF \A j \in DOMAIN ms : ms[j].ok
           THEN Good(Obj([j \in DOMAIN ms |-> Entry(e.entries[j].key, ms[j].v)])) ELSE Bad
    [] e.e = "binary" ->
         LET l == Meaning(e.left, env)
             r == Meaning(e.right, env) IN
         IF l.ok /\ r.ok THEN MeaningOfBinary(e.op, l.v, r.v) ELSE Bad

\* A run of the source: d says what became of it, used counts the batches answered.
Going(env, used) == [d |-> "going", env |-> env, used |-> used]
Stops(st, how, what) == [st EXCEPT !.d = how] @@ [what |-> what]
Naming(st, name, v) == [st EXCEPT !.env = (name :> v) @@ @]

\* A batch of calls: answered already, or what the program now asks for.
Calls(st, s, args, fanout, answers) ==
  IF st.used = Len(answers) THEN Stops(st, "asks", [args |-> args, fanout |-> fanout])
  ELSE LET values == answers[st.used + 1]
           each == [j \in DOMAIN values |-> Response(values[j] # Null, values[j])] IN
       Naming([st EXCEPT !.used = @ + 1], s.name, IF fanout THEN Arr(each) ELSE each[1])

Over(st, s, xs) ==
  LET Value(x) == Meaning(s.value, (s.item :> x) @@ st.env)
      ms == [j \in DOMAIN xs |-> Value(xs[j])]
      Acc(acc, x) == IF ~acc.ok THEN acc
                     ELSE Meaning(s.value, (s.item :> x) @@ (s.acc :> acc.v) @@ st.env)
      allOk == \A j \in DOMAIN ms : ms[j].ok IN
  IF s.op = "reduce" THEN FoldLeft(Acc, Meaning(s.init, st.env), xs)
  ELSE IF ~allOk THEN Bad
  ELSE CASE s.op = "map" -> Good(Arr([j \in DOMAIN xs |-> ms[j].v]))
    [] s.op = "filter" ->
         IF \E j \in DOMAIN ms : ms[j].v.k # "bool" THEN Bad
         ELSE Good(Arr(FoldLeft(LAMBDA acc, j : IF ms[j].v.b THEN Append(acc, xs[j]) ELSE acc,
                                << >>, [j \in DOMAIN xs |-> j])))
    [] s.op = "fanout" ->
         IF \E j \in DOMAIN ms : ms[j].v.k # "obj" THEN Bad
         ELSE Good(Arr([j \in DOMAIN xs |-> ms[j].v]))

RECURSIVE Runs(_, _, _)

Loop(st, s, xs, answers) ==
  LET Round(acc, x) ==
        IF acc.d # "going" THEN acc
        ELSE LET r == Runs(s.body, Naming(acc, s.item, x), answers) IN
             [r EXCEPT !.env = st.env] IN
  FoldLeft(Round, st, xs)

Collection(st, s, answers) ==
  LET coll == Meaning(s.coll, st.env)
      init == IF s.op = "reduce" THEN Meaning(s.init, st.env).ok ELSE TRUE IN
  IF ~coll.ok \/ ~init \/ coll.v.k # "arr" THEN Stops(st, "fails", "execution")
  ELSE IF Len(coll.v.xs) > MaxItems THEN Stops(st, "fails", "resource")
  ELSE IF s.op = "for" THEN Loop(st, s, coll.v.xs, answers)
  ELSE LET r == Over(st, s, coll.v.xs) IN
       IF ~r.ok THEN Stops(st, "fails", "execution")
       ELSE CASE s.op = "fanout" -> IF coll.v.xs = << >> THEN Naming(st, s.name, coll.v)
                                    ELSE Calls(st, s, r.v.xs, TRUE, answers)
              [] OTHER -> Naming(st, s.name, r.v)

Statement(st, s, answers) ==
  LET v == Meaning(IF s.op = "branch" THEN s.cond ELSE s.value, st.env)
      fails == Stops(st, "fails", "execution") IN
  IF st.d # "going" THEN st
  ELSE IF s.op \in {"for", "map", "filter", "reduce", "fanout"} THEN Collection(st, s, answers)
  ELSE IF ~v.ok THEN fails
  ELSE CASE s.op = "let" -> Naming(st, s.name, v.v)
    [] s.op = "branch" ->
         IF v.v.k # "bool" THEN fails
         ELSE [Runs(IF v.v.b THEN s.then ELSE s.else, st, answers) EXCEPT !.env = st.env]
    [] s.op = "invoke" -> IF v.v.k # "obj" THEN fails ELSE Calls(st, s, <<v.v>>, FALSE, answers)
    [] s.op = "return" -> IF Serialized(v.v) > MaxReturn THEN Stops(st, "fails", "output")
                          ELSE Stops(st, "returns", v.v)

Runs(body, st, answers) ==
  FoldLeft(LAMBDA acc, s : Statement(acc, s, answers), st, body)

Meant(body, answers) == Runs(body, Going(NoNames, 0), answers)
=============================================================================
