------------------------------ MODULE MCSandbox ------------------------------
(* Programs for TLC: over one first value a, a statement of each kind, alone,  *)
(* in a branch, in a loop and two deep, then a return.  Some are ill formed.   *)
EXTENDS SandboxVm

True == Bool(TRUE)
False == Bool(FALSE)
Const(v) == [e |-> "const", v |-> v]
Name(n) == [e |-> "var", name |-> n]
Path(e, key) == [e |-> "path", of |-> e, key |-> key]
Unary(op, e) == [e |-> "unary", op |-> op, of |-> e]
Binary(op, l, r) == [e |-> "binary", op |-> op, left |-> l, right |-> r]
Not(e) == Unary("not", e)
And(l, r) == Binary("and", l, r)
List(es) == [e |-> "array", items |-> es]
Fields(e) == [e |-> "object", entries |-> <<Entry("k", e)>>]

Let(n, e) == [op |-> "let", name |-> n, value |-> e]
Invoke(n, e) == [op |-> "invoke", name |-> n, value |-> Fields(e)]
Ret(e) == [op |-> "return", value |-> e]
If(c, t, f) == [op |-> "branch", cond |-> c, then |-> t, else |-> f]
For(i, e, body) == [op |-> "for", item |-> i, coll |-> e, body |-> body]
Each(op, n, i, e, value) == [op |-> op, name |-> n, item |-> i, coll |-> e, value |-> value]
Reduce(n, i, acc, e, init, value) ==
  [op |-> "reduce", name |-> n, item |-> i, acc |-> acc, coll |-> e, init |-> init,
   value |-> value]

Literals(vs) == List([j \in DOMAIN vs |-> Const(vs[j])])
Firsts == {Let("a", List(<< >>)), Let("a", Literals(<<True, False>>)),
           Let("a", Literals(<<True, True, False>>)), Invoke("a", Const(True))}

\* Statements that bind n and use the name x.
Plain(n, x) == {Let(n, List(<<x>>)), Let(n, Not(x)), Invoke(n, x)}
Whole(n, x) ==
  {Each("fanout", n, "x", x, Fields(Name("x"))), Each("map", n, "x", x, Not(Name("x"))),
   Each("filter", n, "x", x, Name("x")),
   Reduce(n, "x", "y", x, Const(True), And(Name("y"), Name("x")))}

Single(n, x) == {<<s>> : s \in Plain(n, x) \cup {Ret(x)}}
Bodies(m, n, x) == Single(m, x) \cup {<<s, t>> : s \in Plain(m, x), t \in Plain(n, Name(m))}

\* Rounds of a loop over a, each going over the whole of a.
Rounds == {<<s, t>> : s \in Whole("b", Name("a")), t \in Plain("c", Name("b")) \cup {Ret(Name("b"))}}

Middles ==
  LET a == Name("a") i == Name("i") IN
  {<< >>} \cup {<<s>> : s \in Plain("b", Path(a, "ok")) \cup Plain("b", a) \cup Plain("a", a)
                            \cup Whole("b", a) \cup Whole("b", Path(a, "output"))}
    \cup {<<s, t>> : s \in Whole("b", a), t \in Whole("c", Name("b"))}
    \cup {<<Let("b", Fields(a)), Let("c", Fields(Name("b")))>>}
    \* The item hides the name it goes over.
    \cup {<<For("a", a, body)>> : body \in Single("b", a)}
    \cup {<<For("i", a, body)>> : body \in Bodies("b", "c", i) \cup Rounds}
    \cup {<<If(Path(a, "ok"), t, f)>> : t \in {<< >>} \cup Bodies("b", "c", a),
                                         f \in {<< >>} \cup Bodies("d", "e", a) \cup Single("b", a)}
    \cup {<<For("i", a, <<If(i, t, f)>>)>> : t \in Single("b", i), f \in Single("d", i)}
    \cup {<<For("i", a, <<If(i, t, f), Invoke("c", i)>>)>> :
             t \in Single("b", i), f \in Single("d", i)}
    \cup {<<For("i", a, <<For("j", a, <<s>>), t>>)>> :
             s \in Plain("b", Name("j")) \cup {Ret(i)}, t \in Plain("c", i)}

Tails == {<<Ret(Name("a"))>>, <<Ret(List(<<Name("b")>>))>>, <<Ret(Path(Name("b"), "k"))>>,
          <<Ret(Path(Path(Name("c"), "k"), "k"))>>, <<Ret(Name("c"))>>, <<Ret(Fields(Path(Name("a"), "ok")))>>}

\* Every operator on values at the ends of the integers and of every kind,
\* and an expression that needs more operands than there are.
Scalars == {Const(Num(n)) : n \in {MinInt, -1, 0, 2, MaxInt}} \cup {Const(True), Const(Null)}
Composites == {List(es) : es \in UNION {[1..n -> {Const(True), Const(False)}] : n \in 0..2}}
                \cup {List(<<List(<<Const(True)>>), Const(False)>>), Fields(Const(True)),
                      Fields(Const(False)), Fields(List(<<Const(True)>>)), Const(Null),
                      List(<<Fields(Const(True)), Const(True)>>)}
Sums == {List(es) : es \in UNION {[1..n -> {Const(Num(2)), Const(Num(MinInt)), Const(True)}]
                                   : n \in 0..3}}
Formulas ==
  {Binary(op, l, r) : op \in Arithmetic \cup Orderings \cup {"and", "or"}, l \in Scalars, r \in Scalars}
    \cup {Binary(op, l, r) : op \in {"equal", "not_equal"}, l \in Composites, r \in Composites}
    \cup {Unary(op, v) : op \in {"not", "negate", "count", "sum"},
                         v \in Scalars \cup Sums \cup {Fields(Const(True))}}
    \cup {Unary(op, v) : op \in {"all", "any"}, v \in Scalars \cup Composites}
    \cup {Path(l, key) : l \in Composites, key \in {"0", "1", "k"}}
    \cup {List(<<Const(True), List(<<Const(True), List(<<Const(True), Const(True)>>)>>)>>)}

MCPrograms == {<<Ret(e)>> : e \in Formulas} \cup {<<f>> \o m \o t : f \in Firsts, m \in Middles, t \in Tails \cup {<< >>}}

MCOutputs == {Null, Arr(<<False>>)}
=============================================================================
