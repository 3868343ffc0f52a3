------------------------------ MODULE MCPlanRun ------------------------------
(* Instances of PlanRun for TLC.  w and x are two invocations of one          *)
(* state-changing tool, q and p of two reads; w, x and q share the key k.     *)
EXTENDS PlanRun

CONSTANTS r1, r2, w, x, q, p, k

MCSlots == Runs \X (0..MaxNodes)
MCRunOf == [o \in MCSlots |-> o[1]]
MCKeyOf == [s \in Sigs |-> IF s = p THEN NoKey ELSE k]

\* A plan from the signatures and dependencies of its nodes.
Plan(sigs, deps, from, barrier, serial) ==
  [nodes |-> DOMAIN sigs, barrier |-> barrier, serial |-> serial,
   sigs |-> [i \in Nodes |-> IF i \in DOMAIN sigs THEN sigs[i] ELSE {}],
   deps |-> [i \in Nodes |-> IF i \in DOMAIN deps THEN deps[i] ELSE {}],
   from |-> [i \in Nodes |-> IF i \in DOMAIN from THEN from[i] ELSE {}]]

\* A read, then a change bound to its result.
BoundPlan == Plan(<<{q}, {w, x}>>, <<{}, {1}>>, <<{}, {1}>>, {}, {})
\* Reads, two under one key and the last to run alone, then a change behind a barrier.
KeyedPlan == Plan(<<{q}, {p}, {q}, {x}>>, <<{}, {}, {}, {1, 2, 3}>>, <<>>, {4}, {3})
\* A read, and two more bound to its result: once more than allowed.
RepeatPlan == Plan(<<{p}, {p}, {p}>>, <<{}, {1}, {1}>>, <<{}, {1}, {1}>>, {}, {})
\* The same change twice.
TwicePlan == Plan(<<{w}, {w}>>, <<{}, {}>>, <<>>, {}, {})
\* A change, then a read that may fail after it.
AfterPlan == Plan(<<{w}, {p}>>, <<{}, {1}>>, <<>>, {}, {})
\* A change, then a read and another change, both ready at once.
MixedPlan == Plan(<<{w}, {p}, {x}>>, <<{}, {1}, {1}>>, <<>>, {}, {})
\* Invalid: a change bound behind a change.
LatePlan == Plan(<<{w}, {w, x}>>, <<{}, {1}>>, <<{}, {1}>>, {}, {})
\* Invalid: bound to a node it does not wait for.
StrayPlan == Plan(<<{p}, {p}, {q}>>, <<{}, {1}, {1}>>, <<{}, {3}, {}>>, {}, {})
\* Invalid: each waits for the other.
CyclicPlan == Plan(<<{p}, {q}>>, <<{2}, {1}>>, <<>>, {}, {})

MCPlans == {BoundPlan, KeyedPlan, RepeatPlan, TwicePlan, AfterPlan, MixedPlan, LatePlan, StrayPlan,
            CyclicPlan}
=============================================================================
