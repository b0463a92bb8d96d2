------------------------------ MODULE PromEval ------------------------------
(***************************************************************************)
(* The evaluation of queries (src/promql/eval.rs).                         *)
(*                                                                         *)
(* The order of a vector decides nothing but which of two entries with the *)
(* same labels a join finds: an evaluation yields the set of its possible  *)
(* outcomes.                                                               *)
(***************************************************************************)
EXTENDS PromVector, SequencesExt

Magnitude(n) == IF n < 0 THEN -n ELSE n

Plus(x, y) ==
  IF x[2] = 0 /\ x = y THEN x ELSE Float(x[1] * y[2] + y[1] * x[2], x[2] * y[2])

\* apply
Apply(op, x, y) ==
  CASE op = "+" -> Plus(x, y)
    [] op = "-" -> Plus(x, <<-y[1], y[2]>>)
    [] op = "*" -> Float(x[1] * y[1], x[2] * y[2])
    [] op = "/" -> Float(x[1] * y[2] * Sign(y[1] + IF y[1] = 0 THEN y[2] ELSE 0),
                         x[2] * Magnitude(y[1]))

IsFinite(x) == x[2] # 0

-----------------------------------------------------------------------------
\* The labels of the group: those of the clause that the entry carries.
GroupOf(labels, by) ==
  Restrict(labels, {l \in DOMAIN labels : \E ls \in by : l \in Elements(ls)})

Total(entries) == FoldSet(LAMBDA e, sum : Plus(sum, e.value), <<0, 1>>, entries)

\* A variant with a bug, for mutation runs: entries are told apart by their
\* labels, although two of them may have the same.
SumByLabels(entries, by) ==
  {Entry(g, g, Total({[labels |-> e.labels, value |-> e.value] :
                        e \in {x \in entries : GroupOf(x.labels, by) = g}})) :
     g \in {GroupOf(e.labels, by) : e \in entries}}

\* Expr::Sum
SumBy(entries, by) ==
  {Entry(g, g, Total({e \in entries : GroupOf(e.labels, by) = g})) :
     g \in {GroupOf(e.labels, by) : e \in entries}}

-----------------------------------------------------------------------------
Scalar(x) == [is |-> "scalar", of |-> x]
Vector(entries) == [is |-> "vector", of |-> entries]

\* Value::into_vector
IntoVector(value) == IF value.is = "vector" THEN value.of ELSE {}

\* The map of the right operand's values by their labels: of entries with the
\* same labels, the last one to be collected.
LastByLabels(entries) ==
  {f \in [{e.labels : e \in entries} -> {e.value : e \in entries}] :
     \A l \in DOMAIN f : \E e \in entries : e.labels = l /\ e.value = f[l]}

\* Expr::Binary: vectors are joined one to one on their whole label sets.
Combine(op, lhs, rhs) ==
  CASE lhs.is = "scalar" /\ rhs.is = "scalar" -> {Scalar(Apply(op, lhs.of, rhs.of))}
    [] lhs.is = "vector" /\ rhs.is = "scalar" ->
         {Vector({Entry(e.from, e.labels, Apply(op, e.value, rhs.of)) : e \in lhs.of})}
    [] lhs.is = "scalar" /\ rhs.is = "vector" ->
         {Vector({Entry(e.from, e.labels, Apply(op, lhs.of, e.value)) : e \in rhs.of})}
    [] OTHER ->
         {Vector({Entry(e.from, e.labels, Apply(op, e.value, other[e.labels])) :
                    e \in {x \in lhs.of : x.labels \in DOMAIN other}}) :
            other \in LastByLabels(rhs.of)}

-----------------------------------------------------------------------------
CONSTANTS
  Exprs,   \* bound: the expressions that are evaluated, with all their operands
  Depth    \* how deep each of them is: an Expr is a finite tree

\* The name of a selector is None or Some.
IsSelector(selector) == \A m, n \in selector.name : m = n

\* d may be an operand of e.
Shallower(d, e) == d \in Exprs /\ Depth[d] < Depth[e]

ASSUME ExprsAssumption ==
  /\ Depth \in [Exprs -> Nat]
  /\ \A e \in Exprs :
       \/ e.kind = "number" /\ e.value \in Int
       \/ e.kind = "selector" /\ IsSelector(e.selector)
       \/ e.kind = "rate" /\ IsSelector(e.selector) /\ e.window \in Nat
       \/ e.kind = "sum" /\ Shallower(e.expr, e)
       \/ /\ e.kind = "binary" /\ e.op \in {"+", "-", "*", "/"}
          /\ Shallower(e.lhs, e) /\ Shallower(e.rhs, e)

\* One call of eval: of the values its operands may have, those of the whole.
EvalOne(e, t, value) ==
  CASE e.kind = "number"   -> {Scalar(Float(e.value, 1))}
    [] e.kind = "selector" -> {Vector(Instant(e.selector, t))}
    [] e.kind = "rate"     -> {Vector(Rates(e.selector, e.window, t))}
    [] e.kind = "sum"      -> {Vector(SumBy(IntoVector(v), e.by)) : v \in value[e.expr]}
    [] e.kind = "binary"   -> UNION {Combine(e.op, l, r) : l \in value[e.lhs],
                                                           r \in value[e.rhs]}

\* eval: the possible values of an expression at t.
Eval(e, t) ==
  LET value[x \in Exprs] == EvalOne(x, t, value)
  IN  value[e]

=============================================================================
