----------------------------- MODULE MCQueryApi -----------------------------
(***************************************************************************)
(* Small instances of QueryApi for TLC.                                    *)
(***************************************************************************)
EXTENDS QueryApi

CONSTANTS k1, k2, k3   \* model values

\* The memory of a pod, that of a node which is there at one time only, and
\* the CPU of the pod, a counter that may be reset.
MCLabelsOf ==
  k1 :> [__name__ |-> "memory", pod |-> "a"] @@
  k2 :> [__name__ |-> "memory"] @@
  k3 :> [__name__ |-> "cpu", pod |-> "a"]
MCNameOf   == [k \in Keys |-> MCLabelsOf[k].__name__]
MCReadings ==
  k1 :> [t \in 0..MaxTime |-> {1}] @@
  k2 :> [t \in 0..MaxTime |-> IF t = 1 THEN {1} ELSE {}] @@
  k3 :> [t \in 0..MaxTime |-> IF t = 0 THEN {2} ELSE IF t = MaxTime THEN {1} ELSE {1, 2}]
MCLanguage == "memory|cpu" :> {"memory", "cpu"} @@ "memory" :> {"memory"} @@ "a" :> {"a"}

MCMatchers ==
  {<<>>, <<Matcher("__name__", "=", "memory")>>,
   <<Matcher("__name__", "=~", "memory|cpu"), Matcher("pod", "!=", "")>>,
   <<Matcher("__name__", "!=", "cpu"), Matcher("pod", "!~", "a")>>,
   <<Matcher("pod", "=", "a"), Matcher("__name__", "=", "cpu")>>,
   <<Matcher("__name__", "=", "cpu"), Matcher("__name__", "=", "memory")>>}

Memory == SelectorOf(SelectorFrom(Some("memory"), <<>>))
Cpu    == SelectorFrom(Some("cpu"), <<>>)
Either == SelectorOf(SelectorFrom(None, <<Matcher("__name__", "=~", "memory|cpu")>>))

\* An expression with all its operands, and how deep they are nested.
RECURSIVE PartsOf(_)
PartsOf(e) ==
  {e} \cup (CASE e.kind = "sum"    -> PartsOf(e.expr)
              [] e.kind = "binary" -> PartsOf(e.lhs) \cup PartsOf(e.rhs)
              [] OTHER             -> {})

RECURSIVE DepthOf(_)
DepthOf(e) ==
  CASE e.kind = "sum"    -> DepthOf(e.expr) + 1
    [] e.kind = "binary" -> Max({DepthOf(e.lhs), DepthOf(e.rhs)}) + 1
    [] OTHER             -> 0

MCNamed ==
  PartsOf(BinaryOf("-", Memory, BinaryOf("*", SelectorOf(Cpu), NumberOf(2)))) \cup
  PartsOf(SumOf(BinaryOf("/", RateOf(Cpu, 2), Memory), Some(<<"pod">>)))
MCExprs == MCNamed \cup {Either}
MCDepth == [e \in MCExprs |-> DepthOf(e)]
MCAsked ==
  {[start |-> None, end |-> None, step |-> None],
   [start |-> Some(1), end |-> Some(MaxTime), step |-> Some(2)]}
MCClauses == {None, Some(<<>>), Some(<<"pod", "node">>)}

=============================================================================
