------------------------------ MODULE QueryApi ------------------------------
(***************************************************************************)
(* What the handlers of /query and /query_range (src/api.rs) answer from   *)
(* the store they have locked.  They change nothing; the waiting for the   *)
(* lock is in Daemon.                                                      *)
(***************************************************************************)
EXTENDS PromEval, Discovery, RangeRequest

\* query_range: the points of each label set, of one of the possible outcomes
\* at each instant.  What is not finite is left out.
QueryRange(e, start, end, step) ==
  LET instants == Instants(start, end, step)
      outcomes == [t \in instants |-> Eval(e, t)]
      answers  == {f \in [instants -> UNION {outcomes[t] : t \in instants}] :
                     \A t \in instants : f[t] \in outcomes[t]}
      points(f) ==
        UNION {{[t |-> t, entry |-> x] : x \in {y \in IntoVector(f[t]) : IsFinite(y.value)}} :
               t \in DOMAIN f}
  IN  {[labels \in {p.entry.labels : p \in points(f)} |->
          {p \in points(f) : p.entry.labels = labels}] : f \in answers}

\* The handler `range`, when the clock read `now`; nothing, when it refuses.
RangeAnswer(e, asked, now) ==
  LET start == StartOf(asked, now)
      end   == EndOf(asked, now)
      step  == StepOf(asked)
  IN  IF Admitted(start, end, step) THEN QueryRange(e, start, end, step) ELSE {}

\* The handler `instant`.
InstantAnswer(e, asked, now) == Eval(e, OrElse(asked.start, now))

-----------------------------------------------------------------------------
\* The properties are about queries of these sets.  Queries see the store
\* between passes: the collector holds the lock throughout a pass.
CONSTANTS
  Named,     \* those of Exprs that Lens asks for: each selector names a metric
  Clauses,   \* bound: groupings
  Asked      \* bound: the parameters of a range query that is let in

ASSUME NamedAssumption ==
  \A e \in Named :
    /\ e \in Exprs
    /\ e.kind \in {"selector", "rate"} =>
         e.selector.name # None /\ "" \notin e.selector.name
    /\ e.kind = "sum" => e.expr \in Named
    /\ e.kind = "binary" => e.lhs \in Named /\ e.rhs \in Named

ASSUME AskedAssumption ==
  \A asked \in Asked :
    /\ asked.start \cup asked.end \cup asked.step \subseteq Int
    /\ Admitted(StartOf(asked, MaxTime), EndOf(asked, MaxTime), StepOf(asked))

\* A sum counts each entry once, those of series that differ only in their
\* name included, however it is grouped.
SumCountsEach ==
  ~inPass => \A e \in Exprs, t \in 0..MaxTime : \A v \in Eval(e, t) :
    \A by \in Clauses :
      Total(SumBy(IntoVector(v), by)) = Total(IntoVector(v))

\* Where the metrics are named, no two entries share their labels: a join
\* finds the one partner there is, and so a query has one possible answer, and
\* a range query has one point at a time.
NamedAnswersDetermined ==
  ~inPass => \A e \in Named, asked \in Asked :
    LET matrices == RangeAnswer(e, asked, MaxTime)
    IN  /\ Cardinality(InstantAnswer(e, asked, MaxTime)) = 1
        /\ Cardinality(matrices) = 1
        /\ \A matrix \in matrices : \A labels \in DOMAIN matrix :
             \A p, q \in matrix[labels] : p.t = q.t => p = q

=============================================================================
