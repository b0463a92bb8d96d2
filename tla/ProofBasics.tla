------------------------------ MODULE ProofBasics -----------------------------
(***************************************************************************)
(* What the provers are not told by their library.                         *)
(*                                                                         *)
(* Induction over data: what holds at the start of a loop and is kept by   *)
(* each of its rounds holds at its end.  The induction theorems of the     *)
(* library take an operator and cannot be instantiated, so these speak of  *)
(* a set of numbers instead, {i : what is to be shown of i}; and a loop of *)
(* the code, written as a recursive function on 0..n, is well defined      *)
(* because a function that satisfies its equations exists.                 *)
(*                                                                         *)
(* Then folds over finite sets, whose order does not matter when what is   *)
(* folded is an addition; and the common divisor of two numbers.           *)
(***************************************************************************)
EXTENDS Integers, Sequences, FiniteSetTheorems, TLAPS

\* A non-empty set of naturals has a least element.
LEMMA LeastNatural ==
  ASSUME NEW T, T \subseteq Nat, T # {}
  PROVE  \E m \in T : \A n \in T : m <= n
<1>1. \E m \in T : \A n \in T : <<n, m>> \notin OpToRel(<, Nat)
  BY NatLessThanWellFounded, WFMin
<1>2. \A m, n \in Nat : <<n, m>> \notin OpToRel(<, Nat) => m <= n
  BY DEF OpToRel
<1> QED
  BY <1>1, <1>2

\* What holds of 0, and of i if of i - 1, holds up to n.
LEMMA Ascent ==
  ASSUME NEW n \in Nat, NEW T, 0 \in T, \A i \in 1..n : i - 1 \in T => i \in T
  PROVE  0..n \subseteq T
<1> DEFINE bad == (0..n) \ T
<1>1. SUFFICES ASSUME bad # {} PROVE FALSE
  OBVIOUS
<1>2. PICK m \in bad : \A k \in bad : m <= k
  <2>1. bad \subseteq Nat
    OBVIOUS
  <2> HIDE DEF bad
  <2> QED
    BY <1>1, <2>1, LeastNatural
<1>3. m \in 1..n
  OBVIOUS
<1>4. m - 1 \in T
  BY <1>2, <1>3
<1> QED
  BY <1>3, <1>4

\* The values in A that a loop goes through: it starts with `base` and takes
\* the n steps that the function `step` of their number and the value says.
IsLoop(f, A, base, n, step) ==
  /\ f \in [0..n -> A]
  /\ f[0] = base
  /\ \A i \in 1..n : f[i] = step[<<i, f[i - 1]>>]

LEMMA LoopExists ==
  ASSUME NEW A, NEW base \in A, NEW n \in Nat, NEW step \in [(1..n) \X A -> A]
  PROVE  \E f : IsLoop(f, A, base, n, step)
<1> DEFINE Upto(k, f) == /\ f \in [0..k -> A] /\ f[0] = base
                         /\ \A i \in 1..k : f[i] = step[<<i, f[i - 1]>>]
           T == {k \in 0..n : \E f : Upto(k, f)}
<1>1. 0 \in T
  <2> DEFINE f == [i \in 0..0 |-> base]
  <2>1. Upto(0, f)
    OBVIOUS
  <2> HIDE DEF f, Upto
  <2> QED
    BY <2>1
<1>2. ASSUME NEW k \in 1..n, k - 1 \in T PROVE k \in T
  <2>1. PICK f : Upto(k - 1, f)
    BY <1>2
  <2> DEFINE x == step[<<k, f[k - 1]>>]
             g == [i \in 0..k |-> IF i = k THEN x ELSE f[i]]
  <2>2. x \in A
    BY <2>1
  <2>3. g \in [0..k -> A] /\ g[0] = base
    BY <2>1, <2>2
  <2>4. ASSUME NEW i \in 1..k PROVE g[i] = step[<<i, g[i - 1]>>]
    <3>1. g[i - 1] = f[i - 1]
      OBVIOUS
    <3>2. CASE i = k
      <4>1. g[k] = x /\ g[k - 1] = f[k - 1]
        OBVIOUS
      <4> HIDE DEF g
      <4> QED
        BY <3>2, <4>1
    <3>3. CASE i # k
      <4>1. i \in 1..k - 1 /\ g[i] = f[i]
        BY <3>3
      <4> QED
        BY <2>1, <3>1, <4>1
    <3> QED
      BY <3>2, <3>3
  <2> HIDE DEF g
  <2> QED
    BY <2>3, <2>4
<1>3. n \in T
  <2>1. n \in 0..n
    OBVIOUS
  <2> HIDE DEF T
  <2> QED
    BY <1>1, <1>2, <2>1, Ascent
<1> QED
  BY <1>3 DEF IsLoop

\* A function on all naturals, whose value at n is made of n and of its value
\* at a smaller number, pred[n].
IsDescent(f, A, base, pred, step) ==
  /\ f \in [Nat -> A]
  /\ f[0] = base
  /\ \A n \in Nat \ {0} : f[n] = step[<<n, f[pred[n]]>>]

LEMMA DescentExists ==
  ASSUME NEW A, NEW base \in A, NEW pred \in [Nat \ {0} -> Nat],
         \A n \in Nat \ {0} : pred[n] < n,
         NEW step \in [(Nat \ {0}) \X A -> A]
  PROVE  \E f : IsDescent(f, A, base, pred, step)
<1> DEFINE Upto(k, f) == /\ f \in [0..k -> A] /\ f[0] = base
                         /\ \A i \in 1..k : f[i] = step[<<i, f[pred[i]]>>]
           T == {k \in Nat : \E f : Upto(k, f)}
<1>0. \A i \in Nat \ {0} : pred[i] \in Nat /\ pred[i] < i
  OBVIOUS
<1>1. 0 \in T
  <2> DEFINE f == [i \in 0..0 |-> base]
  <2>1. Upto(0, f)
    OBVIOUS
  <2> HIDE DEF f, Upto
  <2> QED
    BY <2>1
<1>2. ASSUME NEW k \in Nat \ {0}, k - 1 \in T PROVE k \in T
  <2>1. PICK f : Upto(k - 1, f)
    BY <1>2
  <2> DEFINE x == step[<<k, f[pred[k]]>>]
             g == [i \in 0..k |-> IF i = k THEN x ELSE f[i]]
  <2>2. x \in A
    <3>1. pred[k] \in 0..k - 1
      BY <1>0
    <3> QED
      BY <2>1, <3>1
  <2>3. g \in [0..k -> A] /\ g[0] = base
    BY <2>1, <2>2
  <2>4. ASSUME NEW i \in 1..k PROVE g[i] = step[<<i, g[pred[i]]>>]
    <3>1. pred[i] \in 0..k /\ pred[i] # k /\ pred[i] \in 0..i - 1
      BY <1>0
    <3>2. g[pred[i]] = f[pred[i]]
      BY <3>1
    <3>3. CASE i = k
      <4>1. g[k] = x
        OBVIOUS
      <4> HIDE DEF g
      <4> QED
        BY <3>2, <3>3, <4>1
    <3>4. CASE i # k
      <4>1. i \in 1..k - 1 /\ g[i] = f[i]
        BY <3>4
      <4> HIDE DEF g
      <4> QED
        BY <2>1, <3>2, <4>1
    <3> QED
      BY <3>3, <3>4
  <2> HIDE DEF g
  <2> QED
    BY <2>3, <2>4
<1>3. ASSUME NEW k \in Nat PROVE \E f : Upto(k, f)
  <2>1. 0..k \subseteq T
    <3> HIDE DEF T
    <3>1. \A i \in 1..k : i - 1 \in T => i \in T
      BY <1>2
    <3> QED
      BY <1>1, <3>1, Ascent
  <2> HIDE DEF Upto
  <2> QED
    BY <2>1
<1>4. ASSUME NEW k \in Nat, NEW l \in Nat, NEW f, NEW g, Upto(k, f), Upto(l, g),
             NEW i \in Nat, i <= k, i <= l
      PROVE  f[i] = g[i]
  <2> DEFINE bad == {j \in Nat : j <= k /\ j <= l /\ f[j] # g[j]}
  <2>1. SUFFICES ASSUME bad # {} PROVE FALSE
    BY <1>4
  <2>2. PICK m \in bad : \A j \in bad : m <= j
    <3>1. bad \subseteq Nat
      OBVIOUS
    <3> HIDE DEF bad
    <3> QED
      BY <2>1, <3>1, LeastNatural
  <2>3. m \in 1..k /\ m \in 1..l
    BY <1>4
  <2>4. pred[m] \in Nat /\ pred[m] < m
    BY <1>0, <2>3
  <2>5. f[pred[m]] = g[pred[m]]
    BY <2>2, <2>3, <2>4
  <2> QED
    BY <1>4, <2>3, <2>5
<1> DEFINE at(k) == CHOOSE f : Upto(k, f)
           F == [k \in Nat |-> at(k)[k]]
<1>5. \A k \in Nat : Upto(k, at(k))
  <2> HIDE DEF Upto
  <2> QED
    BY <1>3
<1>6. F \in [Nat -> A]
  <2> HIDE DEF at
  <2>1. \A k \in Nat : at(k) \in [0..k -> A] /\ k \in 0..k
    BY <1>5
  <2> QED
    BY <2>1
<1>7. F[0] = base
  BY <1>5
<1>8. ASSUME NEW n \in Nat \ {0} PROVE F[n] = step[<<n, F[pred[n]]>>]
  <2>1. pred[n] \in Nat /\ pred[n] < n
    BY <1>0
  <2>2. at(n)[n] = step[<<n, at(n)[pred[n]]>>]
    <3>1. n \in 1..n
      OBVIOUS
    <3> HIDE DEF at
    <3> QED
      BY <1>5, <3>1
  <2>3. at(n)[pred[n]] = at(pred[n])[pred[n]]
    <3> HIDE DEF Upto, at
    <3> QED
      BY <1>4, <1>5, <2>1
  <2> HIDE DEF at
  <2> QED
    BY <2>1, <2>2, <2>3
<1> HIDE DEF F
<1> QED
  BY <1>6, <1>7, <1>8 DEF IsDescent

-----------------------------------------------------------------------------
\* Division of naturals, and products of one factor.
LEMMA Division ==
  ASSUME NEW a \in Nat, NEW b \in Nat \ {0}
  PROVE  /\ a \div b \in Nat
         /\ (a \div b) * b <= a
         /\ a < (a \div b) * b + b
OBVIOUS

LEMMA NextProduct ==
  ASSUME NEW i \in Nat, NEW b \in Nat
  PROVE  i * b \in Nat /\ (i + 1) * b = i * b + b
OBVIOUS

LEMMA Monotone ==
  ASSUME NEW i \in Nat, NEW j \in Nat, i <= j, NEW b \in Nat
  PROVE  i * b <= j * b
OBVIOUS

-----------------------------------------------------------------------------
\* Folds over finite sets, as the community modules do them: some element is
\* added to what the others add up to.
AnyOf(T) == CHOOSE x \in T : TRUE

\* An addition that can be done in any order.
IsAddition(add, zero, A) ==
  /\ add \in [A \X A -> A] /\ zero \in A
  /\ \A x \in A : add[<<x, zero>>] = x
  /\ \A x, y \in A : add[<<x, y>>] = add[<<y, x>>]
  /\ \A x, y, z \in A : add[<<x, add[<<y, z>>]>>] = add[<<add[<<x, y>>], z>>]

\* g adds up f over every subset of S.
IsFold(g, f, S, add, zero, A) ==
  /\ f \in [S -> A]
  /\ g[{}] = zero
  /\ \A T \in SUBSET S : T # {} /\ g[T \ {AnyOf(T)}] \in A =>
                          g[T] = add[<<f[AnyOf(T)], g[T \ {AnyOf(T)}]>>]

\* The element that is added last may be any.
LEMMA FoldAddsUp ==
  ASSUME NEW A, NEW zero, NEW add, IsAddition(add, zero, A),
         NEW S, IsFiniteSet(S), NEW f, NEW g, IsFold(g, f, S, add, zero, A)
  PROVE  \A T \in SUBSET S : g[T] \in A /\ \A x \in T : g[T] = add[<<f[x], g[T \ {x}]>>]
<1> DEFINE Adds(T) == g[T] \in A /\ \A x \in T : g[T] = add[<<f[x], g[T \ {x}]>>]
           n == Cardinality(S)
           I == {i \in 0..n : \A T \in SUBSET S : Cardinality(T) <= i => Adds(T)}
<1>0. f \in [S -> A] /\ g[{}] = zero
  BY DEF IsFold
<1>a. /\ zero \in A /\ \A x, y \in A : add[<<x, y>>] \in A
      /\ \A x, y \in A : add[<<x, y>>] = add[<<y, x>>]
      /\ \A x, y, z \in A : add[<<x, add[<<y, z>>]>>] = add[<<add[<<x, y>>], z>>]
  BY DEF IsAddition
<1>1. n \in Nat
  BY FS_CardinalityType
<1>2. \A T \in SUBSET S : IsFiniteSet(T) /\ Cardinality(T) \in 0..n
  <2> SUFFICES ASSUME NEW T \in SUBSET S PROVE IsFiniteSet(T) /\ Cardinality(T) \in 0..n
    OBVIOUS
  <2>1. IsFiniteSet(T) /\ Cardinality(T) <= n
    BY FS_Subset
  <2>2. Cardinality(T) \in Nat
    BY <2>1, FS_CardinalityType
  <2> QED
    BY <1>1, <2>1, <2>2
<1>3. 0 \in I
  <2> SUFFICES ASSUME NEW T \in SUBSET S, Cardinality(T) <= 0 PROVE Adds(T)
    BY <1>1
  <2>1. T = {}
    BY <1>2, FS_EmptySet
  <2> QED
    BY <1>0, <1>a, <2>1
<1>4. ASSUME NEW i \in 1..n, i - 1 \in I PROVE i \in I
  <2>0. \A T \in SUBSET S : Cardinality(T) <= i - 1 => Adds(T)
    <3> HIDE DEF Adds
    <3> QED
      BY <1>4
  <2> SUFFICES ASSUME NEW T \in SUBSET S, Cardinality(T) = i PROVE Adds(T)
    <3> HIDE DEF Adds
    <3>1. \A T \in SUBSET S : Cardinality(T) <= i => Cardinality(T) = i \/ Cardinality(T) <= i - 1
      BY <1>1, <1>2
    <3> QED
      BY <1>1, <2>0, <3>1
  <2>1. IsFiniteSet(T) /\ T # {}
    BY <1>2, FS_EmptySet
  <2>2. ASSUME NEW x \in T PROVE Cardinality(T \ {x}) = i - 1 /\ T \ {x} \in SUBSET S
    BY <2>1, FS_RemoveElement
  <2>3. \A x \in T : Adds(T \ {x})
    <3> HIDE DEF Adds
    <3> QED
      BY <1>1, <2>0, <2>2
  <2> DEFINE c == AnyOf(T)
  <2>4. c \in T
    BY <2>1 DEF AnyOf
  <2>5. g[T] = add[<<f[c], g[T \ {c}]>>]
    <3>1. g[T \ {c}] \in A
      BY <2>3, <2>4
    <3> QED
      BY <2>1, <3>1 DEF IsFold
  <2> HIDE DEF c
  <2>6. \A x \in T : f[x] \in A /\ g[T \ {x}] \in A
    BY <1>0, <2>3
  <2>7. ASSUME NEW x \in T, x # c PROVE g[T] = add[<<f[x], g[T \ {x}]>>]
    <3>1. x \in T \ {c} /\ c \in T \ {x} /\ (T \ {c}) \ {x} = (T \ {x}) \ {c}
      BY <2>4, <2>7
    <3> DEFINE rest == g[(T \ {x}) \ {c}]
    <3>2. g[T \ {c}] = add[<<f[x], rest>>] /\ g[T \ {x}] = add[<<f[c], rest>>]
      BY <2>3, <2>4, <3>1
    <3>3. rest \in A
      <4>1. /\ (T \ {x}) \ {c} \in SUBSET (T \ {x})
            /\ (T \ {x}) \ {c} \in SUBSET S /\ IsFiniteSet(T \ {x})
        BY <1>2
      <4>2. Cardinality((T \ {x}) \ {c}) <= i - 1
        BY <2>2, <4>1, FS_Subset
      <4> QED
        BY <2>0, <4>1, <4>2
    <3> HIDE DEF rest
    <3> QED
      <4>1. f[c] \in A /\ f[x] \in A
        BY <2>4, <2>6
      <4>2. add[<<f[c], add[<<f[x], rest>>]>>] = add[<<add[<<f[c], f[x]>>], rest>>]
        BY <1>a, <3>3, <4>1
      <4>3. add[<<f[x], add[<<f[c], rest>>]>>] = add[<<add[<<f[x], f[c]>>], rest>>]
        BY <1>a, <3>3, <4>1
      <4>4. add[<<f[c], f[x]>>] = add[<<f[x], f[c]>>]
        BY <1>a, <4>1
      <4> QED
        BY <2>5, <3>2, <4>2, <4>3, <4>4
  <2>8. g[T] \in A
    BY <1>a, <2>4, <2>5, <2>6
  <2> QED
    BY <2>5, <2>7, <2>8
<1>5. 0..n \subseteq I
  <2> HIDE DEF I, n
  <2> QED
    BY <1>1, <1>3, <1>4, Ascent
<1> QED
  BY <1>2, <1>5

\* There is a fold over a finite set: after as many rounds of adding as it has
\* elements, and one more, what a subset adds up to changes no more.
LEMMA FoldExists ==
  ASSUME NEW A, NEW zero, NEW add, IsAddition(add, zero, A),
         NEW S, IsFiniteSet(S), NEW f \in [S -> A]
  PROVE  \E g : g \in [SUBSET S -> A] /\ IsFold(g, f, S, add, zero, A)
<1> DEFINE n == Cardinality(S) + 1
           B == [SUBSET S -> A]
           Round(h) == [T \in SUBSET S |->
                          IF T = {} THEN zero ELSE add[<<f[AnyOf(T)], h[T \ {AnyOf(T)}]>>]]
           base == [T \in SUBSET S |-> zero]
           step == [p \in (1..n) \X B |-> Round(p[2])]
<1>1. n \in Nat /\ n \in 1..n
  <2>1. Cardinality(S) \in Nat
    BY FS_CardinalityType
  <2> QED
    BY <2>1
<1>2. \A T \in SUBSET S : /\ IsFiniteSet(T) /\ Cardinality(T) \in Nat
                          /\ Cardinality(T) <= n - 1
  <2> SUFFICES ASSUME NEW T \in SUBSET S
               PROVE  /\ IsFiniteSet(T) /\ Cardinality(T) \in Nat
                      /\ Cardinality(T) <= n - 1
    OBVIOUS
  <2>1. IsFiniteSet(T) /\ Cardinality(T) <= Cardinality(S)
    BY FS_Subset
  <2>2. Cardinality(T) \in Nat /\ Cardinality(S) \in Nat
    BY <2>1, FS_CardinalityType
  <2> QED
    BY <2>1, <2>2
<1>a. zero \in A /\ \A x, y \in A : add[<<x, y>>] \in A
  BY DEF IsAddition
<1>3. ASSUME NEW T \in SUBSET S, T # {}
      PROVE  /\ AnyOf(T) \in S /\ T \ {AnyOf(T)} \in SUBSET S
             /\ Cardinality(T \ {AnyOf(T)}) = Cardinality(T) - 1
  <2>1. AnyOf(T) \in T
    BY <1>3 DEF AnyOf
  <2> QED
    BY <1>2, <2>1, FS_RemoveElement
<1>4. ASSUME NEW h \in B PROVE Round(h) \in B
  <2>1. \A T \in SUBSET S : T # {} => f[AnyOf(T)] \in A /\ h[T \ {AnyOf(T)}] \in A
    BY <1>3
  <2>2. \A T \in SUBSET S :
          (IF T = {} THEN zero ELSE add[<<f[AnyOf(T)], h[T \ {AnyOf(T)}]>>]) \in A
    BY <1>a, <2>1
  <2> QED
    BY <2>2
<1>5. PICK h : IsLoop(h, B, base, n, step)
  <2>1. base \in B
    BY <1>a
  <2>2. step \in [(1..n) \X B -> B]
    <3> HIDE DEF B, Round
    <3> QED
      BY <1>4
  <2> HIDE DEF B, base, step, n
  <2> QED
    BY <1>1, <2>1, <2>2, LoopExists
<1>6. /\ \A i \in 0..n : h[i] \in B
      /\ h[0] = base
      /\ \A i \in 1..n : h[i] = step[<<i, h[i - 1]>>]
  <2> HIDE DEF B, base, step, n
  <2> QED
    BY <1>5 DEF IsLoop
<1>7. ASSUME NEW i \in 1..n PROVE h[i] = Round(h[i - 1])
  <2>1. i - 1 \in 0..n
    BY <1>1
  <2>2. h[i] = step[<<i, h[i - 1]>>] /\ h[i - 1] \in B
    BY <1>6, <2>1
  <2> HIDE DEF B, Round
  <2> QED
    BY <2>2
<1>b. ASSUME NEW i \in 1..n, NEW T \in SUBSET S, T # {}
      PROVE  h[i][T] = add[<<f[AnyOf(T)], h[i - 1][T \ {AnyOf(T)}]>>]
  <2> DEFINE sum(hh, V) == add[<<f[AnyOf(V)], hh[V \ {AnyOf(V)}]>>]
  <2>1. \A hh : Round(hh) = [V \in SUBSET S |-> IF V = {} THEN zero ELSE sum(hh, V)]
    OBVIOUS
  <2>2. h[i] = Round(h[i - 1])
    BY <1>7
  <2> HIDE DEF Round, sum
  <2>3. h[i][T] = sum(h[i - 1], T)
    BY <1>b, <2>1, <2>2
  <2> QED
    BY <2>3 DEF sum
<1> DEFINE Settled(i) == i > 0 => \A T \in SUBSET S : Cardinality(T) <= i - 1 =>
                                    h[i][T] = h[i - 1][T]
           I == {i \in 0..n : Settled(i)}
<1>8. 0 \in I
  BY <1>1
<1>9. ASSUME NEW i \in 1..n, i - 1 \in I PROVE i \in I
  <2> SUFFICES ASSUME NEW T \in SUBSET S, Cardinality(T) <= i - 1
               PROVE  h[i][T] = h[i - 1][T]
    BY <1>1
  <2>1. CASE T = {}
    <3>1. h[i][T] = zero
      BY <1>7, <2>1
    <3>2. CASE i = 1
      <4>1. h[0] = base
        BY <1>6
      <4>2. h[i - 1][T] = zero
        BY <3>2, <4>1
      <4> QED
        BY <3>1, <4>2
    <3>3. CASE i # 1
      <4>1. i - 1 \in 1..n
        BY <1>1, <3>3
      <4> QED
        BY <1>7, <2>1, <3>1, <4>1
    <3> QED
      BY <3>2, <3>3
  <2>2. CASE T # {}
    <3> DEFINE U == T \ {AnyOf(T)}
    <3>1. U \in SUBSET S /\ Cardinality(U) = Cardinality(T) - 1 /\ Cardinality(U) \in Nat
      BY <1>2, <1>3, <2>2
    <3>2. i - 1 \in 1..n /\ Cardinality(U) <= (i - 1) - 1
      BY <1>1, <1>2, <3>1
    <3>3. h[i - 1][U] = h[(i - 1) - 1][U]
      <4> HIDE DEF U
      <4> QED
        BY <1>9, <3>1, <3>2
    <3>4. h[i][T] = add[<<f[AnyOf(T)], h[i - 1][U]>>]
      BY <1>b, <2>2
    <3>5. h[i - 1][T] = add[<<f[AnyOf(T)], h[(i - 1) - 1][U]>>]
      BY <1>b, <2>2, <3>2
    <3> QED
      BY <3>3, <3>4, <3>5
  <2> QED
    BY <2>1, <2>2
<1>10. Settled(n)
  <2>1. 0..n \subseteq I
    <3> HIDE DEF I, n
    <3> QED
      BY <1>1, <1>8, <1>9, Ascent
  <2>2. n \in 0..n
    BY <1>1
  <2> HIDE DEF Settled
  <2> QED
    BY <2>1, <2>2
<1>11. \A T \in SUBSET S : h[n][T] = h[n - 1][T]
  BY <1>1, <1>2, <1>10
<1>12. h[n] = Round(h[n - 1])
  BY <1>1, <1>7
<1>13. IsFold(h[n], f, S, add, zero, A)
  <2>1. h[n][{}] = zero
    BY <1>12
  <2>2. ASSUME NEW T \in SUBSET S, T # {}
        PROVE  h[n][T] = add[<<f[AnyOf(T)], h[n][T \ {AnyOf(T)}]>>]
    <3>1. h[n][T] = add[<<f[AnyOf(T)], h[n - 1][T \ {AnyOf(T)}]>>]
      BY <1>12, <2>2
    <3> QED
      BY <1>3, <1>11, <2>2, <3>1
  <2> QED
    BY <2>1, <2>2 DEF IsFold
<1>14. h[n] \in [SUBSET S -> A]
  <2>1. n \in 0..n
    BY <1>1
  <2> HIDE DEF n
  <2> QED
    BY <1>6, <2>1
<1> QED
  BY <1>13, <1>14

\* Sums of integers.
IntAddition == [p \in Int \X Int |-> p[1] + p[2]]

LEMMA IntegersAdd ==
  /\ IsAddition(IntAddition, 0, Int)
  /\ \A x, y \in Int : IntAddition[<<x, y>>] = x + y
<1>1. IntAddition \in [Int \X Int -> Int]
  BY DEF IntAddition
<1>2. ASSUME NEW x \in Int, NEW y \in Int PROVE IntAddition[<<x, y>>] = x + y
  BY DEF IntAddition
<1> QED
  BY <1>1, <1>2 DEF IsAddition

\* g sums f over every subset of S.
IsSum(g, f, S) ==
  /\ f \in [S -> Int]
  /\ g[{}] = 0
  /\ \A T \in SUBSET S : T # {} => g[T] = f[AnyOf(T)] + g[T \ {AnyOf(T)}]

LEMMA SumsAreFolds ==
  ASSUME NEW S, NEW f, NEW g, IsSum(g, f, S)
  PROVE  IsFold(g, f, S, IntAddition, 0, Int)
<1>1. \A T \in SUBSET S : T # {} => AnyOf(T) \in T
  BY DEF AnyOf
<1>2. ASSUME NEW T \in SUBSET S, T # {}, g[T \ {AnyOf(T)}] \in Int
      PROVE  g[T] = IntAddition[<<f[AnyOf(T)], g[T \ {AnyOf(T)}]>>]
  <2>1. f[AnyOf(T)] \in Int /\ g[T] = f[AnyOf(T)] + g[T \ {AnyOf(T)}]
    BY <1>1, <1>2 DEF IsSum
  <2> QED
    BY <1>2, <2>1, IntegersAdd
<1> QED
  BY <1>2 DEF IsSum, IsFold

LEMMA SumAddsUp ==
  ASSUME NEW S, IsFiniteSet(S), NEW f, NEW g, IsSum(g, f, S)
  PROVE  \A T \in SUBSET S : g[T] \in Int /\ \A x \in T : g[T] = f[x] + g[T \ {x}]
<1>1. \A T \in SUBSET S : /\ g[T] \in Int
                          /\ \A x \in T : g[T] = IntAddition[<<f[x], g[T \ {x}]>>]
  BY SumsAreFolds, IntegersAdd, FoldAddsUp
<1>2. \A T \in SUBSET S : \A x \in T : f[x] \in Int /\ T \ {x} \in SUBSET S
  BY DEF IsSum
<1> QED
  BY <1>1, <1>2, IntegersAdd

LEMMA SumExists ==
  ASSUME NEW S, IsFiniteSet(S), NEW f \in [S -> Int]
  PROVE  \E g : g \in [SUBSET S -> Int] /\ IsSum(g, f, S)
<1>1. PICK g : g \in [SUBSET S -> Int] /\ IsFold(g, f, S, IntAddition, 0, Int)
  BY IntegersAdd, FoldExists
<1>2. ASSUME NEW T \in SUBSET S, T # {}
      PROVE  g[T] = f[AnyOf(T)] + g[T \ {AnyOf(T)}]
  <2>1. AnyOf(T) \in T /\ T \ {AnyOf(T)} \in SUBSET S
    BY <1>2 DEF AnyOf
  <2>2. f[AnyOf(T)] \in Int /\ g[T \ {AnyOf(T)}] \in Int
    BY <1>1, <2>1
  <2>3. g[T] = IntAddition[<<f[AnyOf(T)], g[T \ {AnyOf(T)}]>>]
    BY <1>1, <1>2, <2>2 DEF IsFold
  <2> QED
    BY <2>2, <2>3, IntegersAdd
<1> QED
  BY <1>1, <1>2 DEF IsSum, IsFold

-----------------------------------------------------------------------------
\* The quotient and the remainder.
LEMMA IntegerDivision ==
  ASSUME NEW a \in Int, NEW b \in Nat \ {0}
  PROVE  /\ a \div b \in Int /\ a % b \in 0..b - 1
         /\ a = (a \div b) * b + (a % b)
<1>1. a \div b \in Int
  OBVIOUS
<1>2. a % b \in 0..b - 1
  OBVIOUS
<1>3. a = b * (a \div b) + (a % b)
  OBVIOUS
<1>4. b * (a \div b) = (a \div b) * b
  BY <1>1
<1> QED
  BY ONLY <1>1, <1>2, <1>3, <1>4

\* Two numbers have a common divisor that is made of them.
LEMMA DivisorMadeOfThem ==
  ASSUME NEW n \in Int, NEW d \in Nat \ {0}
  PROVE  \E g \in Nat \ {0} : /\ n % g = 0 /\ d % g = 0
                              /\ \E u, v \in Int : g = u * n + v * d
<1> DEFINE Made(m) == \E u, v \in Int : m = u * n + v * d
           T == {m \in Nat \ {0} : Made(m)}
<1>1. Made(d) /\ Made(n)
  <2>1. d = 0 * n + 1 * d /\ n = 1 * n + 0 * d /\ 0 \in Int /\ 1 \in Int
    OBVIOUS
  <2> QED
    BY <2>1
<1>2. PICK g \in T : \A m \in T : g <= m
  <2>1. T \subseteq Nat /\ T # {}
    BY <1>1
  <2> HIDE DEF T
  <2> QED
    BY <2>1, LeastNatural
<1>3. g \in Nat \ {0} /\ Made(g)
  OBVIOUS
<1>4. ASSUME NEW a \in Int, Made(a) PROVE a % g = 0
  <2>1. PICK u \in Int, v \in Int : g = u * n + v * d
    BY ONLY <1>3
  <2>2. PICK r \in Int, s \in Int : a = r * n + s * d
    BY ONLY <1>4
  <2> DEFINE q == a \div g
             m == a % g
             u1 == r - q * u
             v1 == s - q * v
  <2>3. q \in Int /\ m \in 0..g - 1 /\ a = q * g + m
    BY ONLY a \in Int, <1>3, IntegerDivision
  <2> HIDE DEF q, m
  <2>4. m = a - q * g
    BY <1>3, <2>3
  <2>5. q * g = q * (u * n) + q * (v * d)
    BY <2>1, <2>3
  <2>6. q * (u * n) = (q * u) * n /\ q * (v * d) = (q * v) * d
    BY <2>3
  <2>7. u1 \in Int /\ v1 \in Int /\ q * u \in Int /\ q * v \in Int
    BY <2>3
  <2>8. u1 * n = r * n - (q * u) * n /\ v1 * d = s * d - (q * v) * d
    BY <2>7
  <2>9. m = u1 * n + v1 * d
    <3>1. /\ r * n \in Int /\ s * d \in Int /\ (q * u) * n \in Int /\ (q * v) * d \in Int
      BY <2>7
    <3> HIDE DEF u1, v1
    <3> QED
      BY <2>2, <2>4, <2>5, <2>6, <2>8, <3>1
  <2>10. Made(m)
    BY <2>7, <2>9
  <2> HIDE DEF Made
  <2>11. m = 0
    BY <1>2, <1>3, <2>3, <2>10
  <2> QED
    BY <2>11 DEF m
<1>5. n % g = 0 /\ d % g = 0
  <2> HIDE DEF Made
  <2> QED
    BY <1>1, <1>4
<1> QED
  BY ONLY <1>3, <1>5

\* Nothing else divides both.
LEMMA DividesWhatIsMade ==
  ASSUME NEW n \in Int, NEW d \in Int, NEW u \in Int, NEW v \in Int,
         NEW h \in Nat \ {0}, n % h = 0, d % h = 0, NEW g \in Nat \ {0}, g = u * n + v * d
  PROVE  h <= g
<1> DEFINE p == n \div h
           q == d \div h
           k == u * p + v * q
<1>1. p \in Int /\ q \in Int /\ n = p * h /\ d = q * h
  OBVIOUS
<1> HIDE DEF p, q
<1>2. u * (p * h) = (u * p) * h /\ v * (q * h) = (v * q) * h
  BY <1>1
<1>3. u * p \in Int /\ v * q \in Int
  BY <1>1
<1>4. k * h = (u * p) * h + (v * q) * h
  BY <1>3
<1>5. g = k * h /\ k \in Int
  BY <1>1, <1>2, <1>3, <1>4
<1> HIDE DEF k
<1>6. k > 0
  <2>1. SUFFICES ASSUME k <= 0 PROVE FALSE
    BY <1>5
  <2>2. k * h <= 0
    BY <1>5, <2>1
  <2> QED
    BY <1>5, <2>2
<1>7. 1 * h <= k * h
  BY <1>5, <1>6, Monotone
<1> QED
  BY <1>5, <1>7

===============================================================================
