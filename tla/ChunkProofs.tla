---------------------------- MODULE ChunkProofs ----------------------------
(***************************************************************************)
(* What is sealed comes back, whatever the widths of words and bytes, the  *)
(* radix, the number of samples and their values; and what the loader      *)
(* takes is whole.                                                         *)
(***************************************************************************)
EXTENDS ChunkInputs, ProofBasics, SequenceTheorems

-----------------------------------------------------------------------------
\* Powers.
LEMMA PowerSteps ==
  ASSUME NEW b \in Nat
  PROVE  /\ Power(b, 0) = 1
         /\ \A n \in Nat \ {0} : Power(b, n) = b * Power(b, n - 1)
<1> DEFINE Body(f) == [i \in Nat |-> IF i = 0 THEN 1 ELSE b * f[i - 1]]
           pred == [n \in Nat \ {0} |-> n - 1]
           step == [p \in (Nat \ {0}) \X Nat |-> b * p[2]]
           g == CHOOSE f : f = Body(f)
<1>1. PICK f : IsDescent(f, Nat, 1, pred, step)
  <2>1. pred \in [Nat \ {0} -> Nat] /\ \A n \in Nat \ {0} : pred[n] < n
    OBVIOUS
  <2>2. step \in [(Nat \ {0}) \X Nat -> Nat]
    OBVIOUS
  <2>3. 1 \in Nat
    OBVIOUS
  <2> HIDE DEF pred, step
  <2> QED
    BY <2>1, <2>2, <2>3, DescentExists
<1>2. f \in [Nat -> Nat] /\ f[0] = 1 /\ \A n \in Nat \ {0} : f[n] = step[<<n, f[pred[n]]>>]
  <2> HIDE DEF pred, step
  <2> QED
    BY <1>1 DEF IsDescent
<1>3. ASSUME NEW n \in Nat \ {0} PROVE f[n] = b * f[n - 1]
  <2>1. pred[n] = n - 1
    OBVIOUS
  <2>2. f[n] = step[<<n, f[n - 1]>>] /\ f[n - 1] \in Nat
    <3> HIDE DEF pred, step
    <3> QED
      BY <1>2, <2>1
  <2> QED
    BY <2>2
<1>4. f = Body(f)
  BY <1>2, <1>3
<1>5. g = Body(g)
  <2> HIDE DEF Body
  <2> QED
    BY <1>4
<1>6. \A n : Power(b, n) = g[n]
  BY DEF Power
<1> HIDE DEF g
<1>7. g[0] = 1 /\ \A n \in Nat \ {0} : g[n] = b * g[n - 1]
  BY <1>5
<1> QED
  BY <1>6, <1>7

LEMMA PowerPositive ==
  ASSUME NEW b \in Nat \ {0}, NEW n \in Nat
  PROVE  Power(b, n) \in Nat \ {0}
<1> DEFINE T == {i \in 0..n : Power(b, i) \in Nat \ {0}}
<1>1. 0 \in T
  BY PowerSteps
<1>2. ASSUME NEW i \in 1..n, i - 1 \in T PROVE i \in T
  <2> DEFINE p == Power(b, i - 1)
  <2>1. p \in Nat \ {0} /\ Power(b, i) = b * p
    BY <1>2, PowerSteps
  <2> HIDE DEF p
  <2>2. b * p \in Nat \ {0}
    BY <2>1
  <2> QED
    BY <2>1, <2>2
<1> HIDE DEF T
<1>3. 0..n \subseteq T
  BY <1>1, <1>2, Ascent
<1> QED
  BY <1>3 DEF T

LEMMA PowerOfSum ==
  ASSUME NEW b \in Nat \ {0}, NEW m \in Nat, NEW n \in Nat
  PROVE  Power(b, m + n) = Power(b, m) * Power(b, n)
<1> DEFINE p == Power(b, m)
           T == {i \in 0..n : Power(b, m + i) = p * Power(b, i)}
<1>0. p \in Nat
  BY PowerPositive
<1>1. 0 \in T
  BY <1>0, PowerSteps
<1>2. ASSUME NEW i \in 1..n, i - 1 \in T PROVE i \in T
  <2> DEFINE q == Power(b, i - 1)
  <2>1. q \in Nat /\ Power(b, i) = b * q
    BY PowerSteps, PowerPositive
  <2>2. Power(b, m + i) = b * Power(b, (m + i) - 1) /\ (m + i) - 1 = m + (i - 1)
    BY PowerSteps
  <2>3. Power(b, m + (i - 1)) = p * q
    BY <1>2
  <2> HIDE DEF p, q
  <2>4. b * (p * q) = p * (b * q)
    BY <1>0, <2>1
  <2>5. Power(b, m + i) = p * Power(b, i)
    BY <2>1, <2>2, <2>3, <2>4
  <2> QED
    BY <2>5
<1> HIDE DEF T
<1>3. 0..n \subseteq T
  BY <1>1, <1>2, Ascent
<1> QED
  BY <1>3 DEF T

LEMMA PowerMonotone ==
  ASSUME NEW b \in Nat \ {0}, NEW m \in Nat, NEW n \in Nat, m <= n
  PROVE  Power(b, m) <= Power(b, n)
<1>1. n - m \in Nat /\ m + (n - m) = n
  OBVIOUS
<1>2. Power(b, n) = Power(b, m) * Power(b, n - m)
  BY <1>1, PowerOfSum
<1> DEFINE p == Power(b, m)
           q == Power(b, n - m)
<1>3. p \in Nat /\ q \in Nat \ {0}
  BY <1>1, PowerPositive
<1> HIDE DEF p, q
<1>4. p <= p * q
  BY <1>3
<1> QED
  BY <1>2, <1>4 DEF p, q

\* A word has WordBits bits, and the flag of a byte is beyond its payload.
LEMMA Widths ==
  /\ Half \in Nat \ {0} /\ 2 * Half = Power(2, WordBits)
  /\ More \in Nat /\ More >= 2 /\ More = Power(2, PayloadBits)
<1>1. WordBits \in Nat \ {0} /\ PayloadBits \in Nat \ {0}
  BY CodecAssumption
<1>2. Half \in Nat \ {0} /\ Power(2, WordBits) = 2 * Half
  BY <1>1, PowerPositive, PowerSteps DEF Half
<1>3. Power(2, PayloadBits) = 2 * Power(2, PayloadBits - 1)
  BY <1>1, PowerSteps
<1>4. Power(2, PayloadBits - 1) \in Nat \ {0}
  BY <1>1, PowerPositive
<1> QED
  BY <1>2, <1>3, <1>4 DEF More

-----------------------------------------------------------------------------
\* What holds of a number if it holds of all smaller ones.
LEMMA StrongAscent ==
  ASSUME NEW T, \A n \in Nat : (\A i \in 0..n - 1 : i \in T) => n \in T
  PROVE  Nat \subseteq T
<1> DEFINE bad == Nat \ T
<1>1. SUFFICES ASSUME bad # {} PROVE FALSE
  OBVIOUS
<1>2. PICK m \in bad : \A k \in bad : m <= k
  <2>1. bad \subseteq Nat
    OBVIOUS
  <2> HIDE DEF bad
  <2> QED
    BY <1>1, <2>1, LeastNatural
<1>3. \A i \in 0..m - 1 : i \in T
  BY <1>2
<1> QED
  BY <1>3

\* The division of put_uvarint, under names of its own.
Quot(u) == u \div More
Rem(u)  == u % More

LEMMA QuotientAndRest ==
  ASSUME NEW u \in Nat
  PROVE  /\ Quot(u) \in Nat /\ Rem(u) \in 0..More - 1
         /\ More * Quot(u) \in Nat
         /\ u = More * Quot(u) + Rem(u)
         /\ u > 0 => Quot(u) < u
         /\ u >= More => Quot(u) > 0
<1>1. More \in Nat /\ More >= 2
  BY Widths
<1> DEFINE q == u \div More
           r == u % More
           p == More * q
<1>2. q \in Int /\ r \in 0..More - 1 /\ p \in Int /\ u = p + r
  BY <1>1
<1>3. /\ q <= -1 => p <= -More
      /\ q = 0 => p = 0
      /\ q >= 1 => p >= 2 * q
  <2> HIDE DEF q
  <2> QED
    BY <1>1, <1>2
<1> HIDE DEF p, q, r
<1>4. q >= 0
  BY <1>1, <1>2, <1>3
<1>5. u > 0 => q < u
  BY <1>1, <1>2, <1>3, <1>4
<1>6. u >= More => q > 0
  BY <1>1, <1>2, <1>3, <1>4
<1>7. q = Quot(u) /\ r = Rem(u) /\ p = More * q
  BY DEF p, q, r, Quot, Rem
<1>8. q \in Nat /\ r \in 0..More - 1 /\ More * q \in Nat /\ u = More * q + r
  <2>1. p \in Nat
    BY <1>1, <1>2, <1>3, <1>4
  <2> QED
    BY <1>2, <1>4, <1>7, <2>1
<1> QED
  BY <1>5, <1>6, <1>7, <1>8

LEMMA Quotients ==
  ASSUME NEW u \in Nat
  PROVE  /\ Quot(u) \in Nat /\ Rem(u) \in 0..More - 1
         /\ u > 0 => Quot(u) < u
         /\ u >= More => Quot(u) > 0
BY QuotientAndRest

\* put_uvarint, round by round.
PutRound(n, rest) == IF n < More THEN <<n>> ELSE <<More + Rem(n)>> \o rest

LEMMA PutRounds ==
  ASSUME NEW u \in Nat
  PROVE  /\ PutUvarint(u) \in Seq(Byte)
         /\ u < More => PutUvarint(u) = <<u>>
         /\ u >= More => PutUvarint(u) = <<More + Rem(u)>> \o PutUvarint(Quot(u))
<1> DEFINE Body(f) == [n \in Nat |-> PutRound(n, f[Quot(n)])]
           pred == [n \in Nat \ {0} |-> Quot(n)]
           step == [p \in (Nat \ {0}) \X Seq(Byte) |-> PutRound(p[1], p[2])]
           g == CHOOSE f : f = Body(f)
<1>0. More \in Nat /\ More >= 2
  BY Widths
<1>1. ASSUME NEW n \in Nat, NEW rest \in Seq(Byte) PROVE PutRound(n, rest) \in Seq(Byte)
  <2>1. CASE n < More
    <3>1. n \in Byte
      BY <1>0, <2>1 DEF Byte
    <3> QED
      BY <2>1, <3>1 DEF PutRound
  <2>2. CASE ~(n < More)
    <3>0. Rem(n) \in 0..More - 1
      BY Quotients
    <3>1. More + Rem(n) \in Byte
      BY <1>0, <3>0 DEF Byte
    <3> QED
      BY <2>2, <3>1 DEF PutRound
  <2> QED
    BY <2>1, <2>2
<1>2. PutRound(0, <<>>) = <<0>> /\ \A rest : PutRound(0, rest) = <<0>>
  BY <1>0 DEF PutRound
<1>3. \A n : PutUvarint(n) = g[n]
  BY DEF PutUvarint, PutRound, Quot, Rem
<1>5. <<0>> \in Seq(Byte)
  <2>1. 0 \in Byte
    BY <1>0 DEF Byte
  <2> QED
    BY <2>1
<1>6. PICK f : IsDescent(f, Seq(Byte), <<0>>, pred, step)
  <2>1. pred \in [Nat \ {0} -> Nat] /\ \A n \in Nat \ {0} : pred[n] < n
    BY Quotients
  <2>2. step \in [(Nat \ {0}) \X Seq(Byte) -> Seq(Byte)]
    BY <1>1
  <2> HIDE DEF pred, step
  <2> QED
    BY <1>5, <2>1, <2>2, DescentExists
<1>7. /\ f \in [Nat -> Seq(Byte)] /\ f[0] = <<0>>
      /\ \A n \in Nat \ {0} : f[n] = step[<<n, f[pred[n]]>>]
  <2> HIDE DEF pred, step
  <2> QED
    BY <1>6 DEF IsDescent
<1>8. ASSUME NEW n \in Nat PROVE f[n] = PutRound(n, f[Quot(n)])
  <2>1. CASE n = 0
    BY <1>2, <1>7, <2>1
  <2>2. CASE n # 0
    <3>1. pred[n] = Quot(n) /\ Quot(n) \in Nat
      BY <2>2, Quotients
    <3>2. f[n] = step[<<n, f[Quot(n)]>>] /\ f[Quot(n)] \in Seq(Byte)
      BY <1>7, <2>2, <3>1
    <3> QED
      BY <2>2, <3>2
  <2> QED
    BY <2>1, <2>2
<1>9. f = Body(f)
  BY <1>7, <1>8
<1>10. g = Body(g)
  <2> HIDE DEF Body
  <2> QED
    BY <1>9
<1> HIDE DEF g
<1>11. \A n \in Nat : g[n] = PutRound(n, g[Quot(n)])
  BY <1>10
<1> DEFINE T == {n \in Nat : g[n] \in Seq(Byte)}
<1>12. ASSUME NEW n \in Nat, \A i \in 0..n - 1 : i \in T PROVE n \in T
  <2>1. CASE n < More
    <3>1. g[n] = PutRound(n, g[Quot(n)]) /\ PutRound(n, g[Quot(n)]) = <<n>>
      BY <1>11, <2>1 DEF PutRound
    <3>2. n \in Byte
      BY <1>0, <2>1 DEF Byte
    <3>3. <<n>> \in Seq(Byte)
      BY <3>2
    <3> QED
      BY <3>1, <3>3
  <2>2. CASE ~(n < More)
    <3>1. Quot(n) \in 0..n - 1
      BY <1>0, <2>2, Quotients
    <3>2. g[Quot(n)] \in Seq(Byte)
      BY <1>12, <3>1
    <3> QED
      BY <1>1, <1>11, <3>2
  <2> QED
    BY <2>1, <2>2
<1>13. u \in T
  <2> HIDE DEF T
  <2> QED
    BY <1>12, StrongAscent
<1>14. g[u] = PutRound(u, g[Quot(u)])
  BY <1>11
<1>15. PutUvarint(u) = g[u] /\ PutUvarint(Quot(u)) = g[Quot(u)]
  BY <1>3
<1>16. g[u] \in Seq(Byte)
  BY <1>13
<1>17. /\ u < More => PutRound(u, g[Quot(u)]) = <<u>>
       /\ u >= More => PutRound(u, g[Quot(u)]) = <<More + Rem(u)>> \o g[Quot(u)]
  BY <1>0 DEF PutRound
<1> QED
  BY <1>14, <1>15, <1>16, <1>17

\* A varint has a byte less than its value has digits.
LEMMA PutLength ==
  ASSUME NEW u \in Nat
  PROVE  LET n == Len(PutUvarint(u))
         IN  n \in Nat \ {0} /\ (n > 1 => Power(2, (n - 1) * PayloadBits) <= u)
<1> DEFINE n(x) == Len(PutUvarint(x))
           T == {x \in Nat : n(x) \in Nat \ {0} /\ (n(x) > 1 => Power(2, (n(x) - 1) * PayloadBits) <= x)}
<1>0. More \in Nat /\ More >= 2 /\ More = Power(2, PayloadBits) /\ PayloadBits \in Nat
  BY Widths, CodecAssumption
<1>1. ASSUME NEW x \in Nat, \A i \in 0..x - 1 : i \in T PROVE x \in T
  <2>1. CASE x < More
    <3>1. PutUvarint(x) = <<x>>
      BY <2>1, PutRounds
    <3>2. n(x) = 1
      BY <3>1
    <3> HIDE DEF n
    <3> QED
      BY <3>2
  <2>2. CASE ~(x < More)
    <3> DEFINE y == Quot(x)
    <3>0. x \in Nat /\ x >= More /\ x > 0
      BY <1>0, <2>2
    <3>1. y \in Nat /\ y \in 0..x - 1 /\ y > 0 /\ More * y <= x
      <4>1. y \in Nat /\ y > 0 /\ y < x
        BY <3>0, Quotients
      <4>2. More * y \in Nat /\ x = More * y + Rem(x) /\ Rem(x) \in 0..More - 1
        BY QuotientAndRest
      <4> DEFINE z == More * y
      <4> HIDE DEF y, z
      <4> QED
        BY <1>0, <4>1, <4>2 DEF z
    <3>2. PutUvarint(x) = <<More + Rem(x)>> \o PutUvarint(y) /\ PutUvarint(y) \in Seq(Byte)
      BY <3>0, <3>1, PutRounds
    <3>3. n(x) = n(y) + 1
      <4>0. More + Rem(x) \in Int
        BY <1>0, Quotients
      <4>1. <<More + Rem(x)>> \in Seq(Int)
        BY <4>0
      <4>2. PutUvarint(y) \in Seq(Int)
        BY <1>0, <3>2, SeqMonotonic DEF Byte
      <4> HIDE DEF y
      <4> QED
        BY <3>2, <4>1, <4>2, ConcatProperties
    <3>4. n(y) \in Nat \ {0} /\ (n(y) > 1 => Power(2, (n(y) - 1) * PayloadBits) <= y)
      BY <1>1, <3>1
    <3> HIDE DEF y, n
    <3>5. Power(2, n(y) * PayloadBits) <= x
      <4>1. CASE n(y) = 1
        <5>1. More * y >= More
          BY <1>0, <3>1
        <5> QED
          BY <1>0, <3>1, <4>1, <5>1
      <4>2. CASE n(y) # 1
        <5> DEFINE m == (n(y) - 1) * PayloadBits
                   p == Power(2, m)
        <5>1. m \in Nat /\ n(y) * PayloadBits = PayloadBits + m
          BY <1>0, <3>4
        <5>2. p <= y
          BY <3>4, <4>2
        <5>3. Power(2, PayloadBits + m) = More * p /\ p \in Nat
          <6> HIDE DEF m
          <6>1. 2 \in Nat \ {0}
            OBVIOUS
          <6>2. Power(2, PayloadBits + m) = Power(2, PayloadBits) * Power(2, m)
            BY <1>0, <5>1, <6>1, PowerOfSum
          <6> QED
            BY <1>0, <5>1, <6>1, <6>2, PowerPositive
        <5> HIDE DEF m, p
        <5>4. More * p <= More * y
          BY <1>0, <3>1, <5>2, <5>3
        <5> QED
          BY <1>0, <3>1, <5>1, <5>3, <5>4
      <4> QED
        BY <4>1, <4>2
    <3>6. n(x) \in Nat \ {0} /\ n(x) - 1 = n(y)
      BY <3>3, <3>4
    <3> QED
      BY <3>5, <3>6
  <2> QED
    BY <2>1, <2>2
<1>2. u \in T
  <2> HIDE DEF T
  <2> QED
    BY <1>1, StrongAscent
<1> QED
  BY <1>2

-----------------------------------------------------------------------------
\* Behind the first `at` elements of the input come those of s, and bytes only
\* have been read when they have.
Holds(bs, at, s) ==
  /\ at \in Nat /\ Len(bs) \in Nat /\ Len(s) \in Nat
  /\ at + Len(s) <= Len(bs)
  /\ \A i \in 1..Len(s) : bs[at + i] = s[i]
  /\ \A i \in 1..at + Len(s) : bs[i] \in Byte

LEMMA HoldsBoth ==
  ASSUME NEW bs, NEW at \in Nat, NEW s \in Seq(Byte), NEW t \in Seq(Byte), Holds(bs, at, s \o t)
  PROVE  /\ Holds(bs, at, s) /\ Holds(bs, at + Len(s), t)
         /\ at + Len(s \o t) = (at + Len(s)) + Len(t)
<1>1. /\ Len(s) \in Nat /\ Len(t) \in Nat /\ Len(s \o t) = Len(s) + Len(t)
      /\ \A i \in 1..Len(s) : (s \o t)[i] = s[i]
      /\ \A i \in 1..Len(t) : (s \o t)[Len(s) + i] = t[i]
  <2>1. Len(s) \in Nat /\ Len(t) \in Nat /\ Len(s \o t) = Len(s) + Len(t)
    BY LenProperties, ConcatProperties
  <2>2. \A i \in 1..Len(s) + Len(t) :
          (s \o t)[i] = IF i <= Len(s) THEN s[i] ELSE t[i - Len(s)]
    BY ConcatProperties
  <2>3. ASSUME NEW i \in 1..Len(s) PROVE (s \o t)[i] = s[i]
    BY <2>1, <2>2
  <2>4. ASSUME NEW i \in 1..Len(t) PROVE (s \o t)[Len(s) + i] = t[i]
    <3>1. Len(s) + i \in 1..Len(s) + Len(t) /\ ~(Len(s) + i <= Len(s)) /\ (Len(s) + i) - Len(s) = i
      BY <2>1
    <3> QED
      BY <2>2, <3>1
  <2> QED
    BY <2>1, <2>3, <2>4
<1>2. /\ at \in Nat /\ Len(bs) \in Nat /\ at + (Len(s) + Len(t)) <= Len(bs)
      /\ \A i \in 1..Len(s) + Len(t) : bs[at + i] = (s \o t)[i]
      /\ \A i \in 1..at + (Len(s) + Len(t)) : bs[i] \in Byte
  BY <1>1 DEF Holds
<1>3. Holds(bs, at, s)
  <2>1. \A i \in 1..Len(s) : bs[at + i] = s[i]
    BY <1>1, <1>2
  <2>2. \A i \in 1..at + Len(s) : bs[i] \in Byte
    BY <1>1, <1>2
  <2> QED
    BY <1>1, <1>2, <2>1, <2>2 DEF Holds
<1>4. Holds(bs, at + Len(s), t)
  <2>1. ASSUME NEW i \in 1..Len(t) PROVE bs[(at + Len(s)) + i] = t[i]
    <3>1. Len(s) + i \in 1..Len(s) + Len(t) /\ at + (Len(s) + i) = (at + Len(s)) + i
      BY <1>1, <1>2
    <3> QED
      BY <1>1, <1>2, <3>1
  <2>2. \A i \in 1..(at + Len(s)) + Len(t) : bs[i] \in Byte
    BY <1>1, <1>2
  <2> QED
    BY <1>1, <1>2, <2>1, <2>2 DEF Holds
<1> QED
  BY <1>1, <1>2, <1>3, <1>4

\* The first byte without the flag, behind the first `at`.
FirstEnd(bs, at, last) ==
  /\ last \in at + 1..Len(bs) /\ Ends(bs[last])
  /\ \A i \in at + 1..last - 1 : ~Ends(bs[i])

\* The loop of get_uvarint, from the last byte of a varint back to the first.
Bits(bs, last) ==
  CHOOSE f : f = [i \in 1..last |-> (bs[i] % More) + (IF i = last THEN 0 ELSE More * f[i + 1])]

LEMMA UvarintUpTo ==
  ASSUME NEW bs, NEW at \in Nat, Len(bs) \in Nat, NEW last, FirstEnd(bs, at, last)
  PROVE  GetUvarint(bs, at) =
           IF (last - at - 1) * PayloadBits < WordBits
           THEN Parsed(Bits(bs, last)[at + 1] % (2 * Half), last) ELSE Failed
<1> DEFINE ends == {i \in at + 1..Len(bs) : Ends(bs[i])}
<1>1. last \in ends /\ \A i \in ends : last <= i
  BY DEF FirstEnd
<1>2. Min(ends) = last
  <2>1. \A i \in ends : i \in Int
    OBVIOUS
  <2> HIDE DEF ends
  <2>2. Min(ends) \in ends /\ \A i \in ends : Min(ends) <= i
    BY <1>1 DEF Min
  <2>3. Min(ends) <= last /\ last <= Min(ends) /\ Min(ends) \in Int /\ last \in Int
    BY <1>1, <2>1, <2>2
  <2> QED
    BY <2>3
<1>3. ends # {}
  BY <1>1
<1>4. GetUvarint(bs, at) =
        IF ends # {} /\ (Min(ends) - at - 1) * PayloadBits < WordBits
        THEN Parsed(Bits(bs, Min(ends))[at + 1] % (2 * Half), Min(ends)) ELSE Failed
  BY DEF GetUvarint, Bits
<1> QED
  BY <1>2, <1>3, <1>4

LEMMA BitsLoop ==
  ASSUME NEW bs, NEW last \in Nat \ {0}, \A i \in 1..last : bs[i] \in Byte
  PROVE  /\ Bits(bs, last) \in [1..last -> Nat]
         /\ Bits(bs, last)[last] = Rem(bs[last])
         /\ \A i \in 1..last - 1 : Bits(bs, last)[i] = Rem(bs[i]) + More * Bits(bs, last)[i + 1]
<1> DEFINE n == last - 1
           Add(i, higher) == Rem(bs[i]) + (IF i = last THEN 0 ELSE More * higher)
           Body(f) == [i \in 1..last |-> Add(i, f[i + 1])]
           step == [p \in (1..n) \X Nat |-> Add(last - p[1], p[2])]
           g == Bits(bs, last)
<1>0. n \in Nat /\ More \in Nat
  BY Widths
<1>1. \A i \in 1..last : Rem(bs[i]) \in Nat
  <2>1. \A i \in 1..last : bs[i] \in Nat
    BY <1>0 DEF Byte
  <2> QED
    BY <1>0, <2>1, Quotients
<1>2. \A i \in 1..last - 1 : \A higher \in Nat : Add(i, higher) \in Nat
  BY <1>0, <1>1
<1>3. \A higher : Add(last, higher) = Rem(bs[last]) /\ Add(last, higher) \in Nat
  BY <1>1
<1>4. \A i \in 1..last - 1 : \A higher : Add(i, higher) = Rem(bs[i]) + More * higher
  OBVIOUS
<1>5. g = CHOOSE f : f = Body(f)
  BY DEF Bits, Rem
<1> HIDE DEF Add, g
<1>6. PICK h : IsLoop(h, Nat, Rem(bs[last]), n, step)
  <2>1. step \in [(1..n) \X Nat -> Nat]
    <3>1. \A j \in 1..n : last - j \in 1..last - 1
      OBVIOUS
    <3> QED
      BY <1>2, <3>1
  <2>2. Rem(bs[last]) \in Nat
    BY <1>1
  <2> HIDE DEF step, n
  <2> QED
    BY <1>0, <2>1, <2>2, LoopExists
<1>7. /\ h \in [0..n -> Nat] /\ h[0] = Rem(bs[last])
      /\ \A i \in 1..n : h[i] = step[<<i, h[i - 1]>>]
  <2> HIDE DEF step, n
  <2> QED
    BY <1>6 DEF IsLoop
<1> DEFINE f == [i \in 1..last |-> h[last - i]]
<1>8. ASSUME NEW i \in 1..last PROVE f[i] = Add(i, f[i + 1])
  <2>1. CASE i = last
    <3>1. f[i] = h[0]
      BY <2>1
    <3> HIDE DEF f
    <3> QED
      BY <1>3, <1>7, <2>1, <3>1
  <2>2. CASE i # last
    <3> DEFINE j == last - i
    <3>1. j \in 1..n /\ j - 1 \in 0..n /\ last - j = i /\ last - (i + 1) = j - 1 /\ i + 1 \in 1..last
      BY <2>2
    <3>2. f[i] = h[j] /\ f[i + 1] = h[j - 1]
      BY <3>1
    <3> HIDE DEF f, j, n
    <3>3. h[j - 1] \in Nat /\ h[j] = step[<<j, h[j - 1]>>]
      BY <1>7, <3>1
    <3>4. step[<<j, h[j - 1]>>] = Add(last - j, h[j - 1])
      BY <3>1, <3>3
    <3> QED
      BY <3>1, <3>2, <3>3, <3>4
  <2> QED
    BY <2>1, <2>2
<1>9. f = Body(f)
  <2>1. f = [i \in 1..last |-> f[i]]
    OBVIOUS
  <2> HIDE DEF f
  <2> QED
    BY <1>8, <2>1
<1>10. g = Body(g)
  <2> HIDE DEF Body, f
  <2> QED
    BY <1>5, <1>9
<1>11. \A i \in 1..last : g[i] = Add(i, g[i + 1])
  BY <1>10
<1>12. g[last] = Rem(bs[last]) /\ \A i \in 1..last - 1 : g[i] = Rem(bs[i]) + More * g[i + 1]
  BY <1>3, <1>4, <1>11
<1> DEFINE T == {j \in 0..n : g[last - j] \in Nat}
<1>13. 0 \in T
  BY <1>1, <1>12
<1>14. ASSUME NEW j \in 1..n, j - 1 \in T PROVE j \in T
  <2> DEFINE i == last - j
  <2>1. i \in 1..last - 1 /\ i \in 1..last /\ last - (j - 1) = i + 1
    OBVIOUS
  <2>2. g[i + 1] \in Nat
    BY <1>14, <2>1
  <2>3. g[i] \in Nat
    <3> HIDE DEF i
    <3> QED
      BY <1>2, <1>11, <2>1, <2>2
  <2> QED
    BY <2>3
<1>15. 0..n \subseteq T
  <2> HIDE DEF T, n
  <2> QED
    BY <1>0, <1>13, <1>14, Ascent
<1>16. ASSUME NEW i \in 1..last PROVE g[i] \in Nat
  <2>1. last - i \in 0..n /\ last - (last - i) = i
    OBVIOUS
  <2> QED
    BY <1>15, <2>1
<1>17. g \in [1..last -> Nat]
  BY <1>10, <1>16
<1> QED
  BY <1>12, <1>17 DEF g

\* What was put is read, and no more than that.
LEMMA BitsOfPut ==
  ASSUME NEW bs, NEW u \in Nat
  PROVE  \A at \in Nat : Holds(bs, at, PutUvarint(u)) =>
           LET last == at + Len(PutUvarint(u))
           IN  FirstEnd(bs, at, last) /\ Bits(bs, last)[at + 1] = u
<1> DEFINE Read(x, at) == LET last == at + Len(PutUvarint(x))
                          IN  FirstEnd(bs, at, last) /\ Bits(bs, last)[at + 1] = x
           T == {x \in Nat : \A at \in Nat : Holds(bs, at, PutUvarint(x)) => Read(x, at)}
<1>0. More \in Nat /\ More >= 2 /\ Byte \subseteq Nat
  BY Widths DEF Byte
<1>1. ASSUME NEW x \in Nat, \A i \in 0..x - 1 : i \in T PROVE x \in T
  <2> SUFFICES ASSUME NEW at \in Nat, Holds(bs, at, PutUvarint(x)) PROVE Read(x, at)
    OBVIOUS
  <2> DEFINE s == PutUvarint(x)
             last == at + Len(s)
  <2>1. s \in Seq(Byte) /\ Len(s) \in Nat \ {0}
    BY PutRounds, PutLength
  <2>2. /\ last \in at + 1..Len(bs) /\ last \in Nat \ {0} /\ Len(bs) \in Nat
        /\ \A i \in 1..last : bs[i] \in Byte
        /\ \A i \in 1..Len(s) : bs[at + i] = s[i]
    BY <2>1 DEF Holds
  <2>3. /\ Bits(bs, last)[last] = Rem(bs[last])
        /\ \A i \in 1..last - 1 : Bits(bs, last)[i] = Rem(bs[i]) + More * Bits(bs, last)[i + 1]
    <3> HIDE DEF last
    <3> QED
      BY <2>2, BitsLoop
  <2>4. CASE x < More
    <3>1. s = <<x>>
      BY <2>4, PutRounds
    <3>2. last = at + 1 /\ bs[at + 1] = x
      BY <2>2, <3>1
    <3>3. Ends(x) /\ Rem(x) = x
      BY <1>0, <2>4 DEF Ends, Rem
    <3>4. FirstEnd(bs, at, last)
      BY <2>2, <3>2, <3>3 DEF FirstEnd
    <3>5. Bits(bs, last)[at + 1] = x
      <4> HIDE DEF last
      <4> QED
        BY <2>3, <3>2, <3>3
    <3> QED
      BY <3>4, <3>5
  <2>5. CASE ~(x < More)
    <3> DEFINE y == Quot(x)
               b == More + Rem(x)
               t == PutUvarint(y)
    <3>1. y \in Nat /\ y \in 0..x - 1 /\ Rem(x) \in 0..More - 1
      <4>1. x > 0
        BY <1>0, <2>5
      <4> QED
        BY <4>1, Quotients
    <3>2. s = <<b>> \o t /\ t \in Seq(Byte)
      <4>1. x >= More
        BY <1>0, <2>5
      <4>2. PutUvarint(x) = <<More + Rem(x)>> \o PutUvarint(Quot(x))
        BY <4>1, PutRounds
      <4>3. PutUvarint(y) \in Seq(Byte)
        BY <3>1, PutRounds
      <4> QED
        BY <4>2, <4>3
    <3> DEFINE one == <<b>>
    <3>3. b \in Byte /\ one \in Seq(Byte) /\ Len(one) = 1 /\ one[1] = b
      <4>1. b \in Byte
        BY <1>0, <3>1 DEF Byte
      <4> HIDE DEF b
      <4> QED
        BY <4>1
    <3>a. s = one \o t
      BY <3>2
    <3> HIDE DEF s, t, b, y, one
    <3>4. Holds(bs, at, one) /\ Holds(bs, at + 1, t) /\ last = (at + 1) + Len(t)
      <4>1. Holds(bs, at, one \o t)
        BY <3>a DEF s
      <4>2. /\ Holds(bs, at, one) /\ Holds(bs, at + Len(one), t)
            /\ at + Len(one \o t) = (at + Len(one)) + Len(t)
        <5>1. one \in Seq(Byte) /\ t \in Seq(Byte) /\ at \in Nat
          BY <3>2, <3>3
        <5> QED
          BY ONLY <5>1, <4>1, HoldsBoth
      <4> QED
        BY <3>3, <3>a, <4>2
    <3>5. Read(y, at + 1)
      <4>1. at + 1 \in Nat /\ y \in T
        BY <1>1, <3>1
      <4> HIDE DEF last, Read
      <4> QED
        BY <3>4, <4>1 DEF t
    <3>6. FirstEnd(bs, at + 1, last) /\ Bits(bs, last)[(at + 1) + 1] = y
      BY <3>4, <3>5 DEF t
    <3>7. bs[at + 1] = b
      <4>1. bs[at + 1] = one[1]
        BY <3>3, <3>4 DEF Holds
      <4> QED
        BY <3>3, <4>1
    <3>8. ~Ends(b)
      BY <1>0, <3>1 DEF Ends, b
    <3>9. FirstEnd(bs, at, last)
      <4>1. last \in at + 1..Len(bs) /\ Ends(bs[last]) /\ last \in Int
        BY <2>2, <3>6 DEF FirstEnd
      <4>2. ASSUME NEW i \in at + 1..last - 1 PROVE ~Ends(bs[i])
        <5>1. CASE i = at + 1
          BY <3>7, <3>8, <5>1
        <5>2. CASE i # at + 1
          <6>1. i \in (at + 1) + 1..last - 1
            BY <5>2, <4>1
          <6> QED
            BY <3>6, <6>1 DEF FirstEnd
        <5> QED
          BY <5>1, <5>2
      <4> HIDE DEF last
      <4> QED
        BY <4>1, <4>2 DEF FirstEnd
    <3>10. Bits(bs, last)[at + 1] = x
      <4>1. at + 1 \in 1..last - 1
        <5>1. last \in (at + 1) + 1..Len(bs)
          BY <3>6 DEF FirstEnd
        <5> HIDE DEF last
        <5> QED
          BY <5>1, <2>2
      <4>2. Bits(bs, last)[at + 1] = Rem(b) + More * y
        <5> HIDE DEF last
        <5> QED
          BY <2>3, <3>6, <3>7, <4>1
      <4>3. Rem(b) = Rem(x)
        <5> DEFINE r == Rem(x)
        <5>1. r \in 0..More - 1
          BY <3>1
        <5> HIDE DEF r
        <5>2. (More + r) % More = r
          BY <1>0, <5>1
        <5>3. Rem(b) = (More + r) % More
          BY DEF Rem, b, r
        <5> QED
          BY <5>2, <5>3 DEF r
      <4>4. x = More * y + Rem(x) /\ More * y \in Nat
        BY QuotientAndRest DEF y
      <4> DEFINE z == More * y
      <4> HIDE DEF last, z
      <4> QED
        BY <3>1, <4>2, <4>3, <4>4 DEF z
    <3> QED
      BY <3>9, <3>10 DEF s
  <2> QED
    BY <2>4, <2>5
<1>2. u \in T
  <2> HIDE DEF T
  <2> QED
    BY <1>1, StrongAscent
<1> QED
  BY <1>2

\* A word comes back, and is not cut.
LEMMA UvarintComesBack ==
  ASSUME NEW bs, NEW at \in Nat, NEW u \in 0..2 * Half - 1, Holds(bs, at, PutUvarint(u))
  PROVE  GetUvarint(bs, at) = Parsed(u, at + Len(PutUvarint(u)))
<1> DEFINE n == Len(PutUvarint(u))
           last == at + n
<1>0. Half \in Nat \ {0} /\ 2 * Half = Power(2, WordBits) /\ u \in Nat
  BY Widths
<1>1. n \in Nat \ {0} /\ (n > 1 => Power(2, (n - 1) * PayloadBits) <= u)
  BY <1>0, PutLength
<1>2. FirstEnd(bs, at, last) /\ Bits(bs, last)[at + 1] = u
  BY <1>0, BitsOfPut
<1>3. Len(bs) \in Nat
  BY DEF Holds
<1> HIDE DEF n
<1>4. (n - 1) * PayloadBits < WordBits
  <2> DEFINE m == (n - 1) * PayloadBits
  <2>1. WordBits \in Nat \ {0} /\ PayloadBits \in Nat \ {0} /\ n - 1 \in Nat
    BY <1>1, CodecAssumption
  <2>2. m \in Nat
    BY <2>1
  <2>3. CASE n = 1
    BY <2>1, <2>3
  <2>4. CASE n > 1
    <3>1. Power(2, m) <= u
      BY <1>1, <2>4
    <3> HIDE DEF m
    <3>2. ASSUME WordBits <= m PROVE FALSE
      <4>1. Power(2, WordBits) <= Power(2, m) /\ Power(2, m) \in Nat
        BY <2>1, <2>2, <3>2, PowerMonotone, PowerPositive
      <4> QED
        BY <1>0, <3>1, <4>1
    <3>3. m < WordBits
      BY <2>1, <2>2, <3>2
    <3> QED
      BY <3>3 DEF m
  <2> QED
    BY <1>1, <2>3, <2>4
<1>5. last - at - 1 = n - 1
  BY <1>1
<1>6. u % (2 * Half) = u
  BY <1>0
<1> HIDE DEF last
<1>7. GetUvarint(bs, at) =
        IF (last - at - 1) * PayloadBits < WordBits
        THEN Parsed(Bits(bs, last)[at + 1] % (2 * Half), last) ELSE Failed
  BY <1>2, <1>3, UvarintUpTo
<1> QED
  BY <1>2, <1>4, <1>5, <1>6, <1>7 DEF last, n

LEMMA ZigzagComesBack ==
  ASSUME NEW n \in Word
  PROVE  Zigzag(n) \in 0..2 * Half - 1 /\ Unzigzag(Zigzag(n)) = n
<1>1. Half \in Nat /\ n \in Int /\ -Half <= n /\ n <= Half - 1
  BY Widths DEF Word
<1> QED
  BY <1>1 DEF Zigzag, Unzigzag

-----------------------------------------------------------------------------
\* Pieces that are put one after the other.
Flattening(ss) ==
  CHOOSE f : f = [i \in 1..Len(ss) |-> IF i = 1 THEN ss[i] ELSE f[i - 1] \o ss[i]]

IsFlattening(f, ss) ==
  /\ \A i \in 1..Len(ss) : f[i] \in Seq(Byte)
  /\ f[1] = ss[1]
  /\ \A i \in 2..Len(ss) : f[i] = f[i - 1] \o ss[i]

LEMMA FlatteningStep ==
  ASSUME NEW x \in Seq(Byte), NEW y \in Seq(Byte)
  PROVE  x \o y \in Seq(Byte)
BY ConcatProperties

LEMMA FlatteningLoop ==
  ASSUME NEW ss \in Seq(Seq(Byte)), Len(ss) # 0
  PROVE  IsFlattening(Flattening(ss), ss) /\ FlattenSeq(ss) = Flattening(ss)[Len(ss)]
<1> DEFINE n == Len(ss)
           Body(f) == [i \in 1..n |-> IF i = 1 THEN ss[i] ELSE f[i - 1] \o ss[i]]
           step == [p \in (1..n - 1) \X Seq(Byte) |-> p[2] \o ss[p[1] + 1]]
           g == Flattening(ss)
<1>0. n \in Nat \ {0} /\ \A i \in 1..n : ss[i] \in Seq(Byte)
  <2>1. n \in Nat
    BY LenProperties
  <2>2. \A i \in 1..n : ss[i] \in Seq(Byte)
    BY ElementOfSeq
  <2> QED
    BY <2>1, <2>2
<1>1. FlattenSeq(ss) = g[n]
  BY DEF FlattenSeq, Flattening
<1>2. g = CHOOSE f : f = Body(f)
  BY DEF Flattening
<1> HIDE DEF g, n
<1>3. PICK h : IsLoop(h, Seq(Byte), ss[1], n - 1, step)
  <2>1. step \in [(1..n - 1) \X Seq(Byte) -> Seq(Byte)]
    <3>1. ASSUME NEW p \in (1..n - 1) \X Seq(Byte) PROVE p[2] \o ss[p[1] + 1] \in Seq(Byte)
      <4>1. p[1] + 1 \in 1..n /\ p[2] \in Seq(Byte)
        BY <1>0
      <4>2. ss[p[1] + 1] \in Seq(Byte)
        BY <1>0, <4>1
      <4> QED
        BY <4>1, <4>2, FlatteningStep
    <3> QED
      BY <3>1
  <2>2. ss[1] \in Seq(Byte) /\ n - 1 \in Nat
    BY <1>0
  <2> HIDE DEF step
  <2> QED
    BY <2>1, <2>2, LoopExists
<1>4. /\ h \in [0..n - 1 -> Seq(Byte)] /\ h[0] = ss[1]
      /\ \A i \in 1..n - 1 : h[i] = step[<<i, h[i - 1]>>]
  <2> HIDE DEF step
  <2> QED
    BY <1>3 DEF IsLoop
<1> DEFINE f == [i \in 1..n |-> h[i - 1]]
<1>5. ASSUME NEW i \in 1..n PROVE f[i] = IF i = 1 THEN ss[i] ELSE f[i - 1] \o ss[i]
  <2>1. CASE i = 1
    BY <1>0, <1>4, <2>1
  <2>2. CASE i # 1
    <3>1. i - 1 \in 1..n - 1 /\ (i - 1) - 1 \in 0..n - 1 /\ (i - 1) + 1 = i /\ i - 1 \in 1..n
      BY <1>0, <2>2
    <3>2. f[i] = h[i - 1] /\ f[i - 1] = h[(i - 1) - 1]
      BY <3>1
    <3> DEFINE x == h[(i - 1) - 1]
    <3>3. h[i - 1] = step[<<i - 1, x>>] /\ x \in Seq(Byte)
      <4> HIDE DEF step, f
      <4> QED
        BY <1>4, <3>1
    <3> HIDE DEF x, f
    <3>4. step[<<i - 1, x>>] = x \o ss[(i - 1) + 1]
      BY <3>1, <3>3
    <3> QED
      BY <2>2, <3>1, <3>2, <3>3, <3>4 DEF x
  <2> QED
    BY <2>1, <2>2
<1>6. f = Body(f)
  <2>1. f = [i \in 1..n |-> f[i]]
    OBVIOUS
  <2> HIDE DEF f
  <2> QED
    BY <1>5, <2>1
<1>7. g = Body(g)
  <2> HIDE DEF Body, f
  <2> QED
    BY <1>2, <1>6
<1>8. \A i \in 1..n : g[i] = IF i = 1 THEN ss[i] ELSE g[i - 1] \o ss[i]
  BY <1>7
<1> DEFINE T == {j \in 0..n - 1 : g[j + 1] \in Seq(Byte)}
<1>9. 0 \in T
  BY <1>0, <1>8
<1>10. ASSUME NEW j \in 1..n - 1, j - 1 \in T PROVE j \in T
  <2>1. j + 1 \in 1..n /\ j + 1 # 1 /\ (j + 1) - 1 = j /\ (j - 1) + 1 = j
    BY <1>0
  <2>2. g[j] \in Seq(Byte) /\ ss[j + 1] \in Seq(Byte)
    BY <1>0, <1>10, <2>1
  <2>3. g[j + 1] = g[j] \o ss[j + 1]
    BY <1>8, <2>1
  <2>4. g[j] \o ss[j + 1] \in Seq(Byte)
    BY ONLY <2>2, FlatteningStep
  <2>5. g[j + 1] \in Seq(Byte)
    BY ONLY <2>3, <2>4
  <2> QED
    BY <2>5
<1>11. 0..n - 1 \subseteq T
  <2>1. n - 1 \in Nat
    BY <1>0
  <2> HIDE DEF T
  <2> QED
    BY <1>9, <1>10, <2>1, Ascent
<1>12. ASSUME NEW i \in 1..n PROVE g[i] \in Seq(Byte)
  <2>1. i - 1 \in 0..n - 1 /\ (i - 1) + 1 = i
    BY <1>0
  <2> QED
    BY <1>11, <2>1
<1>13. g[1] = ss[1] /\ \A i \in 2..n : g[i] = g[i - 1] \o ss[i]
  <2>1. 1 \in 1..n /\ \A i \in 2..n : i \in 1..n /\ i # 1
    BY <1>0
  <2> QED
    BY <1>8, <2>1
<1> QED
  BY <1>1, <1>12, <1>13 DEF IsFlattening, n, g

LEMMA FlattenedBytes ==
  ASSUME NEW ss \in Seq(Seq(Byte))
  PROVE  FlattenSeq(ss) \in Seq(Byte)
<1>1. CASE Len(ss) = 0
  <2>1. FlattenSeq(ss) = ss
    BY <1>1 DEF FlattenSeq
  <2>2. ss = <<>>
    BY <1>1, EmptySeq
  <2> QED
    BY <2>1, <2>2
<1>2. CASE Len(ss) # 0
  <2>1. Len(ss) \in 1..Len(ss)
    BY <1>2, LenProperties
  <2> QED
    BY <1>2, <2>1, FlatteningLoop DEF IsFlattening
<1> QED
  BY <1>1, <1>2

\* Where each piece starts, and where the last one ends.
Places(off, bs, at, ss) ==
  /\ \A i \in 0..Len(ss) : off[i] \in Nat
  /\ off[0] = at /\ off[Len(ss)] = at + Len(FlattenSeq(ss))
  /\ \A i \in 1..Len(ss) : Holds(bs, off[i - 1], ss[i]) /\ off[i] = off[i - 1] + Len(ss[i])

LEMMA PiecesHaveTheirPlaces ==
  ASSUME NEW bs, NEW at \in Nat, NEW ss \in Seq(Seq(Byte)), Holds(bs, at, FlattenSeq(ss))
  PROVE  \E off : Places(off, bs, at, ss)
<1> DEFINE n == Len(ss)
<1>0. n \in Nat
  BY LenProperties
<1>1. CASE n = 0
  <2> DEFINE off == [i \in {0} |-> at]
  <2>1. FlattenSeq(ss) = ss /\ ss = <<>>
    BY <1>1, EmptySeq DEF FlattenSeq
  <2>2. Len(FlattenSeq(ss)) = 0
    BY <1>1, <2>1
  <2>3. Places(off, bs, at, ss)
    BY <1>1, <2>2 DEF Places
  <2> QED
    BY <2>3
<1>2. CASE n # 0
  <2> DEFINE f == Flattening(ss)
             off == [i \in 0..n |-> IF i = 0 THEN at ELSE at + Len(f[i])]
             T == {j \in 0..n - 1 : Holds(bs, at, f[n - j])}
  <2>1. /\ \A i \in 1..n : f[i] \in Seq(Byte) /\ Len(f[i]) \in Nat /\ ss[i] \in Seq(Byte)
        /\ f[1] = ss[1] /\ \A i \in 2..n : f[i] = f[i - 1] \o ss[i]
        /\ FlattenSeq(ss) = f[n]
    <3>1. IsFlattening(f, ss) /\ FlattenSeq(ss) = f[n]
      BY <1>2, FlatteningLoop
    <3>2. \A i \in 1..n : f[i] \in Seq(Byte)
      BY <3>1 DEF IsFlattening
    <3>3. \A i \in 1..n : Len(f[i]) \in Nat
      BY <3>2, LenProperties
    <3>4. \A i \in 1..n : ss[i] \in Seq(Byte)
      BY ElementOfSeq
    <3> QED
      BY <3>1, <3>2, <3>3, <3>4 DEF IsFlattening
  <2> HIDE DEF f, n
  <2>2. ASSUME NEW i \in 2..n, Holds(bs, at, f[i])
        PROVE  /\ Holds(bs, at, f[i - 1]) /\ Holds(bs, at + Len(f[i - 1]), ss[i])
               /\ at + Len(f[i]) = (at + Len(f[i - 1])) + Len(ss[i])
    <3> DEFINE x == f[i - 1]
               y == ss[i]
    <3>1. x \in Seq(Byte) /\ y \in Seq(Byte) /\ f[i] = x \o y /\ Holds(bs, at, x \o y)
      <4>1. i - 1 \in 1..n /\ i \in 1..n
        BY <1>0
      <4> QED
        BY <2>1, <2>2, <4>1
    <3> HIDE DEF x, y
    <3>2. /\ Holds(bs, at, x) /\ Holds(bs, at + Len(x), y)
          /\ at + Len(x \o y) = (at + Len(x)) + Len(y)
      BY ONLY <3>1, at \in Nat, HoldsBoth
    <3> QED
      BY <3>1, <3>2 DEF x, y
  <2>3. 0 \in T
    BY <1>0, <1>2, <2>1
  <2>4. ASSUME NEW j \in 1..n - 1, j - 1 \in T PROVE j \in T
    <3>1. n - (j - 1) \in 2..n /\ (n - (j - 1)) - 1 = n - j
      BY <1>0
    <3>2. Holds(bs, at, f[n - (j - 1)])
      BY <2>4
    <3>3. Holds(bs, at, f[n - j])
      BY <2>2, <3>1, <3>2
    <3> QED
      BY <3>3
  <2>5. 0..n - 1 \subseteq T
    <3>1. n - 1 \in Nat
      BY <1>0, <1>2
    <3> HIDE DEF T
    <3> QED
      BY <2>3, <2>4, <3>1, Ascent
  <2>6. ASSUME NEW i \in 1..n PROVE Holds(bs, at, f[i])
    <3>1. n - i \in 0..n - 1 /\ n - (n - i) = i
      BY <1>0
    <3> QED
      BY <2>5, <3>1
  <2>7. \A i \in 0..n : off[i] \in Nat
    BY <2>1
  <2>8. off[0] = at /\ off[n] = at + Len(FlattenSeq(ss))
    BY <1>0, <1>2, <2>1
  <2>9. ASSUME NEW i \in 1..n
        PROVE  Holds(bs, off[i - 1], ss[i]) /\ off[i] = off[i - 1] + Len(ss[i])
    <3>1. CASE i = 1
      <4>1. off[i - 1] = at /\ off[i] = at + Len(f[1])
        BY <1>0, <3>1
      <4> HIDE DEF off
      <4> QED
        BY <2>1, <2>6, <3>1, <4>1
    <3>2. CASE i # 1
      <4>0. i \in 2..n /\ i - 1 \in 0..n /\ i - 1 # 0 /\ i \in 0..n /\ i # 0
        BY <1>0, <3>2
      <4>1. i \in 2..n /\ off[i - 1] = at + Len(f[i - 1]) /\ off[i] = at + Len(f[i])
        BY <4>0
      <4> HIDE DEF off
      <4> QED
        BY <2>2, <2>6, <4>1
    <3> QED
      BY <3>1, <3>2
  <2> HIDE DEF off
  <2>10. Places(off, bs, at, ss)
    BY <2>7, <2>8, <2>9 DEF Places, n
  <2> QED
    BY <2>10
<1> QED
  BY <1>1, <1>2

-----------------------------------------------------------------------------
\* The rounds of the two loops of decode_stream.
PlainRound(bs, ds) == UNION {GetValue(bs, d) : d \in ds}

PlainDone(bs, at, n) ==
  CHOOSE f : f = [i \in 0..n |-> IF i = 0 THEN Parsed(<<>>, at) ELSE PlainRound(bs, f[i - 1])]

LEMMA PlainRounds ==
  ASSUME NEW bs, NEW at, NEW n \in Nat
  PROVE  /\ PlainDone(bs, at, n)[0] = Parsed(<<>>, at)
         /\ \A i \in 1..n : PlainDone(bs, at, n)[i] = PlainRound(bs, PlainDone(bs, at, n)[i - 1])
<1> DEFINE base == Parsed(<<>>, at)
           Body(k, f) == [i \in 0..k |-> IF i = 0 THEN base ELSE PlainRound(bs, f[i - 1])]
           T == {k \in 0..n : \E f : f = Body(k, f)}
           g == PlainDone(bs, at, n)
<1>1. 0 \in T
  <2> DEFINE f == [i \in 0..0 |-> base]
  <2>1. f = Body(0, f)
    OBVIOUS
  <2> HIDE DEF f, Body
  <2> QED
    BY <2>1
<1>2. ASSUME NEW k \in 1..n, k - 1 \in T PROVE k \in T
  <2>1. PICK f : f = Body(k - 1, f)
    BY <1>2
  <2> DEFINE x == PlainRound(bs, f[k - 1])
             h == [i \in 0..k |-> IF i = k THEN x ELSE f[i]]
  <2> HIDE DEF base
  <2>2. \A i \in 0..k - 1 : f[i] = IF i = 0 THEN base ELSE PlainRound(bs, f[i - 1])
    BY <2>1
  <2>3. ASSUME NEW i \in 0..k
        PROVE  h[i] = IF i = 0 THEN base ELSE PlainRound(bs, h[i - 1])
    <3>1. CASE i = 0
      BY <2>2, <3>1
    <3>2. CASE i = k
      <4>1. h[k] = x /\ h[k - 1] = f[k - 1] /\ k # 0
        OBVIOUS
      <4> HIDE DEF h
      <4> QED
        BY <3>2, <4>1
    <3>3. CASE i # 0 /\ i # k
      <4>1. i \in 0..k - 1 /\ h[i] = f[i] /\ h[i - 1] = f[i - 1]
        BY <3>3
      <4> HIDE DEF h
      <4> QED
        BY <2>2, <3>3, <4>1
    <3> QED
      BY <3>1, <3>2, <3>3
  <2>4. h = [i \in 0..k |-> h[i]]
    OBVIOUS
  <2> HIDE DEF h
  <2>5. h = Body(k, h)
    BY <2>3, <2>4
  <2> QED
    BY <2>5
<1>3. n \in T
  <2>1. n \in 0..n
    OBVIOUS
  <2> HIDE DEF T
  <2> QED
    BY <1>1, <1>2, <2>1, Ascent
<1>4. PICK h : h = Body(n, h)
  BY <1>3
<1>5. g = CHOOSE f : f = Body(n, f)
  BY DEF PlainDone
<1>6. g = Body(n, g)
  <2> HIDE DEF Body, g
  <2> QED
    BY <1>4, <1>5
<1> HIDE DEF g
<1>7. g[0] = base /\ \A i \in 1..n : g[i] = PlainRound(bs, g[i - 1])
  BY <1>6
<1> QED
  BY <1>7 DEF g

LEMMA PlainIsItsLastRound ==
  ASSUME NEW bs, NEW at, NEW n
  PROVE  DecodePlain(bs, at, n) = PlainDone(bs, at, n)[n]
BY DEF DecodePlain, PlainDone, PlainRound, Then

RunRound(bs, expected, ds) == UNION {GetRun(bs, expected, d) : d \in ds}

RunsDone(bs, expected, at, n) ==
  CHOOSE f : f = [i \in 0..n |-> IF i = 0 THEN Parsed(<<>>, at) ELSE RunRound(bs, expected, f[i - 1])]

LEMMA RunRounds ==
  ASSUME NEW bs, NEW expected, NEW at, NEW n \in Nat
  PROVE  /\ RunsDone(bs, expected, at, n)[0] = Parsed(<<>>, at)
         /\ \A i \in 1..n : RunsDone(bs, expected, at, n)[i] = RunRound(bs, expected, RunsDone(bs, expected, at, n)[i - 1])
<1> DEFINE base == Parsed(<<>>, at)
           Body(k, f) == [i \in 0..k |-> IF i = 0 THEN base ELSE RunRound(bs, expected, f[i - 1])]
           T == {k \in 0..n : \E f : f = Body(k, f)}
           g == RunsDone(bs, expected, at, n)
<1>1. 0 \in T
  <2> DEFINE f == [i \in 0..0 |-> base]
  <2>1. f = Body(0, f)
    OBVIOUS
  <2> HIDE DEF f, Body
  <2> QED
    BY <2>1
<1>2. ASSUME NEW k \in 1..n, k - 1 \in T PROVE k \in T
  <2>1. PICK f : f = Body(k - 1, f)
    BY <1>2
  <2> DEFINE x == RunRound(bs, expected, f[k - 1])
             h == [i \in 0..k |-> IF i = k THEN x ELSE f[i]]
  <2> HIDE DEF base
  <2>2. \A i \in 0..k - 1 : f[i] = IF i = 0 THEN base ELSE RunRound(bs, expected, f[i - 1])
    BY <2>1
  <2>3. ASSUME NEW i \in 0..k
        PROVE  h[i] = IF i = 0 THEN base ELSE RunRound(bs, expected, h[i - 1])
    <3>1. CASE i = 0
      BY <2>2, <3>1
    <3>2. CASE i = k
      <4>1. h[k] = x /\ h[k - 1] = f[k - 1] /\ k # 0
        OBVIOUS
      <4> HIDE DEF h
      <4> QED
        BY <3>2, <4>1
    <3>3. CASE i # 0 /\ i # k
      <4>1. i \in 0..k - 1 /\ h[i] = f[i] /\ h[i - 1] = f[i - 1]
        BY <3>3
      <4> HIDE DEF h
      <4> QED
        BY <2>2, <3>3, <4>1
    <3> QED
      BY <3>1, <3>2, <3>3
  <2>4. h = [i \in 0..k |-> h[i]]
    OBVIOUS
  <2> HIDE DEF h
  <2>5. h = Body(k, h)
    BY <2>3, <2>4
  <2> QED
    BY <2>5
<1>3. n \in T
  <2>1. n \in 0..n
    OBVIOUS
  <2> HIDE DEF T
  <2> QED
    BY <1>1, <1>2, <2>1, Ascent
<1>4. PICK h : h = Body(n, h)
  BY <1>3
<1>5. g = CHOOSE f : f = Body(n, f)
  BY DEF RunsDone
<1>6. g = Body(n, g)
  <2> HIDE DEF Body, g
  <2> QED
    BY <1>4, <1>5
<1> HIDE DEF g
<1>7. g[0] = base /\ \A i \in 1..n : g[i] = RunRound(bs, expected, g[i - 1])
  BY <1>6
<1> QED
  BY <1>7 DEF g

LEMMA RunsAreTheirLastRound ==
  ASSUME NEW bs, NEW at, NEW n
  PROVE  DecodeRuns(bs, at, n) =
           UNION {{d \in RunsDone(bs, n, runs.at, runs.value)[runs.value] : RunsFit(d, n)}
                    : runs \in GetUvarint(bs, at)}
BY DEF DecodeRuns, RunsDone, RunRound, Then

-----------------------------------------------------------------------------
\* The first k values.
First(values, k) == [j \in 1..k |-> values[j]]

LEMMA FirstGrows ==
  ASSUME NEW S, NEW values \in Seq(S), NEW k \in 0..Len(values)
  PROVE  /\ First(values, k) \in Seq(S) /\ Len(First(values, k)) = k
         /\ k > 0 => First(values, k) = Append(First(values, k - 1), values[k])
<1>1. Len(values) \in Nat /\ \A j \in 1..Len(values) : values[j] \in S
  BY LenProperties, ElementOfSeq
<1>2. \A i \in 0..Len(values) : First(values, i) \in Seq(S) /\ Len(First(values, i)) = i
  BY <1>1 DEF First
<1>3. ASSUME k > 0 PROVE First(values, k) = Append(First(values, k - 1), values[k])
  <2> DEFINE a == First(values, k)
             b == First(values, k - 1)
             x == values[k]
             c == Append(b, x)
  <2>1. k - 1 \in 0..Len(values) /\ k \in 1..Len(values)
    BY <1>1, <1>3
  <2>2. a \in Seq(S) /\ Len(a) = k /\ b \in Seq(S) /\ Len(b) = k - 1 /\ x \in S
    BY <1>1, <1>2, <2>1
  <2>3. /\ \A j \in 1..k : a[j] = values[j]
        /\ \A j \in 1..k - 1 : b[j] = values[j]
    BY DEF First
  <2> HIDE DEF a, b, x
  <2>4. c \in Seq(S) /\ Len(c) = k /\ (\A j \in 1..k - 1 : c[j] = b[j]) /\ c[k] = x
    <3>1. /\ c \in Seq(S) /\ Len(c) = Len(b) + 1
          /\ \A j \in 1..Len(b) : c[j] = b[j]
          /\ c[Len(b) + 1] = x
      BY <2>2, AppendProperties
    <3>2. (k - 1) + 1 = k
      OBVIOUS
    <3> HIDE DEF c
    <3> QED
      BY <2>2, <3>1, <3>2
  <2> HIDE DEF c
  <2>5. ASSUME NEW j \in 1..k PROVE a[j] = c[j]
    <3>1. CASE j = k
      BY <2>3, <2>4, <3>1 DEF x
    <3>2. CASE j # k
      <4>1. j \in 1..k - 1
        BY <3>2
      <4> QED
        BY <2>3, <2>4, <4>1
    <3> QED
      BY <3>1, <3>2
  <2>6. a = c
    BY <2>2, <2>4, <2>5, SeqEqual
  <2> QED
    BY <2>6 DEF a, b, c, x
<1> QED
  BY <1>2, <1>3

Repeated(x, l) == [j \in 1..l |-> x]

LEMMA FirstGrowsByRun ==
  ASSUME NEW S, NEW values \in Seq(S), NEW k \in Nat, NEW l \in Nat, k + l <= Len(values),
         NEW x \in S, \A j \in k + 1..k + l : values[j] = x
  PROVE  First(values, k + l) = First(values, k) \o Repeated(x, l)
<1> DEFINE a == First(values, k)
           b == [j \in 1..l |-> x]
           c == First(values, k + l)
           d == a \o b
<1>1. Len(values) \in Nat
  BY LenProperties
<1>2. k \in 0..Len(values) /\ k + l \in 0..Len(values)
  BY <1>1
<1>3. a \in Seq(S) /\ Len(a) = k /\ c \in Seq(S) /\ Len(c) = k + l
  BY <1>2, FirstGrows
<1>4. b \in Seq(S) /\ Len(b) = l /\ \A j \in 1..l : b[j] = x
  OBVIOUS
<1>5. (\A j \in 1..k : a[j] = values[j]) /\ (\A j \in 1..k + l : c[j] = values[j])
  BY DEF First
<1> HIDE DEF a, b, c
<1>6. /\ d \in Seq(S) /\ Len(d) = k + l
      /\ \A j \in 1..k + l : d[j] = IF j <= k THEN a[j] ELSE b[j - k]
  <2>1. /\ a \o b \in Seq(S) /\ Len(a \o b) = Len(a) + Len(b)
        /\ \A j \in 1..Len(a) + Len(b) :
             (a \o b)[j] = IF j <= Len(a) THEN a[j] ELSE b[j - Len(a)]
    <3>1. a \in Seq(S) /\ b \in Seq(S)
      BY <1>3, <1>4
    <3> QED
      BY ONLY <3>1, ConcatProperties
  <2> QED
    BY <1>3, <1>4, <2>1
<1> HIDE DEF d
<1>7. ASSUME NEW j \in 1..k + l PROVE c[j] = d[j]
  <2>1. CASE j <= k
    BY <1>5, <1>6, <2>1
  <2>2. CASE ~(j <= k)
    <3>1. j - k \in 1..l /\ j \in k + 1..k + l
      BY <2>2
    <3> QED
      BY <1>4, <1>5, <1>6, <2>2, <3>1
  <2> QED
    BY <2>1, <2>2
<1>8. c = d
  BY <1>3, <1>6, <1>7, SeqEqual
<1> QED
  BY <1>8 DEF a, b, c, d, Repeated

LEMMA FirstOfAll ==
  ASSUME NEW S, NEW values \in Seq(S)
  PROVE  First(values, 0) = <<>> /\ First(values, Len(values)) = values
<1>1. Len(values) \in Nat /\ 0 \in 0..Len(values) /\ Len(values) \in 0..Len(values)
  BY LenProperties
<1>2. First(values, 0) = <<>>
  <2>1. First(values, 0) \in Seq(S) /\ Len(First(values, 0)) = 0
    BY <1>1, FirstGrows
  <2> QED
    BY <2>1, EmptySeq
<1>3. First(values, Len(values)) = values
  <2> DEFINE a == First(values, Len(values))
  <2>1. a \in Seq(S) /\ Len(a) = Len(values)
    BY <1>1, FirstGrows
  <2>2. \A j \in 1..Len(values) : a[j] = values[j]
    BY DEF First
  <2> HIDE DEF a
  <2>3. a = values
    BY <2>1, <2>2, SeqEqual
  <2> QED
    BY <2>3 DEF a
<1> QED
  BY <1>2, <1>3

-----------------------------------------------------------------------------
\* The plain layout comes back.
PlainPieces(values) == [i \in DOMAIN values |-> PutUvarint(Zigzag(values[i]))]

LEMMA PlainPiecesAreBytes ==
  ASSUME NEW values \in Seq(Word)
  PROVE  /\ PlainPieces(values) \in Seq(Seq(Byte)) /\ Len(PlainPieces(values)) = Len(values)
         /\ \A i \in 1..Len(values) : PlainPieces(values)[i] = PutUvarint(Zigzag(values[i]))
<1> DEFINE n == Len(values)
<1>1. n \in Nat /\ DOMAIN values = 1..n /\ \A i \in 1..n : values[i] \in Word
  BY LenProperties, ElementOfSeq
<1> HIDE DEF n
<1>2. ASSUME NEW i \in 1..n PROVE PutUvarint(Zigzag(values[i])) \in Seq(Byte)
  <2>1. Zigzag(values[i]) \in 0..2 * Half - 1
    BY <1>1, ZigzagComesBack
  <2>2. Zigzag(values[i]) \in Nat
    BY <2>1
  <2> QED
    BY <2>2, PutRounds
<1>3. PlainPieces(values) = [i \in 1..n |-> PutUvarint(Zigzag(values[i]))]
  BY <1>1 DEF PlainPieces
<1> QED
  BY <1>1, <1>2, <1>3 DEF n

LEMMA ValueComesBack ==
  ASSUME NEW bs, NEW at \in Nat, NEW value \in Seq(Word), NEW n \in Word,
         Holds(bs, at, PutUvarint(Zigzag(n)))
  PROVE  GetValue(bs, [value |-> value, at |-> at])
           = Parsed(Append(value, n), at + Len(PutUvarint(Zigzag(n))))
<1>1. Zigzag(n) \in 0..2 * Half - 1 /\ Unzigzag(Zigzag(n)) = n
  BY ZigzagComesBack
<1> DEFINE z == Zigzag(n)
           l == at + Len(PutUvarint(z))
<1>2. GetUvarint(bs, at) = Parsed(z, l)
  BY <1>1, UvarintComesBack
<1> HIDE DEF z, l
<1>3. GetUvarint(bs, at) = {[value |-> z, at |-> l]}
  BY <1>2 DEF Parsed
<1>4. GetValue(bs, [value |-> value, at |-> at])
        = UNION {Parsed(Append(value, Unzigzag(u.value)), u.at) : u \in GetUvarint(bs, at)}
  BY DEF GetValue, Then
<1>5. @ = Parsed(Append(value, Unzigzag(z)), l)
  BY <1>3
<1> QED
  BY <1>1, <1>4, <1>5 DEF z, l

LEMMA PlainComesBack ==
  ASSUME NEW bs, NEW at \in Nat, NEW values \in Seq(Word), Holds(bs, at, Plain(values))
  PROVE  DecodePlain(bs, at, Len(values)) = Parsed(values, at + Len(Plain(values)))
<1> DEFINE n == Len(values)
           ss == PlainPieces(values)
           g == PlainDone(bs, at, n)
<1>0. n \in Nat /\ ss \in Seq(Seq(Byte)) /\ Len(ss) = n
  BY LenProperties, PlainPiecesAreBytes
<1>1. Plain(values) = FlattenSeq(ss)
  BY DEF Plain, PlainPieces
<1>2. PICK off : Places(off, bs, at, ss)
  BY <1>0, <1>1, PiecesHaveTheirPlaces
<1>3. /\ \A i \in 0..n : off[i] \in Nat
      /\ off[0] = at /\ off[n] = at + Len(Plain(values))
      /\ \A i \in 1..n : Holds(bs, off[i - 1], ss[i]) /\ off[i] = off[i - 1] + Len(ss[i])
  BY <1>0, <1>1, <1>2 DEF Places
<1>4. \A i \in 1..n : ss[i] = PutUvarint(Zigzag(values[i])) /\ values[i] \in Word
  BY PlainPiecesAreBytes, ElementOfSeq
<1>5. g[0] = Parsed(<<>>, at) /\ \A i \in 1..n : g[i] = PlainRound(bs, g[i - 1])
  BY <1>0, PlainRounds
<1> HIDE DEF g, ss
<1> DEFINE T == {i \in 0..n : g[i] = Parsed(First(values, i), off[i])}
<1>6. 0 \in T
  BY <1>0, <1>3, <1>5, FirstOfAll
<1>7. ASSUME NEW i \in 1..n, i - 1 \in T PROVE i \in T
  <2> DEFINE value == First(values, i - 1)
             p == off[i - 1]
             v == values[i]
  <2>1. i - 1 \in 0..n /\ i \in 0..n /\ i > 0
    BY <1>0
  <2>2. value \in Seq(Word) /\ Append(value, v) = First(values, i) /\ p \in Nat /\ v \in Word
    BY <1>3, <1>4, <2>1, FirstGrows
  <2>3. g[i - 1] = {[value |-> value, at |-> p]}
    BY <1>7 DEF Parsed
  <2>4. Holds(bs, p, PutUvarint(Zigzag(v))) /\ off[i] = p + Len(PutUvarint(Zigzag(v)))
    BY <1>3, <1>4
  <2> HIDE DEF value, p, v
  <2>5. PlainRound(bs, g[i - 1]) = GetValue(bs, [value |-> value, at |-> p])
    BY <2>3 DEF PlainRound
  <2>6. GetValue(bs, [value |-> value, at |-> p])
          = Parsed(Append(value, v), p + Len(PutUvarint(Zigzag(v))))
    BY <2>2, <2>4, ValueComesBack
  <2>7. g[i] = Parsed(First(values, i), off[i])
    BY <1>5, <2>2, <2>4, <2>5, <2>6
  <2> QED
    BY <2>1, <2>7
<1>8. n \in T
  <2>1. n \in 0..n
    BY <1>0
  <2> HIDE DEF T
  <2> QED
    BY <1>0, <1>6, <1>7, <2>1, Ascent
<1>9. g[n] = Parsed(values, at + Len(Plain(values)))
  BY <1>3, <1>8, FirstOfAll
<1> QED
  BY <1>9, PlainIsItsLastRound DEF g

LEMMA PlainIsBytes ==
  ASSUME NEW values \in Seq(Word)
  PROVE  Plain(values) \in Seq(Byte)
<1>1. Plain(values) = FlattenSeq(PlainPieces(values))
  BY DEF Plain, PlainPieces
<1> QED
  BY <1>1, PlainPiecesAreBytes, FlattenedBytes

-----------------------------------------------------------------------------
\* The loop of the run-length encoding: a value goes on with the last run or
\* starts another.
Prolong(values, i, before) ==
  IF i > 1 /\ values[i] = values[i - 1]
  THEN [before EXCEPT ![Len(before)].length = @ + 1]
  ELSE Append(before, [value |-> values[i], length |-> 1])

RunsDoneUpTo(values) ==
  CHOOSE f : f = [i \in 0..Len(values) |-> IF i = 0 THEN <<>> ELSE Prolong(values, i, f[i - 1])]

LEMMA RunsGrow ==
  ASSUME NEW values, Len(values) \in Nat
  PROVE  /\ RunsDoneUpTo(values)[0] = <<>>
         /\ \A i \in 1..Len(values) : RunsDoneUpTo(values)[i] = Prolong(values, i, RunsDoneUpTo(values)[i - 1])
<1> DEFINE n == Len(values)
           base == <<>>
           Body(k, f) == [i \in 0..k |-> IF i = 0 THEN base ELSE Prolong(values, i, f[i - 1])]
           T == {k \in 0..n : \E f : f = Body(k, f)}
           g == RunsDoneUpTo(values)
<1>0. n \in Nat
  OBVIOUS
<1> HIDE DEF n
<1>1. 0 \in T
  <2> DEFINE f == [i \in 0..0 |-> base]
  <2>1. f = Body(0, f)
    OBVIOUS
  <2> HIDE DEF f, Body
  <2> QED
    BY <1>0, <2>1
<1>2. ASSUME NEW k \in 1..n, k - 1 \in T PROVE k \in T
  <2>1. PICK f : f = Body(k - 1, f)
    BY <1>2
  <2> DEFINE x == Prolong(values, k, f[k - 1])
             h == [i \in 0..k |-> IF i = k THEN x ELSE f[i]]
  <2> HIDE DEF base
  <2>2. \A i \in 0..k - 1 : f[i] = IF i = 0 THEN base ELSE Prolong(values, i, f[i - 1])
    BY <2>1
  <2>3. ASSUME NEW i \in 0..k
        PROVE  h[i] = IF i = 0 THEN base ELSE Prolong(values, i, h[i - 1])
    <3>1. CASE i = 0
      BY <2>2, <3>1
    <3>2. CASE i = k
      <4>1. h[k] = x /\ h[k - 1] = f[k - 1] /\ k # 0
        OBVIOUS
      <4> HIDE DEF h
      <4> QED
        BY <3>2, <4>1
    <3>3. CASE i # 0 /\ i # k
      <4>1. i \in 0..k - 1 /\ h[i] = f[i] /\ h[i - 1] = f[i - 1]
        BY <3>3
      <4> HIDE DEF h
      <4> QED
        BY <2>2, <3>3, <4>1
    <3> QED
      BY <3>1, <3>2, <3>3
  <2>4. h = [i \in 0..k |-> h[i]]
    OBVIOUS
  <2> HIDE DEF h
  <2>5. h = Body(k, h)
    BY <2>3, <2>4
  <2> QED
    BY <2>5
<1>3. n \in T
  <2>1. n \in 0..n
    BY <1>0
  <2> HIDE DEF T
  <2> QED
    BY <1>0, <1>1, <1>2, <2>1, Ascent
<1>4. PICK h : h = Body(n, h)
  BY <1>3
<1>5. g = CHOOSE f : f = Body(n, f)
  BY DEF RunsDoneUpTo, n
<1>6. g = Body(n, g)
  <2> HIDE DEF Body, g
  <2> QED
    BY <1>4, <1>5
<1> HIDE DEF g
<1>7. g[0] = base /\ \A i \in 1..n : g[i] = Prolong(values, i, g[i - 1])
  BY <1>0, <1>6
<1> QED
  BY <1>7 DEF g, n

LEMMA RunsAreAllOfThem ==
  ASSUME NEW values
  PROVE  Runs(values) = RunsDoneUpTo(values)[Len(values)]
BY DEF Runs, RunsDoneUpTo, Prolong

Run == [value : Word, length : Nat \ {0}]

\* The first k values are the runs rs, of which the r-th ends at e[r].
AreRuns(e, rs, values, k) ==
  /\ rs \in Seq(Run) /\ Len(rs) \in 0..k
  /\ \A r \in 0..Len(rs) : e[r] \in 0..k
  /\ e[0] = 0 /\ e[Len(rs)] = k
  /\ \A r \in 1..Len(rs) :
       /\ e[r] = e[r - 1] + rs[r].length
       /\ \A j \in e[r - 1] + 1..e[r] : values[j] = rs[r].value

LEMMA RunStarts ==
  ASSUME NEW values \in Seq(Word), NEW k \in 1..Len(values), NEW rs, NEW e,
         AreRuns(e, rs, values, k - 1)
  PROVE  \E d : AreRuns(d, Append(rs, [value |-> values[k], length |-> 1]), values, k)
<1> DEFINE n == Len(rs)
           run == [value |-> values[k], length |-> 1]
           qs == Append(rs, run)
           d == [r \in 0..n + 1 |-> IF r = n + 1 THEN k ELSE e[r]]
<1>0. /\ k \in Nat \ {0} /\ values[k] \in Word
  BY LenProperties, ElementOfSeq
<1>1. /\ rs \in Seq(Run) /\ n \in 0..k - 1
      /\ \A r \in 0..n : e[r] \in 0..k - 1
      /\ e[0] = 0 /\ e[n] = k - 1
      /\ \A r \in 1..n : /\ e[r] = e[r - 1] + rs[r].length
                         /\ \A j \in e[r - 1] + 1..e[r] : values[j] = rs[r].value
  BY DEF AreRuns
<1>2. run \in Run /\ run.value = values[k] /\ run.length = 1
  BY <1>0 DEF Run
<1> HIDE DEF run
<1>3. /\ qs \in Seq(Run) /\ Len(qs) = n + 1
      /\ (\A r \in 1..n : qs[r] = rs[r]) /\ qs[n + 1] = run
  BY <1>1, <1>2, AppendProperties
<1>4. (\A r \in 0..n : d[r] = e[r]) /\ d[n + 1] = k
  BY <1>0, <1>1
<1> HIDE DEF qs, d, n
<1>5. ASSUME NEW r \in 0..n + 1 PROVE d[r] \in 0..k
  <2>1. CASE r = n + 1
    BY <1>0, <1>4, <2>1
  <2>2. CASE r # n + 1
    <3>1. r \in 0..n
      BY <1>1, <2>2
    <3>2. d[r] = e[r] /\ e[r] \in 0..k - 1
      BY <1>1, <1>4, <3>1
    <3> QED
      BY <1>0, <3>2
  <2> QED
    BY <2>1, <2>2
<1>6. ASSUME NEW r \in 1..n + 1
      PROVE  /\ d[r] = d[r - 1] + qs[r].length
             /\ \A j \in d[r - 1] + 1..d[r] : values[j] = qs[r].value
  <2>1. CASE r = n + 1
    <3>1. d[r] = k /\ d[r - 1] = k - 1 /\ qs[r].length = 1 /\ qs[r].value = values[k]
      BY <1>1, <1>2, <1>3, <1>4, <2>1
    <3> QED
      BY <1>0, <3>1
  <2>2. CASE r # n + 1
    <3>1. r \in 1..n /\ d[r] = e[r] /\ d[r - 1] = e[r - 1] /\ qs[r] = rs[r]
      BY <1>1, <1>3, <1>4, <2>2
    <3> QED
      BY <1>1, <3>1
  <2> QED
    BY <2>1, <2>2
<1>7. d[0] = 0 /\ d[n + 1] = k /\ n + 1 \in 0..k
  BY <1>0, <1>1, <1>4
<1>8. AreRuns(d, qs, values, k)
  BY <1>3, <1>5, <1>6, <1>7 DEF AreRuns
<1> QED
  BY <1>8 DEF qs, run

LEMMA RunGoesOn ==
  ASSUME NEW values \in Seq(Word), NEW k \in 2..Len(values), NEW rs, NEW e,
         AreRuns(e, rs, values, k - 1), values[k] = values[k - 1]
  PROVE  \E d : AreRuns(d, [rs EXCEPT ![Len(rs)].length = @ + 1], values, k)
<1> DEFINE n == Len(rs)
           run == [rs[n] EXCEPT !.length = @ + 1]
           qs == [rs EXCEPT ![n] = run]
           d == [r \in 0..n |-> IF r = n THEN k ELSE e[r]]
<1>0. k \in Nat /\ k >= 2
  BY LenProperties
<1>1. /\ rs \in Seq(Run) /\ n \in 0..k - 1
      /\ \A r \in 0..n : e[r] \in 0..k - 1
      /\ e[0] = 0 /\ e[n] = k - 1
      /\ \A r \in 1..n : /\ e[r] = e[r - 1] + rs[r].length
                         /\ \A j \in e[r - 1] + 1..e[r] : values[j] = rs[r].value
  BY DEF AreRuns
<1>2. n \in 1..n /\ n # 0
  BY <1>0, <1>1
<1>3. rs[n] \in Run
  BY <1>1, <1>2, ElementOfSeq
<1>4. run \in Run /\ run.value = rs[n].value /\ run.length = rs[n].length + 1
  BY <1>3 DEF Run
<1>5. [rs EXCEPT ![Len(rs)].length = @ + 1] = qs
  OBVIOUS
<1> HIDE DEF run
<1>6. /\ qs \in Seq(Run) /\ Len(qs) = n /\ qs[n] = run
      /\ \A r \in 1..n - 1 : qs[r] = rs[r]
  BY <1>1, <1>2, <1>4, ExceptSeq
<1>7. (\A r \in 0..n - 1 : d[r] = e[r]) /\ d[n] = k
  BY <1>0, <1>1
<1> HIDE DEF qs, d, n
<1>8. ASSUME NEW r \in 0..n PROVE d[r] \in 0..k
  <2>1. CASE r = n
    BY <1>0, <1>7, <2>1
  <2>2. CASE r # n
    <3>1. r \in 0..n - 1
      BY <1>1, <2>2
    <3>2. d[r] = e[r] /\ e[r] \in 0..k - 1
      BY <1>1, <1>7, <3>1
    <3> QED
      BY <1>0, <3>2
  <2> QED
    BY <2>1, <2>2
<1>9. ASSUME NEW r \in 1..n
      PROVE  /\ d[r] = d[r - 1] + qs[r].length
             /\ \A j \in d[r - 1] + 1..d[r] : values[j] = qs[r].value
  <2>1. CASE r = n
    <3>1. /\ d[r] = k /\ d[r - 1] = e[n - 1] /\ e[n - 1] \in 0..k - 1
          /\ k - 1 = e[n - 1] + rs[n].length
          /\ qs[r].length = rs[n].length + 1 /\ qs[r].value = rs[n].value
      BY <1>1, <1>2, <1>4, <1>6, <1>7, <2>1
    <3>2. rs[n].length \in Nat \ {0}
      BY <1>3 DEF Run
    <3>3. \A j \in e[n - 1] + 1..k - 1 : values[j] = rs[n].value
      BY <1>1, <1>2
    <3>0. k - 1 \in e[n - 1] + 1..k - 1 /\ k = e[n - 1] + (rs[n].length + 1)
      <4> DEFINE before == e[n - 1]
                 len == rs[n].length
      <4>1. before \in 0..k - 1 /\ k - 1 = before + len /\ len \in Nat \ {0} /\ k \in Int
        BY <1>0, <3>1, <3>2
      <4> HIDE DEF before, len
      <4>2. k - 1 \in before + 1..k - 1 /\ k = before + (len + 1)
        BY <4>1
      <4> QED
        BY <4>2 DEF before, len
    <3>4. values[k] = rs[n].value
      BY <1>0, <3>0, <3>3
    <3>5. \A j \in e[n - 1] + 1..k : j = k \/ j \in e[n - 1] + 1..k - 1
      BY <1>0, <3>1
    <3>6. \A j \in e[n - 1] + 1..k : values[j] = rs[n].value
      BY <3>3, <3>4, <3>5
    <3> QED
      BY <3>0, <3>1, <3>6
  <2>2. CASE r # n
    <3>1. r \in 1..n - 1 /\ d[r] = e[r] /\ d[r - 1] = e[r - 1] /\ qs[r] = rs[r]
      BY <1>1, <1>6, <1>7, <2>2
    <3> QED
      BY <1>1, <3>1
  <2> QED
    BY <2>1, <2>2
<1>10. d[0] = 0 /\ d[n] = k /\ n \in 0..k
  <2>1. 0 \in 0..n - 1 /\ n \in 0..k
    BY <1>0, <1>1, <1>2
  <2>2. d[0] = e[0]
    BY <1>7, <2>1
  <2> QED
    BY <1>1, <1>7, <2>1, <2>2
<1>11. AreRuns(d, qs, values, k)
  BY <1>6, <1>8, <1>9, <1>10 DEF AreRuns
<1> QED
  BY <1>5, <1>11

LEMMA RunsOfAll ==
  ASSUME NEW values \in Seq(Word)
  PROVE  \E e : AreRuns(e, Runs(values), values, Len(values))
<1> DEFINE n == Len(values)
           g == RunsDoneUpTo(values)
           T == {i \in 0..n : \E e : AreRuns(e, g[i], values, i)}
<1>0. n \in Nat
  BY LenProperties
<1>1. g[0] = <<>> /\ \A i \in 1..n : g[i] = Prolong(values, i, g[i - 1])
  BY <1>0, RunsGrow
<1> HIDE DEF g
<1>2. 0 \in T
  <2> DEFINE e == [r \in {0} |-> 0]
  <2>1. <<>> \in Seq(Run) /\ Len(<<>>) = 0
    BY EmptySeq
  <2>2. AreRuns(e, <<>>, values, 0)
    BY <2>1 DEF AreRuns
  <2> HIDE DEF e
  <2> QED
    BY <1>0, <1>1, <2>2
<1>3. ASSUME NEW i \in 1..n, i - 1 \in T PROVE i \in T
  <2>1. PICK e : AreRuns(e, g[i - 1], values, i - 1)
    BY <1>3
  <2>2. \E d : AreRuns(d, g[i], values, i)
    <3>1. CASE i > 1 /\ values[i] = values[i - 1]
      <4>1. g[i] = [g[i - 1] EXCEPT ![Len(g[i - 1])].length = @ + 1]
        BY <1>1, <3>1 DEF Prolong
      <4>2. i \in 2..n
        BY <3>1
      <4> DEFINE rs == g[i - 1]
      <4>3. /\ values \in Seq(Word) /\ i \in 2..Len(values)
            /\ AreRuns(e, rs, values, i - 1) /\ values[i] = values[i - 1]
        BY <2>1, <3>1, <4>2
      <4> HIDE DEF rs
      <4>4. \E d : AreRuns(d, [rs EXCEPT ![Len(rs)].length = @ + 1], values, i)
        BY ONLY <4>3, RunGoesOn
      <4> QED
        BY <4>1, <4>4 DEF rs
    <3>2. CASE ~(i > 1 /\ values[i] = values[i - 1])
      <4>1. g[i] = Append(g[i - 1], [value |-> values[i], length |-> 1])
        BY <1>1, <3>2 DEF Prolong
      <4> QED
        BY <2>1, <4>1, RunStarts
    <3> QED
      BY <3>1, <3>2
  <2> QED
    BY <2>2
<1>4. n \in T
  <2>1. n \in 0..n
    BY <1>0
  <2> HIDE DEF T, n
  <2> QED
    BY <1>0, <1>2, <1>3, <2>1, Ascent
<1> QED
  BY <1>4, RunsAreAllOfThem DEF g

\* The run-length encoding comes back.
RunPieces(rs) == [r \in DOMAIN rs |-> PutRun(rs[r])]

LEMMA RunParts ==
  ASSUME NEW run \in Run
  PROVE  /\ PutUvarint(Zigzag(run.value)) \in Seq(Byte) /\ PutUvarint(run.length) \in Seq(Byte)
         /\ PutRun(run) \in Seq(Byte)
<1>1. run.value \in Word /\ run.length \in Nat
  BY DEF Run
<1>2. Zigzag(run.value) \in Nat
  <2>1. Zigzag(run.value) \in 0..2 * Half - 1
    BY <1>1, ZigzagComesBack
  <2> QED
    BY <2>1
<1>3. PutUvarint(Zigzag(run.value)) \in Seq(Byte) /\ PutUvarint(run.length) \in Seq(Byte)
  BY <1>1, <1>2, PutRounds
<1> QED
  BY <1>3, ConcatProperties DEF PutRun

LEMMA RunPiecesAreBytes ==
  ASSUME NEW rs \in Seq(Run)
  PROVE  /\ RunPieces(rs) \in Seq(Seq(Byte)) /\ Len(RunPieces(rs)) = Len(rs)
         /\ \A r \in 1..Len(rs) : RunPieces(rs)[r] = PutRun(rs[r])
<1> DEFINE n == Len(rs)
<1>1. n \in Nat /\ DOMAIN rs = 1..n /\ \A r \in 1..n : rs[r] \in Run
  BY LenProperties, ElementOfSeq
<1> HIDE DEF n
<1>2. \A r \in 1..n : PutRun(rs[r]) \in Seq(Byte)
  BY <1>1, RunParts
<1>3. RunPieces(rs) = [r \in 1..n |-> PutRun(rs[r])]
  BY <1>1 DEF RunPieces
<1> QED
  BY <1>1, <1>2, <1>3 DEF n

\* A run that is written at a place, and for which there is room.
RunAt(bs, at, value, run, expected) ==
  /\ at \in Nat /\ value \in Seq(Word) /\ run \in Run /\ expected \in Nat
  /\ run.length <= 2 * Half - 1
  /\ Len(value) + run.length <= expected
  /\ Holds(bs, at, PutRun(run))

LEMMA RunComesBack ==
  ASSUME NEW bs, NEW at, NEW value, NEW run, NEW expected,
         RunAt(bs, at, value, run, expected)
  PROVE  GetRun(bs, expected, [value |-> value, at |-> at])
           = Parsed(value \o [j \in 1..run.length |-> run.value], at + Len(PutRun(run)))
<1> DEFINE z == Zigzag(run.value)
           x == PutUvarint(z)
           y == PutUvarint(run.length)
           p == at + Len(x)
           q == p + Len(y)
<1>0. /\ at \in Nat /\ value \in Seq(Word) /\ run \in Run /\ expected \in Nat
      /\ run.length <= 2 * Half - 1 /\ Len(value) + run.length <= expected
      /\ Holds(bs, at, PutRun(run)) /\ Half \in Nat \ {0}
  BY Widths DEF RunAt
<1>1. run.value \in Word /\ run.length \in 0..2 * Half - 1
  BY <1>0 DEF Run
<1>2. z \in 0..2 * Half - 1 /\ Unzigzag(z) = run.value
  BY <1>1, ZigzagComesBack
<1>3. x \in Seq(Byte) /\ y \in Seq(Byte) /\ PutRun(run) = x \o y
  BY <1>0, RunParts DEF PutRun
<1>4. Len(x) \in Nat /\ Len(y) \in Nat
  BY <1>3, LenProperties
<1>5. /\ Holds(bs, at, x) /\ Holds(bs, at + Len(x), y)
      /\ at + Len(PutRun(run)) = (at + Len(x)) + Len(y)
  <2> HIDE DEF x, y
  <2>1. at \in Nat /\ x \in Seq(Byte) /\ y \in Seq(Byte) /\ Holds(bs, at, x \o y)
    BY <1>0, <1>3
  <2>2. /\ Holds(bs, at, x) /\ Holds(bs, at + Len(x), y)
        /\ at + Len(x \o y) = (at + Len(x)) + Len(y)
    BY ONLY <2>1, HoldsBoth
  <2> QED
    BY <1>3, <2>2
<1>6. GetUvarint(bs, at) = {[value |-> z, at |-> p]}
  <2>1. GetUvarint(bs, at) = Parsed(z, at + Len(PutUvarint(z)))
    <3> HIDE DEF z
    <3> QED
      BY <1>0, <1>2, <1>5, UvarintComesBack DEF x
  <2> QED
    BY <2>1 DEF Parsed
<1>7. GetUvarint(bs, p) = {[value |-> run.length, at |-> q]}
  <2>1. p \in Nat /\ Holds(bs, p, PutUvarint(run.length))
    BY <1>0, <1>4, <1>5
  <2> HIDE DEF p
  <2>2. GetUvarint(bs, p) = Parsed(run.length, p + Len(PutUvarint(run.length)))
    BY <1>1, <2>1, UvarintComesBack
  <2> QED
    BY <2>2 DEF Parsed
<1> DEFINE Count(u, count) ==
             IF Len(value) + count.value > expected THEN {}
             ELSE Parsed(value \o [j \in 1..count.value |-> Unzigzag(u.value)], count.at)
<1>8. GetRun(bs, expected, [value |-> value, at |-> at])
        = UNION {UNION {Count(u, count) : count \in GetUvarint(bs, u.at)} : u \in GetUvarint(bs, at)}
  BY DEF GetRun, Then, Failed
<1> HIDE DEF z, p, q, Count
<1> DEFINE a == [value |-> z, at |-> p]
           c == [value |-> run.length, at |-> q]
           Counts(u) == UNION {Count(u, count) : count \in GetUvarint(bs, u.at)}
<1>9. GetRun(bs, expected, [value |-> value, at |-> at]) = Count(a, c)
  <2>1. GetUvarint(bs, at) = {a} /\ GetUvarint(bs, a.at) = {c}
    BY <1>6, <1>7
  <2> HIDE DEF a, c
  <2>2. Counts(a) = Count(a, c)
    BY <2>1
  <2>3. UNION {Counts(u) : u \in GetUvarint(bs, at)} = Counts(a)
    <3> HIDE DEF Counts
    <3> QED
      BY <2>1
  <2> QED
    BY <1>8, <2>2, <2>3
<1>10. Count(a, c) = Parsed(value \o [j \in 1..run.length |-> run.value], q)
  <2>1. ~(Len(value) + run.length > expected)
    <3>1. Len(value) \in Nat
      BY <1>0, LenProperties
    <3> QED
      BY <1>0, <1>1, <3>1
  <2> QED
    BY <1>2, <2>1 DEF Count
<1>11. q = at + Len(PutRun(run))
  BY <1>5 DEF q, p
<1> QED
  BY <1>9, <1>10, <1>11

LEMMA RunsAreBytes ==
  ASSUME NEW values \in Seq(Word)
  PROVE  /\ PutUvarint(Len(Runs(values))) \in Seq(Byte)
         /\ FlattenSeq(RunPieces(Runs(values))) \in Seq(Byte)
         /\ PutRuns(Runs(values)) \in Seq(Byte)
<1> DEFINE rs == Runs(values)
<1>1. rs \in Seq(Run) /\ Len(rs) \in Nat
  <2>1. rs \in Seq(Run)
    BY RunsOfAll DEF AreRuns
  <2> HIDE DEF rs
  <2> QED
    BY <2>1, LenProperties
<1> HIDE DEF rs
<1>2. PutUvarint(Len(rs)) \in Seq(Byte) /\ FlattenSeq(RunPieces(rs)) \in Seq(Byte)
  BY <1>1, PutRounds, RunPiecesAreBytes, FlattenedBytes
<1>3. PutRuns(rs) = PutUvarint(Len(rs)) \o FlattenSeq(RunPieces(rs))
  BY DEF PutRuns, RunPieces
<1> QED
  BY <1>2, <1>3, ConcatProperties DEF rs

LEMMA RunsComeBack ==
  ASSUME NEW bs, NEW at \in Nat, NEW values \in Seq(Word), Len(values) <= 2 * Half - 1,
         Holds(bs, at, PutRuns(Runs(values)))
  PROVE  DecodeRuns(bs, at, Len(values)) = Parsed(values, at + Len(PutRuns(Runs(values))))
<1> DEFINE n == Len(values)
           rs == Runs(values)
           m == Len(rs)
           x == PutUvarint(m)
           ss == RunPieces(rs)
           y == FlattenSeq(ss)
           p == at + Len(x)
           g == RunsDone(bs, n, p, m)
<1>0. n \in Nat /\ n <= 2 * Half - 1 /\ Half \in Nat \ {0}
  BY LenProperties, Widths
<1>1. PICK e : AreRuns(e, rs, values, n)
  BY RunsOfAll
<1> HIDE DEF rs, n
<1>2. /\ rs \in Seq(Run) /\ m \in 0..n
      /\ \A r \in 0..m : e[r] \in 0..n
      /\ e[0] = 0 /\ e[m] = n
      /\ \A r \in 1..m : /\ e[r] = e[r - 1] + rs[r].length
                         /\ \A j \in e[r - 1] + 1..e[r] : values[j] = rs[r].value
  BY <1>1 DEF AreRuns
<1>3. m \in 0..2 * Half - 1 /\ m \in Nat
  BY <1>0, <1>2
<1>4. /\ x \in Seq(Byte) /\ y \in Seq(Byte) /\ PutRuns(rs) = x \o y /\ Len(x) \in Nat
      /\ Holds(bs, at, x \o y)
  <2>1. x \in Seq(Byte) /\ y \in Seq(Byte)
    BY RunsAreBytes DEF rs
  <2>2. PutRuns(rs) = x \o y
    BY DEF PutRuns, RunPieces
  <2>3. Holds(bs, at, PutRuns(rs))
    BY DEF rs
  <2> QED
    BY <2>1, <2>2, <2>3, LenProperties
<1>5. Holds(bs, at, x) /\ Holds(bs, p, y) /\ at + Len(x \o y) = p + Len(y)
  <2> HIDE DEF x, y
  <2>1. at \in Nat /\ x \in Seq(Byte) /\ y \in Seq(Byte) /\ Holds(bs, at, x \o y)
    BY <1>4
  <2> QED
    BY ONLY <2>1, HoldsBoth DEF p
<1>6. GetUvarint(bs, at) = {[value |-> m, at |-> p]}
  <2>1. GetUvarint(bs, at) = Parsed(m, at + Len(PutUvarint(m)))
    <3> HIDE DEF m
    <3> QED
      BY <1>3, <1>5, UvarintComesBack DEF x
  <2> QED
    BY <2>1 DEF Parsed
<1>7. ss \in Seq(Seq(Byte)) /\ Len(ss) = m /\ \A r \in 1..m : ss[r] = PutRun(rs[r]) /\ rs[r] \in Run
  BY <1>2, RunPiecesAreBytes, ElementOfSeq
<1>8. p \in Nat
  BY <1>4
<1>9. PICK off : Places(off, bs, p, ss)
  <2> HIDE DEF p, ss
  <2> QED
    BY <1>5, <1>7, <1>8, PiecesHaveTheirPlaces DEF y
<1>10. /\ \A r \in 0..m : off[r] \in Nat
       /\ off[0] = p /\ off[m] = p + Len(y)
       /\ \A r \in 1..m : Holds(bs, off[r - 1], ss[r]) /\ off[r] = off[r - 1] + Len(ss[r])
  <2> HIDE DEF p, ss, m
  <2> QED
    BY <1>7, <1>9 DEF Places, y
<1>11. g[0] = Parsed(<<>>, p) /\ \A r \in 1..m : g[r] = RunRound(bs, n, g[r - 1])
  BY <1>3, RunRounds
<1> HIDE DEF g, ss, y, x, p, m
<1> DEFINE T == {r \in 0..m : g[r] = Parsed(First(values, e[r]), off[r])}
<1>12. 0 \in T
  BY <1>3, <1>2, <1>10, <1>11, FirstOfAll
<1>13. ASSUME NEW r \in 1..m, r - 1 \in T PROVE r \in T
  <2> DEFINE k == e[r - 1]
             value == First(values, k)
             o == off[r - 1]
             run == rs[r]
  <2>1. r - 1 \in 0..m /\ r \in 0..m
    BY <1>3
  <2>2. /\ k \in 0..n /\ e[r] \in 0..n /\ e[r] = k + run.length /\ run \in Run /\ o \in Nat
        /\ \A j \in k + 1..e[r] : values[j] = run.value
    BY <1>2, <1>7, <1>10, <2>1
  <2>3. g[r - 1] = {[value |-> value, at |-> o]}
    BY <1>13 DEF Parsed
  <2>4. Holds(bs, o, PutRun(run)) /\ off[r] = o + Len(PutRun(run))
    BY <1>7, <1>10
  <2>5. value \in Seq(Word) /\ Len(value) = k
    BY <2>2, FirstGrows DEF n
  <2> HIDE DEF k, value, o, run
  <2>6. run.value \in Word /\ run.length \in Nat
    BY <2>2 DEF Run
  <2>7. First(values, k + run.length) = value \o [j \in 1..run.length |-> run.value]
    <3> DEFINE v == run.value
               l == run.length
    <3>1. /\ k \in Nat /\ l \in Nat /\ k + l <= Len(values) /\ v \in Word /\ values \in Seq(Word)
          /\ \A j \in k + 1..k + l : values[j] = v
      BY <1>0, <2>2, <2>6 DEF n
    <3> HIDE DEF v, l
    <3>2. First(values, k + l) = First(values, k) \o Repeated(v, l)
      BY ONLY <3>1, FirstGrowsByRun
    <3> QED
      BY <3>2 DEF v, l, value, Repeated
  <2>8. RunAt(bs, o, value, run, n)
    BY <1>0, <2>2, <2>4, <2>5, <2>6 DEF RunAt
  <2>9. GetRun(bs, n, [value |-> value, at |-> o])
          = Parsed(value \o [j \in 1..run.length |-> run.value], o + Len(PutRun(run)))
    BY <2>8, RunComesBack
  <2>10. RunRound(bs, n, g[r - 1]) = GetRun(bs, n, [value |-> value, at |-> o])
    BY <2>3 DEF RunRound
  <2>11. g[r] = Parsed(First(values, e[r]), off[r])
    BY <1>11, <2>2, <2>4, <2>7, <2>9, <2>10
  <2> QED
    BY <2>1, <2>11
<1>14. m \in T
  <2>1. m \in 0..m
    BY <1>3
  <2> HIDE DEF T
  <2> QED
    BY <1>3, <1>12, <1>13, <2>1, Ascent
<1>15. g[m] = {[value |-> values, at |-> p + Len(y)]}
  BY <1>2, <1>10, <1>14, FirstOfAll DEF n, Parsed
<1>16. DecodeRuns(bs, at, n) = {d \in g[m] : RunsFit(d, n)}
  <2>1. DecodeRuns(bs, at, n) =
          UNION {{d \in RunsDone(bs, n, runs.at, runs.value)[runs.value] : RunsFit(d, n)}
                   : runs \in GetUvarint(bs, at)}
    BY RunsAreTheirLastRound
  <2> QED
    BY <1>6, <2>1 DEF g
<1>17. DecodeRuns(bs, at, n) = Parsed(values, p + Len(y))
  BY <1>15, <1>16 DEF RunsFit, n, Parsed
<1>18. p + Len(y) = at + Len(PutRuns(rs))
  BY <1>4, <1>5
<1> QED
  BY <1>17, <1>18 DEF n, rs

-----------------------------------------------------------------------------
\* Whichever layout was shorter, the stream comes back.
LEMMA ByteComesBack ==
  ASSUME NEW bs, NEW at \in Nat, NEW b \in Byte, Holds(bs, at, <<b>>)
  PROVE  TakeU8(bs, at) = Parsed(b, at + 1)
<1> DEFINE one == <<b>>
<1>1. Len(one) = 1 /\ one[1] = b
  OBVIOUS
<1> HIDE DEF one
<1>2. at + 1 <= Len(bs) /\ bs[at + 1] = b /\ Len(bs) \in Nat
  BY <1>1 DEF Holds, one
<1> QED
  BY <1>2 DEF TakeU8

LEMMA Marked ==
  ASSUME NEW b \in Byte, NEW s \in Seq(Byte)
  PROVE  <<b>> \o s \in Seq(Byte)
BY ConcatProperties

LEMMA HoldsMarked ==
  ASSUME NEW bs, NEW at \in Nat, NEW b \in Byte, NEW s \in Seq(Byte), Holds(bs, at, <<b>> \o s)
  PROVE  /\ TakeU8(bs, at) = Parsed(b, at + 1) /\ Holds(bs, at + 1, s)
         /\ at + Len(<<b>> \o s) = (at + 1) + Len(s)
<1> DEFINE one == <<b>>
<1>1. one \in Seq(Byte) /\ Len(one) = 1
  OBVIOUS
<1> HIDE DEF one
<1>2. at \in Nat /\ one \in Seq(Byte) /\ s \in Seq(Byte) /\ Holds(bs, at, one \o s)
  BY <1>1 DEF one
<1>3. /\ Holds(bs, at, one) /\ Holds(bs, at + Len(one), s)
      /\ at + Len(one \o s) = (at + Len(one)) + Len(s)
  BY ONLY <1>2, HoldsBoth
<1>4. TakeU8(bs, at) = Parsed(b, at + 1)
  BY <1>3, ByteComesBack DEF one
<1> QED
  BY <1>1, <1>3, <1>4 DEF one

LEMMA StreamIsBytes ==
  ASSUME NEW values \in Seq(Word)
  PROVE  EncodeStream(values) \in Seq(Byte)
<1>1. PutRuns(Runs(values)) \in Seq(Byte) /\ Plain(values) \in Seq(Byte) /\ 0 \in Byte /\ 1 \in Byte
  BY RunsAreBytes, PlainIsBytes, Widths DEF Byte
<1>2. <<1>> \o PutRuns(Runs(values)) \in Seq(Byte) /\ <<0>> \o Plain(values) \in Seq(Byte)
  BY <1>1, Marked
<1> QED
  BY <1>2 DEF EncodeStream, Shorter

LEMMA StreamComesBack ==
  ASSUME NEW bs, NEW at \in Nat, NEW values \in Seq(Word), Len(values) <= 2 * Half - 1,
         Holds(bs, at, EncodeStream(values))
  PROVE  DecodeStream(bs, at, Len(values)) = Parsed(values, at + Len(EncodeStream(values)))
<1> DEFINE n == Len(values)
           rle == PutRuns(Runs(values))
           plain == Plain(values)
           Mode(mode) == CASE mode.value = 0 -> DecodePlain(bs, mode.at, n)
                           [] mode.value = 1 -> DecodeRuns(bs, mode.at, n)
                           [] OTHER          -> Failed
<1>1. rle \in Seq(Byte) /\ plain \in Seq(Byte) /\ 0 \in Byte /\ 1 \in Byte
  BY RunsAreBytes, PlainIsBytes, Widths DEF Byte
<1>2. DecodeStream(bs, at, n) = UNION {Mode(mode) : mode \in TakeU8(bs, at)}
  BY DEF DecodeStream, Then
<1>3. \/ EncodeStream(values) = <<1>> \o rle
      \/ EncodeStream(values) = <<0>> \o plain
  BY DEF EncodeStream, Shorter
<1>4. CASE EncodeStream(values) = <<1>> \o rle
  <2>1. /\ TakeU8(bs, at) = Parsed(1, at + 1) /\ Holds(bs, at + 1, rle)
        /\ at + Len(<<1>> \o rle) = (at + 1) + Len(rle)
    <3> HIDE DEF rle
    <3> QED
      BY <1>1, <1>4, HoldsMarked
  <2>2. DecodeStream(bs, at, n) = Mode([value |-> 1, at |-> at + 1])
    <3> HIDE DEF Mode
    <3> QED
      BY <1>2, <2>1 DEF Parsed
  <2>3. Mode([value |-> 1, at |-> at + 1]) = DecodeRuns(bs, at + 1, n)
    OBVIOUS
  <2>4. DecodeRuns(bs, at + 1, n) = Parsed(values, (at + 1) + Len(rle))
    <3> DEFINE p == at + 1
    <3>1. p \in Nat /\ Holds(bs, p, rle)
      BY <2>1
    <3> HIDE DEF p
    <3>2. DecodeRuns(bs, p, n) = Parsed(values, p + Len(rle))
      BY <3>1, RunsComeBack
    <3> QED
      BY <3>2 DEF p
  <2> QED
    BY <1>4, <2>1, <2>2, <2>3, <2>4
<1>5. CASE EncodeStream(values) = <<0>> \o plain
  <2>1. /\ TakeU8(bs, at) = Parsed(0, at + 1) /\ Holds(bs, at + 1, plain)
        /\ at + Len(<<0>> \o plain) = (at + 1) + Len(plain)
    <3> HIDE DEF plain
    <3> QED
      BY <1>1, <1>5, HoldsMarked
  <2>2. DecodeStream(bs, at, n) = Mode([value |-> 0, at |-> at + 1])
    <3> HIDE DEF Mode
    <3> QED
      BY <1>2, <2>1 DEF Parsed
  <2>3. Mode([value |-> 0, at |-> at + 1]) = DecodePlain(bs, at + 1, n)
    OBVIOUS
  <2>4. DecodePlain(bs, at + 1, n) = Parsed(values, (at + 1) + Len(plain))
    <3> DEFINE p == at + 1
    <3>1. p \in Nat /\ Holds(bs, p, plain)
      BY <2>1
    <3> HIDE DEF p
    <3>2. DecodePlain(bs, p, n) = Parsed(values, p + Len(plain))
      BY <3>1, PlainComesBack
    <3> QED
      BY <3>2 DEF p
  <2> QED
    BY <1>5, <2>1, <2>2, <2>3, <2>4
<1> QED
  BY <1>3, <1>4, <1>5

-----------------------------------------------------------------------------
\* Differences, and what they add up to.
Sums(start, steps) ==
  CHOOSE f : f = [i \in 0..Len(steps) |-> IF i = 0 THEN start ELSE f[i - 1] + steps[i]]

\* r starts there and takes these steps.
StartsAndSteps(r, start, steps) ==
  /\ r \in Seq(Int) /\ Len(r) = Len(steps) + 1
  /\ r[1] = start
  /\ \A i \in 1..Len(steps) : r[i + 1] = r[i] + steps[i]

LEMMA RunningAdds ==
  ASSUME NEW start \in Int, NEW steps \in Seq(Int)
  PROVE  StartsAndSteps(Running(start, steps), start, steps)
<1> DEFINE n == Len(steps)
           Body(f) == [i \in 0..n |-> IF i = 0 THEN start ELSE f[i - 1] + steps[i]]
           step == [p \in (1..n) \X Int |-> p[2] + steps[p[1]]]
           g == Sums(start, steps)
           r == [i \in 1..n + 1 |-> g[i - 1]]
<1>0. n \in Nat /\ \A i \in 1..n : steps[i] \in Int
  BY LenProperties, ElementOfSeq
<1>1. Running(start, steps) = r
  BY DEF Running, Sums
<1>2. g = CHOOSE f : f = Body(f)
  BY DEF Sums
<1> HIDE DEF g, n
<1>3. PICK f : IsLoop(f, Int, start, n, step)
  <2>1. step \in [(1..n) \X Int -> Int]
    BY <1>0
  <2> HIDE DEF step
  <2> QED
    BY <1>0, <2>1, LoopExists
<1>4. f \in [0..n -> Int] /\ f[0] = start /\ \A i \in 1..n : f[i] = step[<<i, f[i - 1]>>]
  <2> HIDE DEF step
  <2> QED
    BY <1>3 DEF IsLoop
<1>5. ASSUME NEW i \in 1..n PROVE f[i] = f[i - 1] + steps[i]
  <2> DEFINE x == f[i - 1]
  <2>1. f[i] = step[<<i, x>>] /\ x \in Int
    <3>1. i - 1 \in 0..n
      BY <1>0
    <3> HIDE DEF step
    <3> QED
      BY <1>4, <3>1
  <2> HIDE DEF x
  <2>2. step[<<i, x>>] = x + steps[i]
    BY <2>1
  <2> QED
    BY <2>1, <2>2 DEF x
<1>6. f = Body(f)
  BY <1>4, <1>5
<1>7. g = Body(g)
  <2> HIDE DEF Body
  <2> QED
    BY <1>2, <1>6
<1>8. g[0] = start /\ \A i \in 1..n : g[i] = g[i - 1] + steps[i]
  BY <1>0, <1>7
<1> DEFINE T == {i \in 0..n : g[i] \in Int}
<1>9. 0 \in T
  BY <1>0, <1>8
<1>10. ASSUME NEW i \in 1..n, i - 1 \in T PROVE i \in T
  <2>1. g[i - 1] \in Int /\ steps[i] \in Int /\ g[i] = g[i - 1] + steps[i]
    BY <1>0, <1>8, <1>10
  <2> QED
    BY <2>1
<1>11. 0..n \subseteq T
  <2> HIDE DEF T
  <2> QED
    BY <1>0, <1>9, <1>10, Ascent
<1>12. \A i \in 1..n + 1 : g[i - 1] \in Int
  <2>1. \A i \in 1..n + 1 : i - 1 \in 0..n
    BY <1>0
  <2> QED
    BY <1>11, <2>1
<1>13. r \in Seq(Int) /\ Len(r) = n + 1
  BY <1>0, <1>12
<1>14. r[1] = start
  BY <1>0, <1>8
<1>15. ASSUME NEW i \in 1..n PROVE r[i + 1] = r[i] + steps[i]
  <2>1. r[i + 1] = g[i] /\ r[i] = g[i - 1]
    BY <1>0
  <2> QED
    BY <1>8, <2>1
<1> HIDE DEF r
<1> QED
  BY <1>1, <1>13, <1>14, <1>15 DEF StartsAndSteps, n

LEMMA DifferencesOf ==
  ASSUME NEW ns \in Seq(Int), Len(ns) # 0
  PROVE  /\ Differences(ns) \in Seq(Int) /\ Len(Differences(ns)) = Len(ns) - 1
         /\ \A i \in 1..Len(ns) - 1 : Differences(ns)[i] = ns[i + 1] - ns[i]
<1>1. Len(ns) \in Nat \ {0} /\ \A i \in 1..Len(ns) : ns[i] \in Int
  BY LenProperties, ElementOfSeq
<1>2. ASSUME NEW i \in 1..Len(ns) - 1 PROVE ns[i + 1] - ns[i] \in Int
  <2>1. i \in 1..Len(ns) /\ i + 1 \in 1..Len(ns)
    BY <1>1
  <2>2. ns[i] \in Int /\ ns[i + 1] \in Int
    BY <1>1, <2>1
  <2> QED
    BY <2>2
<1>3. Len(ns) - 1 \in Nat
  BY <1>1
<1> QED
  BY <1>2, <1>3 DEF Differences

LEMMA DifferencesAddUp ==
  ASSUME NEW ns \in Seq(Int), Len(ns) # 0
  PROVE  Running(ns[1], Differences(ns)) = ns
<1> DEFINE n == Len(ns)
           ds == Differences(ns)
           r == Running(ns[1], ds)
           T == {i \in 0..n - 1 : r[i + 1] = ns[i + 1]}
<1>1. n \in Nat \ {0} /\ \A i \in 1..n : ns[i] \in Int
  BY LenProperties, ElementOfSeq
<1>2. ds \in Seq(Int) /\ Len(ds) = n - 1 /\ \A i \in 1..n - 1 : ds[i] = ns[i + 1] - ns[i]
  BY DifferencesOf
<1> HIDE DEF ds
<1>3. StartsAndSteps(r, ns[1], ds)
  BY <1>1, <1>2, RunningAdds
<1>4. r \in Seq(Int) /\ Len(r) = n /\ r[1] = ns[1] /\ \A i \in 1..n - 1 : r[i + 1] = r[i] + ds[i]
  <2> HIDE DEF r, n
  <2> QED
    BY <1>1, <1>2, <1>3 DEF StartsAndSteps
<1> HIDE DEF r, n
<1>5. 0 \in T
  BY <1>1, <1>4
<1>6. ASSUME NEW i \in 1..n - 1, i - 1 \in T PROVE i \in T
  <2>1. (i - 1) + 1 = i /\ i \in 1..n /\ i + 1 \in 1..n
    BY <1>1
  <2>2. r[i] = ns[i]
    BY <1>6, <2>1
  <2>3. r[i + 1] = ns[i] + (ns[i + 1] - ns[i])
    BY <1>2, <1>4, <2>2
  <2>4. ns[i] \in Int /\ ns[i + 1] \in Int
    BY <1>1, <2>1
  <2>5. r[i + 1] = ns[i + 1]
    BY <2>3, <2>4
  <2> QED
    BY <1>1, <2>1, <2>5
<1>7. 0..n - 1 \subseteq T
  <2>1. n - 1 \in Nat
    BY <1>1
  <2> HIDE DEF T
  <2> QED
    BY <1>5, <1>6, <2>1, Ascent
<1>8. ASSUME NEW i \in 1..n PROVE r[i] = ns[i]
  <2>1. i - 1 \in 0..n - 1 /\ (i - 1) + 1 = i
    BY <1>1
  <2> QED
    BY <1>7, <2>1
<1>9. r = ns
  BY <1>4, <1>8, SeqEqual DEF n
<1> QED
  BY <1>9 DEF r, ds

\* Second differences, and what they add up to.
LEMMA SecondDifferences ==
  ASSUME NEW ints \in Seq(Word), Len(ints) # 0, NEW dods \in DeltasOfDeltas(ints)
  PROVE  /\ dods \in Seq(Word) /\ Len(dods) = Len(ints) - 1
         /\ Checked(Running(0, dods)) = {<<0>> \o Differences(ints)}
         /\ Tail(<<0>> \o Differences(ints)) = Differences(ints)
         /\ Checked(Running(ints[1], Differences(ints))) = {ints}
<1> DEFINE n == Len(ints)
           deltas == Differences(ints)
           zero == <<0>>
           more == zero \o deltas
<1>0. Half \in Nat \ {0} /\ Word \subseteq Int /\ 0 \in Word
  BY Widths DEF Word
<1>1. ints \in Seq(Int) /\ n \in Nat \ {0} /\ \A i \in 1..n : ints[i] \in Word
  <2>1. ints \in Seq(Int)
    BY <1>0, SeqMonotonic
  <2> QED
    BY <2>1, LenProperties, ElementOfSeq
<1>2. deltas \in Seq(Int) /\ Len(deltas) = n - 1
  BY <1>1, DifferencesOf
<1>3. /\ \A i \in DOMAIN deltas : deltas[i] \in Word
      /\ \A i \in DOMAIN Differences(more) : Differences(more)[i] \in Word
      /\ dods = Differences(more)
  BY DEF DeltasOfDeltas, Then, Checked, Failed
<1> HIDE DEF deltas
<1>4. zero \in Seq(Word) /\ Len(zero) = 1 /\ zero[1] = 0
  BY <1>0
<1>5. deltas \in Seq(Word)
  <2>1. DOMAIN deltas = 1..n - 1 /\ deltas = [i \in 1..n - 1 |-> deltas[i]]
    BY <1>2, LenProperties
  <2>2. \A i \in 1..n - 1 : deltas[i] \in Word
    BY <1>3, <2>1
  <2>3. n - 1 \in Nat
    BY <1>1
  <2> QED
    BY <2>1, <2>2, <2>3
<1> HIDE DEF zero
<1>6. /\ more \in Seq(Word) /\ Len(more) = n /\ more[1] = 0
      /\ \A i \in 1..n - 1 : more[i + 1] = deltas[i]
  <2>1. /\ more \in Seq(Word) /\ Len(more) = 1 + (n - 1)
        /\ \A i \in 1..1 + (n - 1) : more[i] = IF i <= 1 THEN zero[i] ELSE deltas[i - 1]
    <3>1. /\ more \in Seq(Word) /\ Len(more) = Len(zero) + Len(deltas)
          /\ \A i \in 1..Len(zero) + Len(deltas) :
               more[i] = IF i <= Len(zero) THEN zero[i] ELSE deltas[i - Len(zero)]
      BY ONLY <1>4, <1>5, ConcatProperties
    <3> HIDE DEF more
    <3> QED
      BY <1>2, <1>4, <3>1
  <2> HIDE DEF more
  <2>2. ASSUME NEW i \in 1..n - 1 PROVE more[i + 1] = deltas[i]
    <3>1. i + 1 \in 1..1 + (n - 1) /\ ~(i + 1 <= 1) /\ (i + 1) - 1 = i
      BY <1>1
    <3> QED
      BY <2>1, <3>1
  <2> QED
    BY <1>1, <1>4, <2>1, <2>2
<1> HIDE DEF more
<1>7. more \in Seq(Int) /\ Len(more) # 0 /\ more # <<>>
  BY <1>0, <1>1, <1>6, SeqMonotonic
<1>8. dods \in Seq(Int) /\ Len(dods) = n - 1
  BY <1>3, <1>6, <1>7, DifferencesOf
<1>9. dods \in Seq(Word)
  <2>1. DOMAIN dods = 1..n - 1 /\ dods = [i \in 1..n - 1 |-> dods[i]]
    BY <1>8, LenProperties
  <2>2. \A i \in 1..n - 1 : dods[i] \in Word
    BY <1>3, <2>1
  <2>3. n - 1 \in Nat
    BY <1>1
  <2> QED
    BY <2>1, <2>2, <2>3
<1>10. Running(0, dods) = more
  BY <1>3, <1>6, <1>7, DifferencesAddUp
<1>11. Checked(more) = {more} /\ Checked(ints) = {ints}
  <2>1. DOMAIN more = 1..n /\ \A i \in 1..n : more[i] \in Word
    BY <1>6, LenProperties, ElementOfSeq
  <2>2. DOMAIN ints = 1..n
    BY LenProperties
  <2> QED
    BY <1>1, <2>1, <2>2 DEF Checked
<1>12. Tail(more) = deltas
  <2> DEFINE t == Tail(more)
  <2>1. t \in Seq(Word) /\ Len(t) = n - 1 /\ \A i \in 1..Len(t) : t[i] = more[i + 1]
    BY <1>6, <1>7, HeadTailProperties
  <2> HIDE DEF t
  <2>2. Len(t) = Len(deltas) /\ \A i \in 1..Len(t) : t[i] = deltas[i]
    BY <1>2, <1>6, <2>1
  <2>3. t = deltas
    BY <1>5, <2>1, <2>2, SeqEqual
  <2> QED
    BY <2>3 DEF t
<1>13. Running(ints[1], deltas) = ints
  BY <1>1, DifferencesAddUp DEF deltas
<1> QED
  BY <1>8, <1>9, <1>10, <1>11, <1>12, <1>13 DEF more, zero, deltas

-----------------------------------------------------------------------------
\* A value that is taken at a scale is a word there, and comes back.
LEMMA ValueAtScale ==
  ASSUME NEW s \in 0..MaxScale, NEW v \in Int, ~TooLarge(v, s), ComesBack(v, s)
  PROVE  At(v, s) \in Word /\ Float(At(v, s), s) = v
<1> DEFINE d == Power(Radix, MaxScale - s)
           p == Power(Radix, s)
           w == Power(Radix, MaxScale)
           q == v \div d
           av == IF v < 0 THEN -v ELSE v
           aq == IF q < 0 THEN -q ELSE q
<1>0. Half \in Nat \ {0} /\ Limit \in 0..Half /\ MaxScale \in Nat /\ Radix \in Nat \ {0}
  BY Widths, CodecAssumption DEF Byte
<1>1. d \in Nat \ {0} /\ p \in Nat \ {0} /\ w \in Nat \ {0} /\ w = p * d
  <2>1. s \in Nat /\ MaxScale - s \in Nat /\ s + (MaxScale - s) = MaxScale
    BY <1>0
  <2>2. d \in Nat \ {0} /\ p \in Nat \ {0} /\ w \in Nat \ {0}
    BY <1>0, <2>1, PowerPositive
  <2>3. Power(Radix, s + (MaxScale - s)) = p * d
    BY <1>0, <2>1, PowerOfSum
  <2> QED
    BY <2>1, <2>2, <2>3
<1>2. v % d = 0 /\ av * p < Limit * w
  <2>1. v % d = 0 /\ ~(av * p >= Limit * w)
    BY DEF ComesBack, TooLarge
  <2> DEFINE x == av * p
             y == Limit * w
  <2>2. x \in Int /\ y \in Int
    BY <1>0, <1>1
  <2> HIDE DEF x, y
  <2>3. x < y
    BY <2>1, <2>2 DEF x, y
  <2> QED
    BY <2>1, <2>3 DEF x, y
<1>3. At(v, s) = q /\ Float(q, s) = q * d
  BY DEF At, Float
<1> HIDE DEF d, p, w
<1>4. q \in Int /\ v = q * d
  BY <1>1, <1>2
<1> HIDE DEF q
<1>5. aq \in Nat /\ av = aq * d
  <2>1. CASE q < 0
    <3>1. q * d < 0 /\ (-q) * d = -(q * d)
      BY <1>1, <1>4, <2>1
    <3> QED
      BY <1>4, <2>1, <3>1
  <2>2. CASE ~(q < 0)
    <3>1. q * d >= 0
      BY <1>1, <1>4, <2>2
    <3> QED
      BY <1>4, <2>2, <3>1
  <2> QED
    BY <2>1, <2>2
<1> HIDE DEF av, aq
<1>6. av * p = aq * w
  <2>1. (aq * d) * p = aq * (p * d)
    BY <1>1, <1>5
  <2> QED
    BY <1>1, <1>5, <2>1
<1>7. aq < Limit
  <2> SUFFICES ASSUME Limit <= aq PROVE FALSE
    BY <1>0, <1>5
  <2>1. Limit * w <= aq * w
    BY <1>0, <1>1, <1>5
  <2> DEFINE x == Limit * w
             y == aq * w
  <2>2. x \in Int /\ y \in Int
    BY <1>0, <1>1, <1>5
  <2>3. y < x
    BY <1>2, <1>6
  <2> HIDE DEF x, y
  <2> QED
    BY <2>1, <2>2, <2>3 DEF x, y
<1>8. q \in Word
  BY <1>0, <1>4, <1>5, <1>7 DEF aq, Word
<1> QED
  BY <1>3, <1>4, <1>8

-----------------------------------------------------------------------------
\* A run of samples as the store seals it.
Sample == [t : 0..Half - 1, v : Values]

Ascending(samples) == \A i \in 1..Len(samples) - 1 : samples[i].t < samples[i + 1].t

Sealed(samples) ==
  /\ samples \in Seq(Sample) /\ Len(samples) \in 1..2 * Half - 1
  /\ Ascending(samples)

LEMMA TimesAndValues ==
  ASSUME NEW samples, Sealed(samples)
  PROVE  /\ TimesOf(samples) \in Seq(0..Half - 1) /\ Len(TimesOf(samples)) = Len(samples)
         /\ ValuesOf(samples) \in Seq(Values) /\ Len(ValuesOf(samples)) = Len(samples)
         /\ \A i \in 1..Len(samples) : /\ TimesOf(samples)[i] = samples[i].t
                                       /\ ValuesOf(samples)[i] = samples[i].v
         /\ Paired(TimesOf(samples), ValuesOf(samples)) = samples
         /\ Head(samples).t = TimesOf(samples)[1]
         /\ Last(samples).t = TimesOf(samples)[Len(samples)]
<1> DEFINE n == Len(samples)
           ts == TimesOf(samples)
           vs == ValuesOf(samples)
           ps == Paired(ts, vs)
<1>1. samples \in Seq(Sample) /\ n \in Nat \ {0}
  BY DEF Sealed
<1>2. DOMAIN samples = 1..n /\ \A i \in 1..n : samples[i] \in Sample
  BY <1>1, LenProperties, ElementOfSeq
<1> HIDE DEF n
<1>3. \A i \in 1..n : samples[i].t \in 0..Half - 1 /\ samples[i].v \in Values
  BY <1>2 DEF Sample
<1>4. ts = [i \in 1..n |-> samples[i].t] /\ vs = [i \in 1..n |-> samples[i].v]
  BY <1>2 DEF TimesOf, ValuesOf
<1> HIDE DEF ts, vs
<1>5. ts \in Seq(0..Half - 1) /\ Len(ts) = n /\ vs \in Seq(Values) /\ Len(vs) = n
  BY <1>1, <1>3, <1>4
<1>6. ps = samples
  <2>1. DOMAIN vs = 1..n
    BY <1>4
  <2>2. ps = [i \in 1..n |-> [t |-> ts[i], v |-> vs[i]]]
    BY <2>1 DEF Paired
  <2>3. ASSUME NEW i \in 1..n PROVE [t |-> ts[i], v |-> vs[i]] = samples[i]
    <3>1. ts[i] = samples[i].t /\ vs[i] = samples[i].v /\ samples[i] \in [t : 0..Half - 1, v : Values]
      BY <1>2, <1>4 DEF Sample
    <3> QED
      BY <3>1
  <2> HIDE DEF ps
  <2>4. ps = [i \in 1..n |-> samples[i]]
    BY <2>2, <2>3
  <2>5. ps \in Seq(Sample) /\ Len(ps) = n /\ \A i \in 1..n : ps[i] = samples[i]
    BY <1>1, <1>2, <2>4
  <2> QED
    BY <1>1, <2>5, SeqEqual DEF n
<1>7. Head(samples).t = ts[1] /\ Last(samples).t = ts[n]
  <2>1. 1 \in 1..n /\ n \in 1..n
    BY <1>1
  <2> QED
    BY <1>4, <2>1 DEF Last, n
<1> QED
  BY <1>4, <1>5, <1>6, <1>7 DEF ts, vs, n, ps

LEMMA StepsOfTimes ==
  ASSUME NEW samples, Sealed(samples)
  PROVE  LET ts == TimesOf(samples)
         IN  /\ Differences(ts) \in Seq(Word) /\ Len(Differences(ts)) = Len(samples) - 1
             /\ Checked(Running(ts[1], Differences(ts))) = {ts}
<1> DEFINE n == Len(samples)
           ts == TimesOf(samples)
           ds == Differences(ts)
<1>0. Half \in Nat \ {0} /\ n \in Nat \ {0}
  BY Widths DEF Sealed
<1>1. ts \in Seq(0..Half - 1) /\ Len(ts) = n
  BY TimesAndValues
<1> HIDE DEF ts, n
<1>2. ts \in Seq(Int) /\ Len(ts) # 0
  BY <1>0, <1>1, SeqMonotonic
<1>3. \A i \in 1..n : ts[i] \in 0..Half - 1
  BY <1>1, ElementOfSeq
<1>4. ds \in Seq(Int) /\ Len(ds) = n - 1 /\ \A i \in 1..n - 1 : ds[i] = ts[i + 1] - ts[i]
  BY <1>1, <1>2, DifferencesOf
<1> HIDE DEF ds
<1>5. ASSUME NEW i \in 1..n - 1 PROVE ds[i] \in Word
  <2>1. i \in 1..n /\ i + 1 \in 1..n
    BY <1>0
  <2>2. ts[i] \in 0..Half - 1 /\ ts[i + 1] \in 0..Half - 1
    BY <1>3, <2>1
  <2>3. ds[i] = ts[i + 1] - ts[i]
    BY <1>4
  <2> DEFINE x == ts[i]
             y == ts[i + 1]
  <2> HIDE DEF x, y
  <2>4. y - x \in Word
    BY <1>0, <2>2 DEF Word, x, y
  <2> QED
    BY <2>3, <2>4 DEF x, y
<1>6. ds \in Seq(Word)
  <2>1. ds = [i \in 1..n - 1 |-> ds[i]]
    BY <1>4, LenProperties
  <2>2. n - 1 \in Nat
    BY <1>0
  <2> QED
    BY <1>5, <2>1, <2>2
<1>7. Running(ts[1], ds) = ts
  BY <1>2, DifferencesAddUp DEF ds
<1>8. Checked(ts) = {ts}
  <2>1. DOMAIN ts = 1..n
    BY <1>1, LenProperties
  <2>2. \A i \in 1..n : ts[i] \in Word
    BY <1>0, <1>3 DEF Word
  <2> QED
    BY <2>1, <2>2 DEF Checked
<1> QED
  BY <1>4, <1>6, <1>7, <1>8 DEF ds, ts, n

\* The values at a scale.
ScaledValues(samples, scale) == [i \in DOMAIN samples |-> At(samples[i].v, scale)]

LEMMA IntegersOf ==
  ASSUME NEW samples, Sealed(samples), NEW ints \in IntStream(samples)
  PROVE  LET ns == ScaledValues(samples, ints.scale)
         IN  /\ ints.scale \in 0..MaxScale /\ ints.first = ns[1]
             /\ ints.dods \in DeltasOfDeltas(ns)
             /\ ns \in Seq(Word) /\ Len(ns) = Len(samples)
             /\ \A i \in 1..Len(samples) : Float(ns[i], ints.scale) = samples[i].v
<1> DEFINE n == Len(samples)
           s == ints.scale
           ns == ScaledValues(samples, s)
           Stream(scale, dods) == [scale |-> scale, first |-> At(samples[1].v, scale), dods |-> dods]
<1>1. samples \in Seq(Sample) /\ n \in Nat \ {0}
  BY DEF Sealed
<1>2. DOMAIN samples = 1..n /\ \A i \in 1..n : samples[i] \in Sample
  BY <1>1, LenProperties, ElementOfSeq
<1>3. IntStream(samples) =
        UNION {UNION {{Stream(scale, dods)} : dods \in DeltasOfDeltas(ScaledValues(samples, scale))}
                 : scale \in ScaleOf(samples)}
  BY DEF IntStream, Then, ScaledValues
<1>4. \E scale \in ScaleOf(samples) : \E dods \in DeltasOfDeltas(ScaledValues(samples, scale)) :
        ints = Stream(scale, dods)
  <2> HIDE DEF Stream
  <2> QED
    BY <1>3
<1>5. s \in ScaleOf(samples) /\ ints.first = At(samples[1].v, s) /\ ints.dods \in DeltasOfDeltas(ns)
  BY <1>4
<1>6. s \in 0..MaxScale /\ Stops(samples, s) = {}
  BY <1>5 DEF ScaleOf
<1> HIDE DEF s, n
<1>7. ns = [i \in 1..n |-> At(samples[i].v, s)]
  BY <1>2 DEF ScaledValues
<1> HIDE DEF ns
<1>8. ASSUME NEW i \in 1..n
      PROVE  At(samples[i].v, s) \in Word /\ Float(At(samples[i].v, s), s) = samples[i].v
  <2> DEFINE v == samples[i].v
  <2>1. ~TooLarge(v, s) /\ ComesBack(v, s)
    BY <1>2, <1>6 DEF Stops
  <2>2. v \in Values
    BY <1>2 DEF Sample
  <2>3. v \in Int
    BY <2>1, <2>2, InputsAssumption DEF ComesBack, Scaled
  <2> HIDE DEF v
  <2>4. At(v, s) \in Word /\ Float(At(v, s), s) = v
    BY <1>6, <2>1, <2>3, ValueAtScale
  <2> QED
    BY <2>4 DEF v
<1>9. ns \in Seq(Word) /\ Len(ns) = n /\ \A i \in 1..n : Float(ns[i], s) = samples[i].v
  BY <1>1, <1>7, <1>8
<1>10. ints.first = ns[1]
  BY <1>1, <1>5, <1>7
<1> QED
  BY <1>5, <1>6, <1>9, <1>10 DEF ns, s, n

-----------------------------------------------------------------------------
\* The steps of DecodeInts.
AsFloats(times, scale, ints) == {Paired(times, [i \in DOMAIN ints |-> Float(ints[i], scale.value)])}

AddedUp(times, scale, first, deltas) ==
  UNION {AsFloats(times, scale, ints) : ints \in Checked(Running(Unzigzag(first.value), Tail(deltas)))}

AddedUpTwice(times, scale, first, dods) ==
  UNION {AddedUp(times, scale, first, deltas) : deltas \in Checked(Running(0, dods.value))}

FromFirst(bs, times, scale, first) ==
  UNION {AddedUpTwice(times, scale, first, dods) : dods \in DecodeStream(bs, first.at, Len(times) - 1)}

FromScale(bs, times, scale) ==
  IF scale.value > MaxScale THEN {}
  ELSE UNION {FromFirst(bs, times, scale, first) : first \in GetUvarint(bs, scale.at)}

LEMMA DecodeIntsInSteps ==
  ASSUME NEW bs, NEW at, NEW times
  PROVE  DecodeInts(bs, at, times) = UNION {FromScale(bs, times, scale) : scale \in TakeU8(bs, at)}
BY DEF DecodeInts, FromScale, FromFirst, AddedUpTwice, AddedUp, AsFloats, Then, Failed

LEMMA IntsParts ==
  ASSUME NEW samples, Sealed(samples), NEW ints \in IntStream(samples)
  PROVE  /\ <<0, ints.scale>> \in Seq(Byte) /\ PutUvarint(Zigzag(ints.first)) \in Seq(Byte)
         /\ EncodeStream(ints.dods) \in Seq(Byte)
         /\ PutUvarint(Zigzag(ints.first)) \o EncodeStream(ints.dods) \in Seq(Byte)
         /\ PutInts(ints) \in Seq(Byte)
         /\ ints.first \in Word /\ ints.dods \in Seq(Word) /\ Len(ints.dods) = Len(samples) - 1
<1> DEFINE ns == ScaledValues(samples, ints.scale)
           x == <<0, ints.scale>>
           y == PutUvarint(Zigzag(ints.first))
           z == EncodeStream(ints.dods)
<1>1. /\ ints.scale \in 0..MaxScale /\ ints.first = ns[1]
      /\ ints.dods \in DeltasOfDeltas(ns)
      /\ ns \in Seq(Word) /\ Len(ns) = Len(samples)
  BY IntegersOf
<1>2. Len(samples) \in Nat \ {0}
  BY DEF Sealed
<1> HIDE DEF ns
<1>3. ints.first \in Word
  BY <1>1, <1>2, ElementOfSeq
<1>4. ints.dods \in Seq(Word) /\ Len(ints.dods) = Len(samples) - 1
  BY <1>1, <1>2, SecondDifferences
<1>5. x \in Seq(Byte)
  <2>1. 0 \in Byte /\ ints.scale \in Byte
    BY <1>1, CodecAssumption, Widths DEF Byte
  <2> DEFINE s == ints.scale
  <2> HIDE DEF s
  <2>2. <<0, s>> \in Seq(Byte)
    BY <2>1 DEF s
  <2> QED
    BY <2>2 DEF s
<1>6. y \in Seq(Byte)
  <2>1. Zigzag(ints.first) \in 0..2 * Half - 1
    BY <1>3, ZigzagComesBack
  <2>2. Zigzag(ints.first) \in Nat
    BY <2>1
  <2> QED
    BY <2>2, PutRounds
<1>7. z \in Seq(Byte)
  BY <1>4, StreamIsBytes
<1>8. PutInts(ints) = x \o (y \o z)
  BY DEF PutInts
<1> HIDE DEF x, y, z
<1>9. y \o z \in Seq(Byte)
  BY <1>6, <1>7, ConcatProperties
<1>10. x \o (y \o z) \in Seq(Byte)
  BY <1>5, <1>9, ConcatProperties
<1> QED
  BY <1>3, <1>4, <1>5, <1>6, <1>7, <1>8, <1>9, <1>10 DEF x, y, z

\* Scaled integers come back as the floats that they were.
LEMMA FloatsComeBack ==
  ASSUME NEW samples, Sealed(samples), NEW ints \in IntStream(samples), NEW times,
         NEW scale, scale.value = ints.scale, NEW first, first.value = Zigzag(ints.first),
         NEW dods, dods.value = ints.dods
  PROVE  AddedUpTwice(times, scale, first, dods) = {Paired(times, ValuesOf(samples))}
<1> DEFINE ns == ScaledValues(samples, ints.scale)
           deltas == Differences(ns)
           more == <<0>> \o deltas
           floats == [i \in DOMAIN ns |-> Float(ns[i], scale.value)]
<1>1. /\ ints.first = ns[1] /\ ints.dods \in DeltasOfDeltas(ns)
      /\ ns \in Seq(Word) /\ Len(ns) = Len(samples)
      /\ \A i \in 1..Len(samples) : Float(ns[i], ints.scale) = samples[i].v
  BY IntegersOf
<1>2. Len(samples) \in Nat \ {0}
  BY DEF Sealed
<1> HIDE DEF ns
<1>3. /\ Checked(Running(0, ints.dods)) = {more} /\ Tail(more) = deltas
      /\ Checked(Running(ns[1], deltas)) = {ns}
  BY <1>1, <1>2, SecondDifferences
<1>4. ns[1] \in Word
  BY <1>1, <1>2, ElementOfSeq
<1>5. Unzigzag(first.value) = ns[1]
  BY <1>1, <1>4, ZigzagComesBack
<1> HIDE DEF more, deltas
<1>6. AddedUpTwice(times, scale, first, dods) = AddedUp(times, scale, first, more)
  BY <1>3 DEF AddedUpTwice
<1>7. AddedUp(times, scale, first, more) = AsFloats(times, scale, ns)
  BY <1>3, <1>5 DEF AddedUp
<1>8. floats = ValuesOf(samples)
  <2> DEFINE vs == ValuesOf(samples)
             n == Len(samples)
  <2>1. vs \in Seq(Values) /\ Len(vs) = n /\ \A i \in 1..n : vs[i] = samples[i].v
    BY TimesAndValues
  <2>2. DOMAIN ns = 1..n /\ vs = [i \in 1..n |-> vs[i]]
    BY <1>1, <2>1, LenProperties
  <2>3. \A i \in 1..n : Float(ns[i], scale.value) = vs[i]
    BY <1>1, <2>1
  <2> HIDE DEF vs, n
  <2>4. floats = [i \in 1..n |-> vs[i]]
    BY <2>2, <2>3
  <2> QED
    BY <2>2, <2>4 DEF vs
<1> QED
  BY <1>6, <1>7, <1>8 DEF AsFloats

LEMMA IntsComeBack ==
  ASSUME NEW samples, Sealed(samples), NEW ints \in IntStream(samples),
         NEW times, Len(times) = Len(samples),
         NEW bs, NEW at \in Nat, Holds(bs, at, PutInts(ints))
  PROVE  /\ TakeU8(bs, at) = Parsed(0, at + 1)
         /\ DecodeInts(bs, at + 1, times) = {Paired(times, ValuesOf(samples))}
<1> DEFINE x == <<0, ints.scale>>
           y == PutUvarint(Zigzag(ints.first))
           z == EncodeStream(ints.dods)
           p == (at + 2) + Len(y)
           q == p + Len(z)
           scale == [value |-> ints.scale, at |-> at + 2]
           first == [value |-> Zigzag(ints.first), at |-> p]
           dods  == [value |-> ints.dods, at |-> q]
<1>1. /\ x \in Seq(Byte) /\ y \in Seq(Byte) /\ z \in Seq(Byte) /\ y \o z \in Seq(Byte)
      /\ ints.first \in Word /\ ints.dods \in Seq(Word) /\ Len(ints.dods) = Len(samples) - 1
  BY IntsParts
<1>2. ints.scale \in 0..MaxScale /\ Len(samples) \in 1..2 * Half - 1 /\ Half \in Nat \ {0}
  BY IntegersOf, Widths DEF Sealed
<1>3. Len(x) = 2 /\ x[1] = 0 /\ x[2] = ints.scale
  OBVIOUS
<1>4. PutInts(ints) = x \o (y \o z)
  BY DEF PutInts
<1> HIDE DEF x, y, z
<1>5. Holds(bs, at, x) /\ Holds(bs, at + Len(x), y \o z)
  <2> DEFINE yz == y \o z
  <2>1. at \in Nat /\ x \in Seq(Byte) /\ yz \in Seq(Byte) /\ Holds(bs, at, x \o yz)
    BY <1>1, <1>4
  <2> HIDE DEF yz
  <2>2. Holds(bs, at, x) /\ Holds(bs, at + Len(x), yz)
    BY ONLY <2>1, HoldsBoth
  <2> QED
    BY <2>2 DEF yz
<1>6. Holds(bs, at + 2, y) /\ Holds(bs, p, z)
  <2> DEFINE o == at + 2
  <2>1. o \in Nat /\ y \in Seq(Byte) /\ z \in Seq(Byte) /\ Holds(bs, o, y \o z)
    BY <1>1, <1>3, <1>5
  <2> HIDE DEF o
  <2>2. Holds(bs, o, y) /\ Holds(bs, o + Len(y), z)
    BY ONLY <2>1, HoldsBoth
  <2> QED
    BY <2>2 DEF o
<1>7. TakeU8(bs, at) = Parsed(0, at + 1) /\ TakeU8(bs, at + 1) = {scale}
  <2>1. at + 2 <= Len(bs) /\ Len(bs) \in Nat /\ \A i \in 1..2 : bs[at + i] = x[i]
    BY <1>3, <1>5 DEF Holds
  <2>2. bs[at + 1] = 0 /\ bs[(at + 1) + 1] = ints.scale
    <3>1. (at + 1) + 1 = at + 2
      OBVIOUS
    <3> QED
      BY <1>3, <2>1, <3>1
  <2>3. at < Len(bs) /\ at + 1 < Len(bs) /\ (at + 1) + 1 = at + 2
    BY <2>1
  <2> QED
    BY <2>2, <2>3 DEF TakeU8, Parsed
<1>8. GetUvarint(bs, at + 2) = {first}
  <2>1. Zigzag(ints.first) \in 0..2 * Half - 1
    BY <1>1, ZigzagComesBack
  <2> DEFINE o == at + 2
             u == Zigzag(ints.first)
  <2>2. o \in Nat /\ u \in 0..2 * Half - 1 /\ Holds(bs, o, PutUvarint(u))
    BY <1>6, <2>1 DEF y
  <2> HIDE DEF o, u
  <2>3. GetUvarint(bs, o) = Parsed(u, o + Len(PutUvarint(u)))
    BY ONLY <2>2, UvarintComesBack
  <2> QED
    BY <2>3 DEF o, u, y, Parsed
<1>9. DecodeStream(bs, p, Len(times) - 1) = {dods}
  <2> DEFINE ds == ints.dods
  <2>1. /\ p \in Nat /\ ds \in Seq(Word) /\ Len(ds) <= 2 * Half - 1
        /\ Holds(bs, p, EncodeStream(ds)) /\ Len(times) - 1 = Len(ds)
    <3>1. Len(y) \in Nat
      BY <1>1, LenProperties
    <3> QED
      BY <1>1, <1>2, <1>6, <3>1 DEF z
  <2> HIDE DEF p, ds
  <2>2. DecodeStream(bs, p, Len(ds)) = Parsed(ds, p + Len(EncodeStream(ds)))
    BY ONLY <2>1, StreamComesBack
  <2> QED
    BY <2>1, <2>2 DEF ds, z, Parsed
<1>10. scale.value = ints.scale /\ scale.at = at + 2 /\ first.value = Zigzag(ints.first) /\ first.at = p
       /\ dods.value = ints.dods
  OBVIOUS
<1> HIDE DEF scale, first, dods, p, q
<1>11. DecodeInts(bs, at + 1, times) = FromScale(bs, times, scale)
  BY <1>7, DecodeIntsInSteps
<1>12. FromScale(bs, times, scale) = FromFirst(bs, times, scale, first)
  <2>1. MaxScale \in Nat /\ ~(scale.value > MaxScale)
    BY <1>2, <1>10, CodecAssumption DEF Byte
  <2> QED
    BY <1>8, <1>10, <2>1 DEF FromScale
<1>13. FromFirst(bs, times, scale, first) = AddedUpTwice(times, scale, first, dods)
  BY <1>9, <1>10 DEF FromFirst
<1>14. AddedUpTwice(times, scale, first, dods) = {Paired(times, ValuesOf(samples))}
  BY <1>10, FloatsComeBack
<1> QED
  BY <1>7, <1>11, <1>12, <1>13, <1>14

-----------------------------------------------------------------------------
\* The stream of the times comes first, whatever is behind it.
LEMMA HoldsFirst ==
  ASSUME NEW S, Byte \subseteq S, NEW e \in Seq(Byte), NEW v \in Seq(S)
  PROVE  /\ Holds(e \o v, 0, e) /\ Len(e) \in Nat /\ Len(v) \in Nat
         /\ Len(e \o v) = Len(e) + Len(v)
         /\ \A i \in 1..Len(v) : (e \o v)[Len(e) + i] = v[i]
<1> DEFINE bs == e \o v
<1>1. e \in Seq(S)
  BY SeqMonotonic
<1>2. Len(e) \in Nat /\ Len(v) \in Nat /\ \A i \in 1..Len(e) : e[i] \in Byte
  BY LenProperties, ElementOfSeq
<1>3. /\ Len(bs) = Len(e) + Len(v)
      /\ \A i \in 1..Len(e) + Len(v) : bs[i] = IF i <= Len(e) THEN e[i] ELSE v[i - Len(e)]
  BY <1>1, ConcatProperties
<1> HIDE DEF bs
<1>4. \A i \in 1..Len(e) : bs[i] = e[i]
  BY <1>2, <1>3
<1>5. ASSUME NEW i \in 1..Len(v) PROVE bs[Len(e) + i] = v[i]
  <2>1. Len(e) + i \in 1..Len(e) + Len(v) /\ ~(Len(e) + i <= Len(e)) /\ (Len(e) + i) - Len(e) = i
    BY <1>2
  <2> QED
    BY <1>3, <2>1
<1>6. Holds(bs, 0, e)
  <2>1. \A i \in 1..Len(e) : bs[0 + i] = e[i] /\ bs[0 + i] \in Byte
    BY <1>2, <1>4
  <2>2. \A i \in 1..0 + Len(e) : bs[i] \in Byte
    BY <1>2, <1>4
  <2> QED
    BY <1>2, <1>3, <2>1, <2>2 DEF Holds
<1> QED
  BY <1>2, <1>3, <1>5, <1>6 DEF bs

\* The raw floats come back.
LEMMA RawComesBack ==
  ASSUME NEW samples, Sealed(samples), NEW times, Len(times) = Len(samples),
         NEW e \in Seq(Byte)
  PROVE  LET bs == e \o PutRaw(ValuesOf(samples))
         IN  /\ TakeU8(bs, Len(e)) = Parsed(1, Len(e) + 1)
             /\ DecodeRaw(bs, Len(e) + 1, times) = {Paired(times, ValuesOf(samples))}
<1> DEFINE n == Len(samples)
           vs == ValuesOf(samples)
           S == Byte \cup Values
           one == <<1>>
           v == one \o vs
           bs == e \o v
           k == Len(e)
           sub == SubSeq(bs, (k + 1) + 1, (k + 1) + n)
<1>1. n \in Nat \ {0} /\ vs \in Seq(Values) /\ Len(vs) = n /\ 1 \in Byte
  BY TimesAndValues, Widths DEF Sealed, Byte
<1> HIDE DEF vs, n
<1>2. one \in Seq(S) /\ Len(one) = 1 /\ one[1] = 1 /\ vs \in Seq(S)
  BY <1>1, SeqMonotonic
<1> HIDE DEF one
<1>3. /\ v \in Seq(S) /\ Len(v) = 1 + n
      /\ \A i \in 1..1 + n : v[i] = IF i <= 1 THEN one[i] ELSE vs[i - 1]
  <2>1. /\ v \in Seq(S) /\ Len(v) = Len(one) + Len(vs)
        /\ \A i \in 1..Len(one) + Len(vs) :
             v[i] = IF i <= Len(one) THEN one[i] ELSE vs[i - Len(one)]
    BY ONLY <1>2, ConcatProperties
  <2> HIDE DEF v
  <2> QED
    BY <1>1, <1>2, <2>1
<1> HIDE DEF v
<1>4. v[1] = 1 /\ \A i \in 1..n : v[i + 1] = vs[i]
  <2>1. ASSUME NEW i \in 1..n PROVE v[i + 1] = vs[i]
    <3>1. i + 1 \in 1..1 + n /\ ~(i + 1 <= 1) /\ (i + 1) - 1 = i
      BY <1>1
    <3> QED
      BY <1>3, <3>1
  <2> QED
    BY <1>1, <1>2, <1>3, <2>1
<1>5. /\ k \in Nat /\ Len(bs) = k + (1 + n)
      /\ \A i \in 1..1 + n : bs[k + i] = v[i]
  <2>1. Byte \subseteq S
    OBVIOUS
  <2>2. /\ Len(e) \in Nat /\ Len(e \o v) = Len(e) + Len(v)
        /\ \A i \in 1..Len(v) : (e \o v)[Len(e) + i] = v[i]
    BY ONLY <2>1, <1>3, e \in Seq(Byte), HoldsFirst
  <2> QED
    BY <1>3, <2>2
<1> HIDE DEF bs, k
<1>6. bs[k + 1] = 1 /\ k < Len(bs)
  BY <1>1, <1>4, <1>5
<1>7. ASSUME NEW i \in 1..n PROVE bs[(k + 1) + i] = vs[i]
  <2>1. i + 1 \in 1..1 + n /\ (k + 1) + i = k + (i + 1)
    BY <1>1, <1>5
  <2> QED
    BY <1>4, <1>5, <2>1
<1>8. sub = vs
  <2> DEFINE a == (k + 1) + 1
             b == (k + 1) + n
  <2>1. a \in Int /\ b \in Int /\ a <= b /\ (b - a) + 1 = n
    BY <1>1, <1>5
  <2>2. ASSUME NEW i \in a..b PROVE bs[i] \in S
    <3>1. i - (k + 1) \in 1..n /\ (k + 1) + (i - (k + 1)) = i
      BY <1>1, <1>5
    <3>2. bs[i] = vs[i - (k + 1)] /\ vs[i - (k + 1)] \in S
      BY <1>1, <1>2, <1>7, <3>1, ElementOfSeq
    <3> QED
      BY <3>2
  <2>3. \A i \in 1..n : (a + i) - 1 = (k + 1) + i
    BY <1>5
  <2> HIDE DEF a, b, S
  <2>4. /\ SubSeq(bs, a, b) \in Seq(S)
        /\ Len(SubSeq(bs, a, b)) = IF a <= b THEN (b - a) + 1 ELSE 0
        /\ \A i \in 1..(b - a) + 1 : SubSeq(bs, a, b)[i] = bs[(a + i) - 1]
    BY <2>1, <2>2, SubSeqProperties
  <2>5. sub = SubSeq(bs, a, b)
    BY DEF a, b
  <2> HIDE DEF sub
  <2>6. sub \in Seq(S) /\ Len(sub) = n /\ \A i \in 1..n : sub[i] = vs[i]
    BY <1>7, <2>1, <2>3, <2>4, <2>5
  <2> QED
    BY <1>1, <1>2, <2>6, SeqEqual
<1>9. TakeU8(bs, k) = Parsed(1, k + 1)
  BY <1>6 DEF TakeU8
<1>10. DecodeRaw(bs, k + 1, times) = {Paired(times, vs)}
  <2>1. Len(bs) = (k + 1) + Len(times) /\ Len(times) = n
    BY <1>1, <1>5 DEF n
  <2>2. ~(Len(bs) < (k + 1) + Len(times))
    BY <1>1, <1>5, <2>1
  <2> QED
    BY <1>8, <2>1, <2>2 DEF DecodeRaw
<1>11. bs = e \o PutRaw(vs)
  BY DEF PutRaw, bs, v, one
<1> QED
  BY <1>9, <1>10, <1>11 DEF k, vs

\* The steps of DecodeChunk.
DecodeValues(chunk, times, mode) ==
  CASE mode.value = 0 -> DecodeInts(chunk.bytes, mode.at, times)
    [] mode.value = 1 -> DecodeRaw(chunk.bytes, mode.at, times)
    [] OTHER          -> {}

BehindTimes(chunk, deltas, times) ==
  UNION {DecodeValues(chunk, times, mode) : mode \in TakeU8(chunk.bytes, deltas.at)}

BehindDeltas(chunk, deltas) ==
  UNION {BehindTimes(chunk, deltas, times) : times \in Checked(Running(chunk.first_t, deltas.value))}

LEMMA DecodeChunkInSteps ==
  ASSUME NEW chunk
  PROVE  DecodeChunk(chunk)
           = UNION {BehindDeltas(chunk, deltas) : deltas \in DecodeStream(chunk.bytes, 0, chunk.count - 1)}
BY DEF DecodeChunk, BehindDeltas, BehindTimes, DecodeValues, Then, Failed

LEMMA ChunkComesBack ==
  ASSUME NEW samples, Sealed(samples)
  PROVE  DecodeChunk(EncodeChunk(samples)) = {samples}
<1> DEFINE chunk == EncodeChunk(samples)
           n == Len(samples)
           ts == TimesOf(samples)
           vs == ValuesOf(samples)
           ds == Differences(ts)
           e == EncodeStream(ds)
           v == EncodeValues(samples)
           bs == e \o v
           k == Len(e)
           deltas == [value |-> ds, at |-> k]
<1>1. /\ chunk.first_t = ts[1] /\ chunk.count = n /\ chunk.bytes = bs
  BY TimesAndValues DEF EncodeChunk
<1>2. ds \in Seq(Word) /\ Len(ds) = n - 1 /\ Checked(Running(ts[1], ds)) = {ts}
  BY StepsOfTimes
<1>3. n \in 1..2 * Half - 1 /\ Half \in Nat \ {0}
  BY Widths DEF Sealed
<1>4. Len(ts) = n /\ vs \in Seq(Values) /\ Len(vs) = n /\ Paired(ts, vs) = samples
  BY TimesAndValues
<1>5. e \in Seq(Byte)
  BY <1>2, StreamIsBytes
<1> HIDE DEF ts, vs, ds, n
<1>6. \/ v = PutRaw(vs)
      \/ \E ints \in IntStream(samples) : v = PutInts(ints)
  BY DEF EncodeValues, Failed, vs
<1>7. v \in Seq(Byte \cup Values)
  <2>1. CASE v = PutRaw(vs)
    <3> DEFINE one == <<1>>
    <3>1. one \in Seq(Byte \cup Values) /\ vs \in Seq(Byte \cup Values)
      <4>1. 1 \in Byte
        BY Widths DEF Byte
      <4>2. 1 \in Byte \cup Values
        BY <4>1
      <4>3. vs \in Seq(Byte \cup Values)
        BY <1>4, SeqMonotonic
      <4> QED
        BY <4>2, <4>3
    <3> HIDE DEF one, v
    <3>2. v = one \o vs
      BY <2>1 DEF PutRaw, one
    <3>3. one \o vs \in Seq(Byte \cup Values)
      BY ONLY <3>1, ConcatProperties
    <3> QED
      BY <3>2, <3>3
  <2>2. CASE \E ints \in IntStream(samples) : v = PutInts(ints)
    <3>1. v \in Seq(Byte)
      BY <2>2, IntsParts
    <3> HIDE DEF v
    <3> QED
      BY <3>1, SeqMonotonic
  <2> QED
    BY <1>6, <2>1, <2>2
<1> HIDE DEF v
<1>8. Holds(bs, 0, e) /\ k \in Nat
  <2>1. Byte \subseteq Byte \cup Values
    OBVIOUS
  <2> HIDE DEF e
  <2> QED
    BY <1>5, <1>7, <2>1, HoldsFirst
<1>9. DecodeStream(bs, 0, n - 1) = {deltas}
  <2>1. Len(ds) <= 2 * Half - 1 /\ Holds(bs, 0, EncodeStream(ds))
    BY <1>2, <1>3, <1>8
  <2> HIDE DEF bs, e
  <2>2. DecodeStream(bs, 0, Len(ds)) = Parsed(ds, 0 + Len(EncodeStream(ds)))
    BY <1>2, <2>1, StreamComesBack
  <2>3. 0 + Len(EncodeStream(ds)) = k
    BY <1>8 DEF e
  <2> QED
    BY <1>2, <2>2, <2>3 DEF Parsed
<1> HIDE DEF chunk
<1>10. DecodeChunk(chunk) = BehindDeltas(chunk, deltas)
  <2> HIDE DEF deltas, bs
  <2> QED
    BY <1>1, <1>9, DecodeChunkInSteps
<1>11. BehindDeltas(chunk, deltas) = BehindTimes(chunk, deltas, ts)
  BY <1>1, <1>2 DEF BehindDeltas
<1>12. BehindTimes(chunk, deltas, ts) = {Paired(ts, vs)}
  <2>0. BehindTimes(chunk, deltas, ts) = UNION {DecodeValues(chunk, ts, mode) : mode \in TakeU8(bs, k)}
    BY <1>1 DEF BehindTimes
  <2>1. CASE v = PutRaw(vs)
    <3>1. TakeU8(bs, k) = Parsed(1, k + 1) /\ DecodeRaw(bs, k + 1, ts) = {Paired(ts, vs)}
      <4> HIDE DEF e
      <4> QED
        BY <1>4, <1>5, <2>1, RawComesBack DEF n, vs
    <3> DEFINE mode == [value |-> 1, at |-> k + 1]
    <3>2. DecodeValues(chunk, ts, mode) = DecodeRaw(bs, k + 1, ts)
      <4> HIDE DEF k, bs
      <4> QED
        BY <1>1 DEF DecodeValues
    <3>3. TakeU8(bs, k) = {mode}
      BY <3>1 DEF Parsed
    <3> HIDE DEF mode, bs, k
    <3> QED
      BY <2>0, <3>1, <3>2, <3>3
  <2>2. CASE \E ints \in IntStream(samples) : v = PutInts(ints)
    <3>0. PICK ints \in IntStream(samples) : v = PutInts(ints)
      BY <2>2
    <3>1. v \in Seq(Byte)
      BY <3>0, IntsParts
    <3>2. Holds(bs, k, v)
      <4> HIDE DEF e
      <4>1. bs \in Seq(Byte) /\ Len(bs) = Len(e) + Len(v) /\ Len(v) \in Nat
        BY <1>5, <3>1, ConcatProperties, LenProperties
      <4>2. \A i \in 1..Len(v) : bs[k + i] = v[i]
        <5>1. Byte \subseteq Byte
          OBVIOUS
        <5> QED
          BY <1>5, <3>1, <5>1, HoldsFirst
      <4>3. \A i \in 1..Len(bs) : bs[i] \in Byte
        BY <4>1, ElementOfSeq
      <4> HIDE DEF bs, k
      <4>4. Len(bs) = k + Len(v) /\ Len(bs) \in Nat
        BY <1>8, <4>1 DEF k
      <4> QED
        BY <1>8, <4>1, <4>2, <4>3, <4>4 DEF Holds
    <3>3. /\ TakeU8(bs, k) = Parsed(0, k + 1)
          /\ DecodeInts(bs, k + 1, ts) = {Paired(ts, vs)}
      <4> HIDE DEF bs, k
      <4> QED
        BY <1>4, <1>8, <3>0, <3>2, IntsComeBack DEF n, vs
    <3> DEFINE mode == [value |-> 0, at |-> k + 1]
    <3>4. DecodeValues(chunk, ts, mode) = DecodeInts(bs, k + 1, ts)
      <4> HIDE DEF k, bs
      <4> QED
        BY <1>1 DEF DecodeValues
    <3>5. TakeU8(bs, k) = {mode}
      BY <3>3 DEF Parsed
    <3> HIDE DEF mode, bs, k
    <3> QED
      BY <2>0, <3>3, <3>4, <3>5
  <2> QED
    BY <1>6, <2>1, <2>2
<1> QED
  BY <1>4, <1>10, <1>11, <1>12 DEF chunk

\* ... and the loader takes it.
LEMMA ChunkIsAccepted ==
  ASSUME NEW samples, Sealed(samples)
  PROVE  Accepted(EncodeChunk(samples))
<1> DEFINE chunk == EncodeChunk(samples)
           n == Len(samples)
           T == {i \in 0..n - 1 : samples[1].t <= samples[i + 1].t}
<1>1. /\ samples \in Seq(Sample) /\ n \in Nat \ {0} /\ Half \in Nat
      /\ \A i \in 1..n - 1 : samples[i].t < samples[i + 1].t
  BY Widths DEF Sealed, Ascending
<1>2. \A i \in 1..n : samples[i].t \in 0..Half - 1
  <2>1. \A i \in 1..n : samples[i] \in Sample
    BY <1>1, ElementOfSeq
  <2> QED
    BY <2>1 DEF Sample
<1>3. chunk.first_t = Head(samples).t /\ chunk.last_t = Last(samples).t /\ chunk.count = n
  BY DEF EncodeChunk
<1>4. Head(samples) = samples[1] /\ Last(samples) = samples[n]
  BY <1>1 DEF Last
<1> HIDE DEF n, chunk
<1>5. 0 \in T
  BY <1>1, <1>2
<1>6. ASSUME NEW i \in 1..n - 1, i - 1 \in T PROVE i \in T
  <2>1. (i - 1) + 1 = i /\ i \in 1..n /\ i + 1 \in 1..n /\ 1 \in 1..n
    BY <1>1
  <2>2. samples[1].t <= samples[i].t /\ samples[i].t < samples[i + 1].t
    BY <1>1, <1>6, <2>1
  <2>3. samples[1].t \in Int /\ samples[i].t \in Int /\ samples[i + 1].t \in Int
    BY <1>2, <2>1
  <2>4. samples[1].t <= samples[i + 1].t
    BY <2>2, <2>3
  <2> QED
    BY <2>4
<1>7. n - 1 \in T
  <2>1. n - 1 \in Nat /\ n - 1 \in 0..n - 1
    BY <1>1
  <2> HIDE DEF T
  <2> QED
    BY <1>5, <1>6, <2>1, Ascent
<1>8. samples[1].t <= samples[n].t
  <2>1. (n - 1) + 1 = n
    BY <1>1
  <2> QED
    BY <1>7, <2>1
<1>9. Plausible(chunk)
  BY <1>1, <1>3, <1>4, <1>8 DEF Plausible
<1>10. Agrees(chunk, samples)
  BY <1>1, <1>3 DEF Agrees, n
<1>11. DecodeChunk(chunk) = {samples}
  BY ChunkComesBack DEF chunk
<1> QED
  BY <1>9, <1>10, <1>11 DEF Accepted, chunk

-----------------------------------------------------------------------------
\* What is read from any bytes.
IsRead(d) == d.value \in Seq(Int) /\ d.at \in Nat

LEMMA UvarintIsNatural ==
  ASSUME NEW bs \in Seq(Byte), NEW at \in Nat, NEW u \in GetUvarint(bs, at)
  PROVE  u.value \in Nat /\ u.at \in Nat
<1> DEFINE ends == {i \in at + 1..Len(bs) : Ends(bs[i])}
<1>0. Len(bs) \in Nat /\ \A i \in 1..Len(bs) : bs[i] \in Byte
  BY LenProperties, ElementOfSeq
<1>1. ends # {}
  BY DEF GetUvarint, Failed
<1>2. PICK last \in ends : \A i \in ends : last <= i
  <2>1. ends \subseteq Nat
    BY <1>0
  <2> HIDE DEF ends
  <2> QED
    BY <1>1, <2>1, LeastNatural
<1>3. FirstEnd(bs, at, last)
  <2>1. last \in at + 1..Len(bs) /\ Ends(bs[last])
    BY <1>2
  <2>2. ASSUME NEW i \in at + 1..last - 1 PROVE ~Ends(bs[i])
    <3>1. i \in at + 1..Len(bs) /\ ~(last <= i)
      BY <1>0, <2>1
    <3> QED
      BY <1>2, <3>1
  <2> HIDE DEF ends
  <2> QED
    BY <2>1, <2>2 DEF FirstEnd
<1>4. last \in Nat \ {0} /\ at + 1 \in 1..last /\ \A i \in 1..last : bs[i] \in Byte
  BY <1>0, <1>2
<1> HIDE DEF ends
<1> DEFINE x == Bits(bs, last)[at + 1]
<1>5. x \in Nat
  BY <1>4, BitsLoop
<1>6. GetUvarint(bs, at) =
        IF (last - at - 1) * PayloadBits < WordBits
        THEN Parsed(x % (2 * Half), last) ELSE Failed
  BY <1>0, <1>3, UvarintUpTo
<1> HIDE DEF x
<1>7. u = [value |-> x % (2 * Half), at |-> last]
  BY <1>6 DEF Parsed, Failed
<1>8. x % (2 * Half) \in Nat
  BY <1>5, Widths
<1> QED
  BY <1>4, <1>7, <1>8

LEMMA UnzigzagIsInteger ==
  ASSUME NEW u \in Nat
  PROVE  Unzigzag(u) \in Int
BY DEF Unzigzag

LEMMA ValueIsRead ==
  ASSUME NEW bs \in Seq(Byte), NEW d, IsRead(d), NEW c \in GetValue(bs, d)
  PROVE  IsRead(c) /\ Len(c.value) = Len(d.value) + 1
<1>1. PICK u \in GetUvarint(bs, d.at) : c = [value |-> Append(d.value, Unzigzag(u.value)), at |-> u.at]
  BY DEF GetValue, Then, Parsed
<1>2. u.value \in Nat /\ u.at \in Nat
  BY UvarintIsNatural DEF IsRead
<1>3. Unzigzag(u.value) \in Int
  BY <1>2, UnzigzagIsInteger
<1> QED
  BY <1>1, <1>2, <1>3, AppendProperties DEF IsRead

LEMMA PlainIsWhole ==
  ASSUME NEW bs \in Seq(Byte), NEW at \in Nat, NEW n \in Nat, NEW d \in DecodePlain(bs, at, n)
  PROVE  IsRead(d) /\ Len(d.value) = n
<1> DEFINE g == PlainDone(bs, at, n)
           T == {i \in 0..n : \A c \in g[i] : IsRead(c) /\ Len(c.value) = i}
<1>1. g[0] = Parsed(<<>>, at) /\ \A i \in 1..n : g[i] = PlainRound(bs, g[i - 1])
  BY PlainRounds
<1>2. d \in g[n]
  BY PlainIsItsLastRound
<1> HIDE DEF g
<1>3. 0 \in T
  <2>1. <<>> \in Seq(Int) /\ Len(<<>>) = 0
    BY EmptySeq
  <2> DEFINE c == [value |-> <<>>, at |-> at]
  <2>2. IsRead(c) /\ Len(c.value) = 0
    BY <2>1 DEF IsRead
  <2>3. g[0] = {c}
    BY <1>1 DEF Parsed
  <2> HIDE DEF c
  <2> QED
    BY <2>2, <2>3
<1>4. ASSUME NEW i \in 1..n, i - 1 \in T PROVE i \in T
  <2>1. ASSUME NEW c \in g[i] PROVE IsRead(c) /\ Len(c.value) = i
    <3>1. PICK b \in g[i - 1] : c \in GetValue(bs, b)
      BY <1>1 DEF PlainRound
    <3>2. IsRead(b) /\ Len(b.value) = i - 1
      BY <1>4
    <3>3. IsRead(c) /\ Len(c.value) = Len(b.value) + 1
      BY <3>1, <3>2, ValueIsRead
    <3> QED
      BY <3>2, <3>3
  <2> QED
    BY <2>1
<1>5. n \in T
  <2>1. n \in 0..n
    OBVIOUS
  <2> HIDE DEF T
  <2> QED
    BY <1>3, <1>4, <2>1, Ascent
<1> QED
  BY <1>2, <1>5

LEMMA RunIsRead ==
  ASSUME NEW bs \in Seq(Byte), NEW expected, NEW d, IsRead(d), NEW c \in GetRun(bs, expected, d)
  PROVE  IsRead(c)
<1>1. PICK u \in GetUvarint(bs, d.at) : \E count \in GetUvarint(bs, u.at) :
        c = [value |-> d.value \o [i \in 1..count.value |-> Unzigzag(u.value)], at |-> count.at]
  BY DEF GetRun, Then, Parsed, Failed
<1>2. PICK count \in GetUvarint(bs, u.at) :
        c = [value |-> d.value \o [i \in 1..count.value |-> Unzigzag(u.value)], at |-> count.at]
  BY <1>1
<1>3. d.at \in Nat /\ d.value \in Seq(Int)
  BY DEF IsRead
<1>4. u.value \in Nat /\ u.at \in Nat
  BY <1>3, UvarintIsNatural
<1>5. count.value \in Nat /\ count.at \in Nat
  BY <1>4, UvarintIsNatural
<1> DEFINE more == [i \in 1..count.value |-> Unzigzag(u.value)]
<1>6. more \in Seq(Int)
  <2> DEFINE l == count.value
             x == Unzigzag(u.value)
  <2>1. l \in Nat /\ x \in Int
    BY <1>4, <1>5, UnzigzagIsInteger
  <2> HIDE DEF l, x
  <2>2. [i \in 1..l |-> x] \in Seq(Int)
    BY <2>1
  <2> QED
    BY <2>2 DEF l, x
<1> HIDE DEF more
<1>7. d.value \o more \in Seq(Int)
  BY <1>3, <1>6, ConcatProperties
<1> QED
  BY <1>2, <1>5, <1>7 DEF IsRead, more

LEMMA RunsAreWhole ==
  ASSUME NEW bs \in Seq(Byte), NEW at \in Nat, NEW n, NEW d \in DecodeRuns(bs, at, n)
  PROVE  IsRead(d) /\ Len(d.value) = n
<1>1. PICK runs \in GetUvarint(bs, at) :
        d \in RunsDone(bs, n, runs.at, runs.value)[runs.value] /\ RunsFit(d, n)
  BY RunsAreTheirLastRound
<1> DEFINE m == runs.value
           g == RunsDone(bs, n, runs.at, m)
           T == {i \in 0..m : \A c \in g[i] : IsRead(c)}
<1>2. m \in Nat /\ runs.at \in Nat
  BY UvarintIsNatural
<1>3. g[0] = Parsed(<<>>, runs.at) /\ \A i \in 1..m : g[i] = RunRound(bs, n, g[i - 1])
  BY <1>2, RunRounds
<1>4. d \in g[m] /\ Len(d.value) = n
  BY <1>1 DEF RunsFit
<1> HIDE DEF g, m
<1>5. 0 \in T
  <2>1. <<>> \in Seq(Int)
    BY EmptySeq
  <2> DEFINE c == [value |-> <<>>, at |-> runs.at]
  <2>2. IsRead(c)
    BY <1>2, <2>1 DEF IsRead
  <2>3. g[0] = {c}
    BY <1>3 DEF Parsed
  <2> HIDE DEF c
  <2> QED
    BY <1>2, <2>2, <2>3
<1>6. ASSUME NEW i \in 1..m, i - 1 \in T PROVE i \in T
  <2>1. ASSUME NEW c \in g[i] PROVE IsRead(c)
    <3>1. PICK b \in g[i - 1] : c \in GetRun(bs, n, b)
      BY <1>3 DEF RunRound
    <3>2. IsRead(b)
      BY <1>6
    <3> QED
      BY <3>1, <3>2, RunIsRead
  <2>2. i \in 0..m
    BY <1>2
  <2> QED
    BY <2>1, <2>2
<1>7. m \in T
  <2>1. m \in 0..m
    BY <1>2
  <2> HIDE DEF T
  <2> QED
    BY <1>2, <1>5, <1>6, <2>1, Ascent
<1> QED
  BY <1>4, <1>7

LEMMA ByteIsRead ==
  ASSUME NEW bs \in Seq(Byte), NEW at \in Nat, NEW b \in TakeU8(bs, at)
  PROVE  b.value \in Byte /\ b.at \in Nat
<1>1. Len(bs) \in Nat /\ \A i \in 1..Len(bs) : bs[i] \in Byte
  BY LenProperties, ElementOfSeq
<1>2. at < Len(bs) /\ b = [value |-> bs[at + 1], at |-> at + 1]
  BY DEF TakeU8, Parsed, Failed
<1>3. at + 1 \in 1..Len(bs)
  BY <1>1, <1>2
<1> QED
  BY <1>1, <1>2, <1>3

LEMMA StreamIsWhole ==
  ASSUME NEW bs \in Seq(Byte), NEW at \in Nat, NEW n \in Nat, NEW d \in DecodeStream(bs, at, n)
  PROVE  IsRead(d) /\ Len(d.value) = n
<1>1. PICK mode \in TakeU8(bs, at) :
        d \in CASE mode.value = 0 -> DecodePlain(bs, mode.at, n)
                [] mode.value = 1 -> DecodeRuns(bs, mode.at, n)
                [] OTHER          -> Failed
  BY DEF DecodeStream, Then
<1>2. mode.at \in Nat
  BY ByteIsRead
<1>3. CASE mode.value = 0
  <2>1. d \in DecodePlain(bs, mode.at, n)
    BY <1>1, <1>3
  <2> QED
    BY <1>2, <2>1, PlainIsWhole
<1>4. CASE mode.value = 1
  <2>1. d \in DecodeRuns(bs, mode.at, n)
    BY <1>1, <1>4
  <2> QED
    BY <1>2, <2>1, RunsAreWhole
<1>5. CASE mode.value # 0 /\ mode.value # 1
  BY <1>1, <1>5 DEF Failed
<1> QED
  BY <1>3, <1>4, <1>5

LEMMA RunningOfRead ==
  ASSUME NEW start \in Int, NEW steps \in Seq(Int), NEW r \in Checked(Running(start, steps))
  PROVE  r \in Seq(Int) /\ Len(r) = Len(steps) + 1
<1>1. r = Running(start, steps)
  BY DEF Checked, Failed
<1> QED
  BY <1>1, RunningAdds DEF StartsAndSteps

LEMMA PairedLength ==
  ASSUME NEW times, NEW S, NEW values \in Seq(S)
  PROVE  Len(Paired(times, values)) = Len(values)
<1>1. Len(values) \in Nat /\ DOMAIN values = 1..Len(values)
  BY LenProperties
<1>2. Paired(times, values) = [i \in 1..Len(values) |-> [t |-> times[i], v |-> values[i]]]
  BY <1>1 DEF Paired
<1> DEFINE n == Len(values)
<1> HIDE DEF n
<1>3. Len([i \in 1..n |-> [t |-> times[i], v |-> values[i]]]) = n
  BY <1>1 DEF n
<1> QED
  BY <1>2, <1>3 DEF n

LEMMA IntsAreWhole ==
  ASSUME NEW bs \in Seq(Byte), NEW at \in Nat, NEW times, Len(times) \in Nat \ {0},
         NEW probe \in DecodeInts(bs, at, times)
  PROVE  Len(probe) = Len(times)
<1> DEFINE n == Len(times)
<1>1. PICK scale \in TakeU8(bs, at) : probe \in FromScale(bs, times, scale)
  BY DecodeIntsInSteps
<1>2. PICK first \in GetUvarint(bs, scale.at) : probe \in FromFirst(bs, times, scale, first)
  BY <1>1 DEF FromScale
<1>3. PICK dods \in DecodeStream(bs, first.at, n - 1) : probe \in AddedUpTwice(times, scale, first, dods)
  BY <1>2 DEF FromFirst
<1>4. PICK deltas \in Checked(Running(0, dods.value)) : probe \in AddedUp(times, scale, first, deltas)
  BY <1>3 DEF AddedUpTwice
<1>5. PICK ints \in Checked(Running(Unzigzag(first.value), Tail(deltas))) :
        probe \in AsFloats(times, scale, ints)
  BY <1>4 DEF AddedUp
<1>6. scale.at \in Nat
  BY ByteIsRead
<1>7. first.value \in Nat /\ first.at \in Nat
  BY <1>6, UvarintIsNatural
<1>8. dods.value \in Seq(Int) /\ Len(dods.value) = n - 1
  <2>1. n - 1 \in Nat
    OBVIOUS
  <2> QED
    BY <1>7, <2>1, StreamIsWhole DEF IsRead
<1>9. deltas \in Seq(Int) /\ Len(deltas) = n
  <2>1. deltas \in Seq(Int) /\ Len(deltas) = (n - 1) + 1
    BY <1>8, RunningOfRead
  <2> QED
    BY <2>1
<1>10. Tail(deltas) \in Seq(Int) /\ Len(Tail(deltas)) = n - 1
  <2>1. deltas # <<>>
    BY <1>9
  <2> QED
    BY <1>9, <2>1, HeadTailProperties
<1>11. ints \in Seq(Int) /\ Len(ints) = n
  <2>1. Unzigzag(first.value) \in Int
    BY <1>7, UnzigzagIsInteger
  <2>2. ints \in Seq(Int) /\ Len(ints) = (n - 1) + 1
    BY <1>10, <2>1, RunningOfRead
  <2> QED
    BY <2>2
<1> DEFINE floats == [i \in DOMAIN ints |-> Float(ints[i], scale.value)]
           S == {Float(x, scale.value) : x \in Int}
<1>12. floats \in Seq(S) /\ Len(floats) = n
  <2>1. DOMAIN ints = 1..n /\ \A i \in 1..n : ints[i] \in Int
    BY <1>11, LenProperties, ElementOfSeq
  <2> QED
    BY <2>1
<1>13. probe = Paired(times, floats)
  BY <1>5 DEF AsFloats
<1> HIDE DEF floats, S, n
<1>14. Len(probe) = n
  BY <1>12, <1>13, PairedLength
<1> QED
  BY <1>14 DEF n

LEMMA RawIsWhole ==
  ASSUME NEW bs \in Seq(Byte), NEW at \in Nat, NEW times, Len(times) \in Nat \ {0},
         NEW probe \in DecodeRaw(bs, at, times)
  PROVE  Len(probe) = Len(times)
<1> DEFINE n == Len(times)
           sub == SubSeq(bs, at + 1, at + n)
<1>0. Len(bs) \in Nat /\ \A i \in 1..Len(bs) : bs[i] \in Byte
  BY LenProperties, ElementOfSeq
<1>1. ~(Len(bs) < at + n) /\ probe = Paired(times, sub)
  BY DEF DecodeRaw, Failed
<1>2. sub \in Seq(Byte) /\ Len(sub) = n
  <2> DEFINE a == at + 1
             b == at + n
  <2>1. a \in Int /\ b \in Int /\ a <= b /\ (b - a) + 1 = n
    OBVIOUS
  <2>2. \A i \in a..b : bs[i] \in Byte
    BY <1>0, <1>1
  <2> HIDE DEF a, b
  <2>3. /\ SubSeq(bs, a, b) \in Seq(Byte)
        /\ Len(SubSeq(bs, a, b)) = IF a <= b THEN (b - a) + 1 ELSE 0
    BY <2>1, <2>2, SubSeqProperties
  <2> QED
    BY <2>1, <2>3 DEF a, b
<1> HIDE DEF sub, n
<1>3. Len(probe) = n
  BY <1>1, <1>2, PairedLength
<1> QED
  BY <1>3 DEF n

LEMMA DecodedIsWhole ==
  ASSUME NEW chunk, chunk.bytes \in Seq(Byte), chunk.first_t \in Int, chunk.count \in Nat \ {0},
         NEW probe \in DecodeChunk(chunk)
  PROVE  Len(probe) = chunk.count
<1> DEFINE n == chunk.count
           bs == chunk.bytes
<1>1. PICK deltas \in DecodeStream(bs, 0, n - 1) : probe \in BehindDeltas(chunk, deltas)
  BY DecodeChunkInSteps
<1>2. PICK times \in Checked(Running(chunk.first_t, deltas.value)) :
        probe \in BehindTimes(chunk, deltas, times)
  BY <1>1 DEF BehindDeltas
<1>3. PICK mode \in TakeU8(bs, deltas.at) : probe \in DecodeValues(chunk, times, mode)
  BY <1>2 DEF BehindTimes
<1>4. deltas.value \in Seq(Int) /\ deltas.at \in Nat /\ Len(deltas.value) = n - 1
  <2>1. n - 1 \in Nat /\ 0 \in Nat
    OBVIOUS
  <2> QED
    BY <2>1, StreamIsWhole DEF IsRead
<1>5. Len(times) = n
  <2>1. Len(times) = (n - 1) + 1
    BY <1>4, RunningOfRead
  <2> QED
    BY <2>1
<1>6. mode.at \in Nat
  BY <1>4, ByteIsRead
<1>7. \/ probe \in DecodeInts(bs, mode.at, times)
      \/ probe \in DecodeRaw(bs, mode.at, times)
  <2>1. CASE mode.value = 0
    BY <1>3, <2>1 DEF DecodeValues
  <2>2. CASE mode.value = 1
    BY <1>3, <2>2 DEF DecodeValues
  <2>3. CASE mode.value # 0 /\ mode.value # 1
    BY <1>3, <2>3 DEF DecodeValues
  <2> QED
    BY <2>1, <2>2, <2>3
<1> QED
  BY <1>5, <1>6, <1>7, IntsAreWhole, RawIsWhole

-----------------------------------------------------------------------------
\* Of what is put in: samples the store could have sealed, or bytes.
ChunkInv ==
  /\ sort = "samples" => /\ input \in Seq(Sample) /\ Ascending(input)
                         /\ Len(input) <= MaxLength["samples"]
  /\ sort = "bytes" => input \in Seq(Byte)

LEMMA InvSeals ==
  ASSUME ChunkInv, sort = "samples", input # <<>>
  PROVE  Sealed(input)
<1>1. input \in Seq(Sample) /\ Ascending(input) /\ Len(input) <= MaxLength["samples"]
  BY DEF ChunkInv
<1>2. Len(input) \in Nat \ {0}
  BY <1>1, EmptySeq
<1>3. MaxLength["samples"] \in 0..2 * Half - 1 /\ Half \in Nat
  BY InputsAssumption, Widths
<1> QED
  BY <1>1, <1>2, <1>3 DEF Sealed

LEMMA EncodedIntsAreBytes ==
  ASSUME NEW samples, Sealed(samples), IntStream(samples) # Failed
  PROVE  EncodeChunk(samples).bytes \in Seq(Byte)
<1> DEFINE e == EncodeStream(Differences(TimesOf(samples)))
           v == EncodeValues(samples)
<1>1. e \in Seq(Byte)
  BY StepsOfTimes, StreamIsBytes
<1>2. \E ints \in IntStream(samples) : v = PutInts(ints)
  BY DEF EncodeValues, Failed
<1>3. v \in Seq(Byte)
  BY <1>2, IntsParts
<1> HIDE DEF e, v
<1>4. e \o v \in Seq(Byte)
  BY <1>1, <1>3, ConcatProperties
<1> QED
  BY <1>4 DEF EncodeChunk, e, v

LEMMA OneMoreSample ==
  ASSUME NEW samples \in Seq(Sample), Ascending(samples), NEW x \in Sample,
         samples # <<>> => Last(samples).t < x.t
  PROVE  Append(samples, x) \in Seq(Sample) /\ Ascending(Append(samples, x))
<1> DEFINE n == Len(samples)
           more == Append(samples, x)
<1>1. n \in Nat /\ (n # 0 => samples # <<>>)
  BY LenProperties, EmptySeq
<1>2. /\ more \in Seq(Sample) /\ Len(more) = n + 1
      /\ (\A i \in 1..n : more[i] = samples[i]) /\ more[n + 1] = x
  BY AppendProperties
<1>3. (\A i \in 1..n - 1 : samples[i].t < samples[i + 1].t) /\ (samples # <<>> => samples[n].t < x.t)
  BY DEF Ascending, Last
<1> HIDE DEF n, more
<1>4. ASSUME NEW i \in 1..n PROVE more[i].t < more[i + 1].t
  <2>1. CASE i = n
    BY <1>1, <1>2, <1>3, <2>1
  <2>2. CASE i # n
    <3>1. i \in 1..n - 1 /\ i + 1 \in 1..n
      BY <1>1, <2>2
    <3> QED
      BY <1>2, <1>3, <3>1
  <2> QED
    BY <2>1, <2>2
<1>5. (n + 1) - 1 = n
  BY <1>1
<1>6. Ascending(more)
  BY <1>2, <1>4, <1>5 DEF Ascending
<1> QED
  BY <1>2, <1>6 DEF more

LEMMA InitInv == Init => ChunkInv
<1> SUFFICES ASSUME Init PROVE ChunkInv
  OBVIOUS
<1>1. input = <<>> /\ Len(<<>>) = 0
  BY DEF Init
<1>2. <<>> \in Seq(Sample) /\ <<>> \in Seq(Byte)
  BY EmptySeq
<1>3. Ascending(<<>>)
  BY <1>1 DEF Ascending
<1>4. 0 <= MaxLength["samples"]
  BY InputsAssumption, Widths
<1> QED
  BY <1>1, <1>2, <1>3, <1>4 DEF ChunkInv

LEMMA StepInv == ChunkInv /\ [ChunkNext \/ Elsewhere]_vars => ChunkInv'
<1> SUFFICES ASSUME ChunkInv, [ChunkNext \/ Elsewhere]_vars PROVE ChunkInv'
  OBVIOUS
<1>1. CASE AddSample
  <2>1. sort = "samples" /\ sort' = sort /\ Len(input) < MaxLength["samples"]
    BY <1>1 DEF AddSample, Grow
  <2>2. PICK t \in Times, v \in Values :
          (input # <<>> => Last(input).t < t) /\ input' = Append(input, [t |-> t, v |-> v])
    BY <1>1 DEF AddSample, Grow
  <2> DEFINE x == [t |-> t, v |-> v]
             more == Append(input, x)
  <2>3. x \in Sample /\ x.t = t
    BY InputsAssumption DEF Sample
  <2>4. input \in Seq(Sample) /\ Ascending(input)
    BY <2>1 DEF ChunkInv
  <2>5. more \in Seq(Sample) /\ Ascending(more)
    <3> HIDE DEF x
    <3> QED
      BY <2>2, <2>3, <2>4, OneMoreSample
  <2>6. Len(more) <= MaxLength["samples"]
    <3>1. Len(more) = Len(input) + 1 /\ Len(input) \in Nat
      <4> HIDE DEF x
      <4> QED
        BY <2>3, <2>4, AppendProperties, LenProperties
    <3>2. MaxLength["samples"] \in Int
      BY InputsAssumption, Widths
    <3> HIDE DEF more
    <3> QED
      BY <2>1, <3>1, <3>2
  <2>7. input' = more
    BY <2>2
  <2> HIDE DEF more
  <2> QED
    BY <2>1, <2>5, <2>6, <2>7 DEF ChunkInv, Ascending
<1>2. CASE AddByte
  <2>1. sort = "bytes" /\ sort' = sort
    BY <1>2 DEF AddByte, Grow
  <2>2. PICK b \in Byte : input' = Append(input, b)
    BY <1>2 DEF AddByte, Grow
  <2>3. input' \in Seq(Byte)
    BY <2>1, <2>2, AppendProperties DEF ChunkInv
  <2> QED
    BY <2>1, <2>3 DEF ChunkInv
<1>3. CASE Damage
  <2> DEFINE bytes == EncodeChunk(input).bytes
  <2>1. sort = "samples" /\ sort' = "bytes" /\ Len(input) = DamagedLength /\ IntStream(input) # Failed
    BY <1>3 DEF Damage
  <2>2. PICK i \in DOMAIN bytes, b \in Byte : input' = [bytes EXCEPT ![i] = b]
    BY <1>3 DEF Damage
  <2>3. input # <<>>
    <3>1. DamagedLength # 0
      BY InputsAssumption
    <3> QED
      BY <2>1, <3>1
  <2>4. bytes \in Seq(Byte)
    BY <2>1, <2>3, InvSeals, EncodedIntsAreBytes
  <2> HIDE DEF bytes
  <2>5. i \in 1..Len(bytes)
    BY <2>2, <2>4, LenProperties
  <2>6. input' \in Seq(Byte)
    BY <2>2, <2>4, <2>5, ExceptSeq
  <2> QED
    BY <2>1, <2>6 DEF ChunkInv
<1>4. CASE StartOver
  <2>1. input' = <<>> /\ sort' = sort /\ Len(<<>>) = 0
    BY <1>4 DEF StartOver
  <2>2. <<>> \in Seq(Sample) /\ <<>> \in Seq(Byte) /\ 0 <= MaxLength["samples"]
    BY EmptySeq, InputsAssumption, Widths
  <2> QED
    BY <2>1, <2>2 DEF ChunkInv, Ascending
<1>5. CASE Elsewhere
  BY <1>5 DEF Elsewhere, ChunkInv
<1>6. CASE UNCHANGED vars
  BY <1>6 DEF vars, ChunkInv, Ascending
<1> QED
  BY <1>1, <1>2, <1>3, <1>4, <1>5, <1>6 DEF ChunkNext

LEMMA InputsInv == ChunkSpec => []ChunkInv
BY InitInv, StepInv, PTL DEF ChunkSpec

\* What was sealed comes back, every timestamp and every float, and the loader
\* takes it: for every width, radix and limit, and all samples.
THEOREM Lossless == ChunkSpec => []CodecLossless
<1>1. ChunkInv => CodecLossless
  <2> SUFFICES ASSUME ChunkInv, sort = "samples", input # <<>>
               PROVE  /\ DecodeChunk(EncodeChunk(input)) = {input}
                      /\ Accepted(EncodeChunk(input))
    BY DEF CodecLossless
  <2>1. Sealed(input)
    BY InvSeals
  <2> QED
    BY <2>1, ChunkComesBack, ChunkIsAccepted
<1> QED
  BY <1>1, InputsInv, PTL

\* Whatever the bytes and the header: a chunk that the loader takes has as many
\* samples as its header says.
THEOREM Whole == ChunkSpec => []AcceptedIsWhole
<1>1. ChunkInv => AcceptedIsWhole
  <2> SUFFICES ASSUME ChunkInv, sort = "bytes",
                      NEW first_t \in Times, NEW last_t \in Times,
                      NEW count \in 1..MaxLength["samples"]
               PROVE  LET chunk == [first_t |-> first_t, last_t |-> last_t, count |-> count,
                                    bytes |-> input]
                      IN  Accepted(chunk) => \A probe \in DecodeChunk(chunk) : Len(probe) = count
    BY DEF AcceptedIsWhole
  <2> DEFINE chunk == [first_t |-> first_t, last_t |-> last_t, count |-> count, bytes |-> input]
  <2>1. /\ chunk.bytes \in Seq(Byte) /\ chunk.first_t \in Int
        /\ chunk.count \in Nat \ {0} /\ chunk.count = count
    <3>1. input \in Seq(Byte)
      BY DEF ChunkInv
    <3>2. first_t \in Int /\ count \in Nat \ {0}
      BY InputsAssumption, Widths
    <3> QED
      BY <3>1, <3>2
  <2> HIDE DEF chunk
  <2>2. \A probe \in DecodeChunk(chunk) : Len(probe) = count
    BY <2>1, DecodedIsWhole
  <2> QED
    BY <2>2 DEF chunk
<1> QED
  BY <1>1, InputsInv, PTL

============================================================================
