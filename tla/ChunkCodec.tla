----------------------------- MODULE ChunkCodec -----------------------------
(***************************************************************************)
(* The bytes of a sealed chunk (src/chunk.rs): what `encode` makes of a    *)
(* run of samples, what `decode_into` makes of any bytes at all, and which *)
(* chunks src/snapshot.rs takes from a file.                               *)
(*                                                                         *)
(* Integers have WordBits bits where the code has 64, a byte of a varint   *)
(* carries PayloadBits where it has 7, scales are powers of Radix, not of  *)
(* ten.  A float is an integer, in units of Radix^-MaxScale, which comes   *)
(* back at every scale that leaves no fraction of it; or one of Odd, which *)
(* come back at none (negative zero, most fractions); or one of NotFinite. *)
(* The raw eight bytes of a float are one element of the stream.           *)
(***************************************************************************)
EXTENDS Integers, SequencesExt

CONSTANTS
  WordBits, PayloadBits, Radix,
  MaxScale,        \* MAX_SCALE
  Limit,           \* the 9e18 of int_stream
  Odd, NotFinite

\* b to the n, for b and n natural.
Power(b, n) ==
  LET power[i \in Nat] == IF i = 0 THEN 1 ELSE b * power[i - 1]
  IN  power[n]

Half == Power(2, WordBits - 1)
Word == -Half..Half - 1
More == Power(2, PayloadBits)     \* the flag of a byte that is not the last
Byte == 0..2 * More - 1

ASSUME CodecAssumption ==
  /\ WordBits \in Nat \ {0} /\ PayloadBits \in Nat \ {0}
  /\ Radix \in Nat \ {0, 1}
  /\ MaxScale \in Byte
  /\ Limit \in 0..Half

-----------------------------------------------------------------------------
\* zigzag, unzigzag: small numbers of either sign become small naturals.
Zigzag(n) == IF n >= 0 THEN 2 * n ELSE -(2 * n) - 1

Unzigzag(u) == IF u % 2 = 0 THEN u \div 2 ELSE -(u \div 2) - 1

\* put_uvarint
PutUvarint(u) ==
  LET put[n \in Nat] == IF n < More THEN <<n>>
                        ELSE <<More + (n % More)>> \o put[n \div More]
  IN  put[u]

\* What can fail yields a set: of one element, or none if it bails.
Failed == {}

\* The operator ? of the code.
Then(got, Continue(_)) == UNION {Continue(x) : x \in got}

\* checked_add, checked_sub: of numbers that were added or subtracted.
Checked(ns) == IF \A i \in DOMAIN ns : ns[i] \in Word THEN {ns} ELSE Failed

\* A parser is given the input and how much of it has been read, and yields a
\* value and how much has been read then.
Parsed(value, at) == {[value |-> value, at |-> at]}

TakeU8(input, at) ==
  IF at < Len(input) THEN Parsed(input[at + 1], at + 1) ELSE Failed

\* The last byte of a varint.
Ends(b) == b \in 0..More - 1

\* get_uvarint: a varint goes on to the first byte without the flag, which must
\* come while the shift is inside the word; bits shifted out of the word are
\* lost.
GetUvarint(input, at) ==
  LET ends == {i \in at + 1..Len(input) : Ends(input[i])}
      last == Min(ends)
      bits[i \in 1..last] ==
        (input[i] % More) + (IF i = last THEN 0 ELSE More * bits[i + 1])
  IN  IF ends # {} /\ (last - at - 1) * PayloadBits < WordBits
      THEN Parsed(bits[at + 1] % (2 * Half), last)
      ELSE Failed

-----------------------------------------------------------------------------
\* encode_stream: whichever of the two layouts is shorter.
Plain(values) == FlattenSeq([i \in DOMAIN values |-> PutUvarint(Zigzag(values[i]))])

\* The runs of equal values.
Runs(values) ==
  LET runs[i \in 0..Len(values)] ==
        IF i = 0 THEN <<>> ELSE
        LET before == runs[i - 1]
        IN  IF i > 1 /\ values[i] = values[i - 1]
            THEN [before EXCEPT ![Len(before)].length = @ + 1]
            ELSE Append(before, [value |-> values[i], length |-> 1])
  IN  runs[Len(values)]

PutRun(run) == PutUvarint(Zigzag(run.value)) \o PutUvarint(run.length)

PutRuns(runs) ==
  PutUvarint(Len(runs)) \o FlattenSeq([r \in DOMAIN runs |-> PutRun(runs[r])])

Shorter(rle, plain) == IF Len(rle) < Len(plain) THEN <<1>> \o rle ELSE <<0>> \o plain

EncodeStream(values) == Shorter(PutRuns(Runs(values)), Plain(values))

\* decode_stream, plain: a round of its loop, and `expected` of them.
GetValue(input, done) ==
  Then(GetUvarint(input, done.at), LAMBDA u :
    Parsed(Append(done.value, Unzigzag(u.value)), u.at))

DecodePlain(input, at, expected) ==
  LET done[i \in 0..expected] ==
        IF i = 0 THEN Parsed(<<>>, at)
        ELSE Then(done[i - 1], LAMBDA d : GetValue(input, d))
  IN  done[expected]

\* ... and run-length encoded.  The code adds up the length modulo 2^WordBits;
\* a run that slips through makes a result no memory holds: here, a failure
\* like the others.
GetRun(input, expected, done) ==
  Then(GetUvarint(input, done.at), LAMBDA u :
    Then(GetUvarint(input, u.at), LAMBDA count :
      IF Len(done.value) + count.value > expected THEN Failed
      ELSE Parsed(done.value \o [i \in 1..count.value |-> Unzigzag(u.value)], count.at)))

\* A variant with a bug, for mutation runs: runs that fill less than was
\* expected are taken.
RunsFitLoosely(done, expected) == Len(done.value) <= expected

RunsFit(done, expected) == Len(done.value) = expected

DecodeRuns(input, at, expected) ==
  Then(GetUvarint(input, at), LAMBDA runs :
    LET done[r \in 0..runs.value] ==
          IF r = 0 THEN Parsed(<<>>, runs.at)
          ELSE Then(done[r - 1], LAMBDA d : GetRun(input, expected, d))
    IN  {d \in done[runs.value] : RunsFit(d, expected)})

DecodeStream(input, at, expected) ==
  Then(TakeU8(input, at), LAMBDA mode :
    CASE mode.value = 0 -> DecodePlain(input, mode.at, expected)
      [] mode.value = 1 -> DecodeRuns(input, mode.at, expected)
      [] OTHER          -> Failed)

-----------------------------------------------------------------------------
\* n / Radix^scale as a float.
Float(n, scale) == n * Power(Radix, MaxScale - scale)

Scaled(v) == v \notin Odd /\ v \notin NotFinite

\* v * Radix^scale is not finite, or beyond the limit.
TooLarge(v, scale) ==
  \/ v \in NotFinite
  \/ Scaled(v) /\ (IF v < 0 THEN -v ELSE v) * Power(Radix, scale)
                      >= Limit * Power(Radix, MaxScale)

\* v * Radix^scale, rounded and divided again, is v to the bit.
ComesBack(v, scale) == Scaled(v) /\ v % Power(Radix, MaxScale - scale) = 0

At(v, scale) == v \div Power(Radix, MaxScale - scale)

\* The samples at which the attempt at a scale ends, and whether the first of
\* them ends all attempts.
Stops(samples, scale) ==
  {i \in DOMAIN samples : \/ TooLarge(samples[i].v, scale)
                          \/ ~ComesBack(samples[i].v, scale)}

GivesUp(samples, scale) ==
  /\ Stops(samples, scale) # {}
  /\ TooLarge(samples[Min(Stops(samples, scale))].v, scale)

\* The first scale at which every value comes back, unless one before it gives
\* up.
ScaleOf(samples) ==
  {s \in 0..MaxScale :
     /\ Stops(samples, s) = {}
     /\ \A r \in 0..s - 1 : Stops(samples, r) # {} /\ ~GivesUp(samples, r)}

\* The differences of consecutive numbers.
Differences(ns) == [i \in 1..Len(ns) - 1 |-> ns[i + 1] - ns[i]]

\* A variant with a bug, for mutation runs: the second differences are not
\* checked for overflow.
DeltasOfDeltasUnchecked(ints) ==
  Then(Checked(Differences(ints)), LAMBDA deltas : {Differences(<<0>> \o deltas)})

DeltasOfDeltas(ints) ==
  Then(Checked(Differences(ints)), LAMBDA deltas :
    Checked(Differences(<<0>> \o deltas)))

\* int_stream: the scale, the first value and the second differences.
IntStream(samples) ==
  Then(ScaleOf(samples), LAMBDA scale :
    Then(DeltasOfDeltas([i \in DOMAIN samples |-> At(samples[i].v, scale)]), LAMBDA dods :
      {[scale |-> scale, first |-> At(samples[1].v, scale), dods |-> dods]}))

TimesOf(samples)  == [i \in DOMAIN samples |-> samples[i].t]
ValuesOf(samples) == [i \in DOMAIN samples |-> samples[i].v]

PutInts(ints) ==
  <<0, ints.scale>> \o (PutUvarint(Zigzag(ints.first)) \o EncodeStream(ints.dods))

PutRaw(values) == <<1>> \o values

EncodeValues(samples) ==
  IF IntStream(samples) = Failed THEN PutRaw(ValuesOf(samples))
  ELSE PutInts(CHOOSE ints \in IntStream(samples) : TRUE)

\* encode.  The differences of clock readings, which are not negative, do not
\* overflow.
EncodeChunk(samples) ==
  [first_t |-> Head(samples).t, last_t |-> Last(samples).t, count |-> Len(samples),
   bytes   |-> EncodeStream(Differences(TimesOf(samples)))
                 \o EncodeValues(samples)]

-----------------------------------------------------------------------------
\* start, start + steps[1], start + steps[1] + steps[2], ...
Running(start, steps) ==
  LET sum[i \in 0..Len(steps)] == IF i = 0 THEN start ELSE sum[i - 1] + steps[i]
  IN  [i \in 1..Len(steps) + 1 |-> sum[i - 1]]

Paired(times, values) == [i \in DOMAIN values |-> [t |-> times[i], v |-> values[i]]]

\* The values of `times`, as scaled integers.
DecodeInts(input, at, times) ==
  Then(TakeU8(input, at), LAMBDA scale :
    IF scale.value > MaxScale THEN Failed ELSE
    Then(GetUvarint(input, scale.at), LAMBDA first :
      Then(DecodeStream(input, first.at, Len(times) - 1), LAMBDA dods :
        Then(Checked(Running(0, dods.value)), LAMBDA deltas :
          Then(Checked(Running(Unzigzag(first.value), Tail(deltas))), LAMBDA ints :
            {Paired(times, [i \in DOMAIN ints |-> Float(ints[i], scale.value)])})))))

\* ... and as raw floats.
DecodeRaw(input, at, times) ==
  IF Len(input) < at + Len(times) THEN Failed
  ELSE {Paired(times, SubSeq(input, at + 1, at + Len(times)))}

\* decode_into, of a chunk whose count is not zero.
DecodeChunk(chunk) ==
  Then(DecodeStream(chunk.bytes, 0, chunk.count - 1), LAMBDA deltas :
    Then(Checked(Running(chunk.first_t, deltas.value)), LAMBDA times :
      Then(TakeU8(chunk.bytes, deltas.at), LAMBDA mode :
        CASE mode.value = 0 -> DecodeInts(chunk.bytes, mode.at, times)
          [] mode.value = 1 -> DecodeRaw(chunk.bytes, mode.at, times)
          [] OTHER          -> Failed)))

\* snapshot::load takes a chunk that decodes to ascending times from first_t
\* to last_t.
Plausible(chunk) == chunk.count # 0 /\ chunk.first_t <= chunk.last_t

Agrees(chunk, probe) ==
  /\ Head(probe).t = chunk.first_t /\ Last(probe).t = chunk.last_t
  /\ \A i \in 1..Len(probe) - 1 : probe[i].t < probe[i + 1].t

Accepted(chunk) ==
  Plausible(chunk) /\ \E probe \in DecodeChunk(chunk) : Agrees(chunk, probe)

=============================================================================
