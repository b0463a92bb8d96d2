----------------------------- MODULE ChunkInputs ----------------------------
(***************************************************************************)
(* What the codec is given: samples as the store seals them, one after the *)
(* other; bytes as a damaged file may hold them, from nothing or from what *)
(* was encoded.  Inputs of other sorts are not its concern.                *)
(***************************************************************************)
EXTENDS ChunkCodec

CONSTANTS
  Times,                \* clock readings
  Values,               \* floats
  MaxLength,            \* bound: how long the inputs of each sort grow
  DamagedLength         \* bound: samples in a chunk that is damaged

\* A clock that counts seconds reads no negative number, and a chunk has fewer
\* samples than a word tells apart.
ASSUME InputsAssumption ==
  /\ Times \subseteq 0..Half - 1
  /\ \A v \in Values : v \in Odd \/ v \in NotFinite \/ v \in Int
  /\ MaxLength["samples"] \in 0..2 * Half - 1
  /\ DamagedLength \in Nat \ {0}

VARIABLES sort, input

vars == <<sort, input>>

Init == sort \in DOMAIN MaxLength /\ input = <<>>

Grow(xs) ==
  /\ Len(input) < MaxLength[sort]
  /\ \E x \in xs : input' = Append(input, x)
  /\ UNCHANGED sort

AddSample ==
  /\ sort = "samples"
  /\ Grow({[t |-> t, v |-> v] :
             t \in {x \in Times : input # <<>> => Last(input).t < x}, v \in Values})

AddByte == sort = "bytes" /\ Grow(Byte)

\* A byte of a chunk on the disk is replaced, whatever the header then says.
Damage ==
  /\ sort = "samples" /\ Len(input) = DamagedLength /\ IntStream(input) # Failed
  /\ \E i \in DOMAIN EncodeChunk(input).bytes, b \in Byte :
       input' = [EncodeChunk(input).bytes EXCEPT ![i] = b]
  /\ sort' = "bytes"

StartOver == input # <<>> /\ input' = <<>> /\ UNCHANGED sort

ChunkNext == AddSample \/ AddByte \/ Damage \/ StartOver

\* Inputs of other sorts become what they like.
Elsewhere == sort \notin {"samples", "bytes"} /\ UNCHANGED sort

ChunkSpec == Init /\ [][ChunkNext \/ Elsewhere]_vars

-----------------------------------------------------------------------------
\* "Lossless": whatever was sealed comes back, every timestamp and every
\* float to the bit, whichever layouts were chosen on the way; and the loader
\* takes it.
CodecLossless ==
  sort = "samples" /\ input # <<>> =>
    /\ DecodeChunk(EncodeChunk(input)) = {input}
    /\ Accepted(EncodeChunk(input))

\* "A mutated chunk is rejected rather than trusted": whatever the bytes and
\* the header, a chunk that the loader takes is readable end to end and has as
\* many samples as the header says.
AcceptedIsWhole ==
  sort = "bytes" =>
    \A first_t, last_t \in Times, count \in 1..MaxLength["samples"] :
      LET chunk == [first_t |-> first_t, last_t |-> last_t, count |-> count,
                    bytes |-> input]
      IN  Accepted(chunk) => \A probe \in DecodeChunk(chunk) : Len(probe) = count

=============================================================================
