---------------------------- MODULE MCSampleStore ----------------------------
(***************************************************************************)
(* Small instances of SampleStore for TLC, and the reads of SeriesQuery    *)
(* over every state such an instance reaches.                              *)
(***************************************************************************)
EXTENDS SeriesQuery

CONSTANTS k1, k2, k3, memory, cpu   \* model values

\* Two series of one metric and one of another.
MCNameOf == [k \in Keys |-> IF k = k3 THEN cpu ELSE memory]

=============================================================================
