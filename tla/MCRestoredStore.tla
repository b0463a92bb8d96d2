-------------------------- MODULE MCRestoredStore --------------------------
(***************************************************************************)
(* Small instances of RestoredStore for TLC.                               *)
(***************************************************************************)
EXTENDS RestoredStore, TLC

CONSTANTS k1, memory   \* model values

MCNameOf == [k \in Keys |-> memory]

\* What an earlier release may have left of a series: nothing, a head, a
\* chunk and a head, two chunks.
MCOldHistories == {<<>>, <<1>>, <<0, 1, 4>>, <<1, 2, 3, 4>>}

=============================================================================
