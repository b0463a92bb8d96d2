----------------------------- MODULE AtomicFile -----------------------------
(***************************************************************************)
(* What a snapshot file has to be to the process that keeps its state in   *)
(* it: one register, always readable, replaced as a whole.  A crash of the *)
(* process leaves it alone.  A loss of power may take it back to the last  *)
(* replacement the disk is known to hold, never further and never to       *)
(* something in between.                                                   *)
(*                                                                         *)
(* A snapshot is represented by the number of the save that wrote it; 0 is *)
(* no file.                                                                *)
(***************************************************************************)
EXTENDS Naturals

CONSTANT MaxSaves   \* bound: saves are numbered 1..MaxSaves

VARIABLES
  visible,   \* the snapshot a process would load now
  durable    \* the snapshot a process would load after a loss of power

vars == <<visible, durable>>

Init == visible = 0 /\ durable = 0

\* A later snapshot takes the place of the present one.
Replace ==
  /\ visible' \in 1..MaxSaves
  /\ visible' > visible
  /\ UNCHANGED durable

\* The file system has caught up.
Persist == durable' = visible /\ UNCHANGED visible

PowerLoss == visible' = durable /\ UNCHANGED durable

Next == Replace \/ Persist \/ PowerLoss

Spec == Init /\ [][Next]_vars

=============================================================================
