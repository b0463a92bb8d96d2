--------------------------- MODULE MCSnapshotFile ---------------------------
(***************************************************************************)
(* Small instances of SnapshotFile for TLC.                                *)
(***************************************************************************)
EXTENDS SnapshotFile, TLC

CONSTANTS i1, i2, i3, i4   \* model values

\* Nothing tells one file from another but its name.
InodeSymmetry == Permutations(Inodes)

=============================================================================
