------------------------------ MODULE MCDaemon ------------------------------
(***************************************************************************)
(* Small instances of Daemon for TLC.                                      *)
(***************************************************************************)
EXTENDS Daemon, TLC

CONSTANTS q1, q2, c, m   \* model values

\* The query handlers are interchangeable.
QuerySymmetry == Permutations(Queries)

=============================================================================
