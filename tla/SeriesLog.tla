------------------------------ MODULE SeriesLog ------------------------------
(***************************************************************************)
(* What the store promises its readers, with nothing said of chunks, heads *)
(* or indexes: per series a set of timestamps that grows only at its new   *)
(* end and is forgotten only from its old end, and of which nothing inside *)
(* the retention window is ever lost.  A sample that has aged out may be   *)
(* kept for a while; a series none of whose samples is inside the window   *)
(* is forgotten entirely.                                                  *)
(***************************************************************************)
EXTENDS Integers

CONSTANTS Keys, Retention, MaxTime

VARIABLES
  log,      \* Keys -> the timestamps held
  started,  \* the clock reading of the current or the latest pass
  inPass

vars == <<log, started, inPass>>

Init ==
  /\ log = [k \in Keys |-> {}]
  /\ started \in 0..MaxTime
  /\ inPass = FALSE

\* A pass starts at whatever the clock reads, which may be earlier than
\* before.
Begin ==
  /\ ~inPass
  /\ started' \in 0..MaxTime
  /\ inPass' = TRUE
  /\ UNCHANGED log

\* A sample is taken only when it is newer than all the series holds.
Record(k) ==
  /\ inPass
  /\ \A t \in log[k] : t < started
  /\ log' = [log EXCEPT ![k] = @ \cup {started}]
  /\ UNCHANGED <<started, inPass>>

\* The pass ends: only samples older than the window may go, oldest first,
\* and a series with nothing in the window goes entirely.
Aged(old, new, cutoff) ==
  /\ new \subseteq old
  /\ \A t \in old \ new : t < cutoff /\ \A u \in new : t < u
  /\ (\A t \in old : t < cutoff) => new = {}

Age ==
  /\ inPass
  /\ \A k \in Keys : Aged(log[k], log'[k], started - Retention)
  /\ DOMAIN log' = Keys
  /\ inPass' = FALSE
  /\ UNCHANGED started

Next == Begin \/ (\E k \in Keys : Record(k)) \/ Age

Spec == Init /\ [][Next]_vars

=============================================================================
