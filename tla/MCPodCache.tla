----------------------------- MODULE MCPodCache -----------------------------
(***************************************************************************)
(* Small instances of PodCache for TLC.                                    *)
(***************************************************************************)
EXTENDS PodCache, TLC

CONSTANTS c1, c2, n1, n2, old, new   \* model values

\* Two containers on two nodes; or both on one.
Apart    == c1 :> n1 @@ c2 :> n2
Together == c1 :> n1 @@ c2 :> n1

\* Every pod of a name runs one image; or images change from pod to pod and
\* when they are resolved.
Stable   == c1 :> {old} @@ c2 :> {new}
Changing == c1 :> {old, new} @@ c2 :> {old}

Quiet  == [failing |-> {}, imagesOf |-> Changing, readings |-> 0..3]
Steady == [failing |-> {"nodes", "stats"}, imagesOf |-> Stable, readings |-> {0, 1, 3}]
Rough  == [failing |-> {"nodes", "pods", "stats"}, imagesOf |-> Changing,
           readings |-> {0, 2}]

QuietWorlds == {Quiet}
BothWorlds  == {Steady, Rough}

=============================================================================
