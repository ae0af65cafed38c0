----------------------------- MODULE MCMmapTest -----------------------------
(* Instances of MmapTest for TLC: two processes, one with a second thread. *)
EXTENDS MmapTest, TLC

CONSTANTS p1, p2, m1, m2, h1

TwoAndOne == [t \in {m1, h1} |-> p1] @@ [t \in {m2} |-> p2]
OneAndOne == [t \in {m1} |-> p1] @@ [t \in {m2} |-> p2]
Mains == (p1 :> m1) @@ (p2 :> m2)

=============================================================================
