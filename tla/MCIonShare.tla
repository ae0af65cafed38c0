----------------------------- MODULE MCIonShare -----------------------------
(* Instances of IonShare for TLC. *)
EXTENDS IonShare, TLC

(* Threads, descriptors, buffers and pages are interchangeable.  Sound for *)
(* the safety properties only.                                             *)
Symmetry ==
  Permutations(Threads) \cup Permutations(Fds)
    \cup Permutations(Buffers) \cup Permutations(Pages)

=============================================================================
