--------------------------- MODULE MCPageExporter ---------------------------
(* Instances of PageExporter for TLC. *)
EXTENDS PageExporter, TLC

(* The stages of dma-buf/ that keep their buffer in dmabuf_exported. *)
AllStages == 2..8

(* Threads, descriptors and buffers are interchangeable. *)
Symmetry == Permutations(Threads) \cup Permutations(Fds) \cup Permutations(Buffers)

=============================================================================
