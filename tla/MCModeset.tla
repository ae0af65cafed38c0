----------------------------- MODULE MCModeset ------------------------------
(* An instance of Modeset for TLC: words of 6 bits, so that the bits of a  *)
(* row overflow with the sizes below.                                      *)
EXTENDS Modeset, TLC

CONSTANTS p1, p2

(* The second process runs what differs in its effect on the first. *)
OneRunsAll == (p1 :> AllPrograms) @@ (p2 :> {atomic_crtc, my_gem})

SmallRequests == [width: {1, 2, 4, 5}, height: {1, 3}, bpp: {4, 12, 16}]

=============================================================================
