------------------------------ MODULE FlipChain ------------------------------
(***************************************************************************)
(* What page flipping promises to an application: a flip is requested when *)
(* no other is outstanding, the requested buffer is shown, and in the very *)
(* step in which it appears its one event becomes readable.  Setting a     *)
(* mode or turning the display off changes what is shown without an event. *)
(***************************************************************************)
EXTENDS Naturals

CONSTANTS Fbs, None

VARIABLES
  open,      \* an application has the device open
  front,     \* the buffer that is shown
  requested, \* buffers of flips that are requested and not shown
  events     \* events of flips shown, not yet read

vars == <<open, front, requested, events>>

Init == open = FALSE /\ front = None /\ requested = {} /\ events = 0

Idle == requested = {} /\ events = 0

Open ==
  /\ ~open /\ open' = TRUE
  /\ UNCHANGED <<front, requested, events>>

Request(fb) ==
  /\ open /\ Idle
  /\ requested' = {fb}
  /\ UNCHANGED <<open, front, events>>

Complete(fb) ==
  /\ requested = {fb}
  /\ front' = fb /\ requested' = {} /\ events' = 1
  /\ UNCHANGED open

(* A driver that flips inside the call. *)
FlipNow(fb) ==
  /\ open /\ Idle
  /\ front' = fb /\ events' = 1
  /\ UNCHANGED <<open, requested>>

Read ==
  /\ open
  /\ events = 1 /\ events' = 0
  /\ UNCHANGED <<open, front, requested>>

(* No flip is lost by setting a mode or turning the display off. *)
SetFront(fb) ==
  /\ requested = {}
  /\ front' = fb
  /\ UNCHANGED <<open, requested, events>>

(* Only closing the device drops a flip or an event. *)
Close ==
  /\ open /\ open' = FALSE
  /\ requested' = {} /\ events' = 0
  /\ UNCHANGED front

Next ==
  \/ Open
  \/ \E fb \in Fbs : Request(fb) \/ Complete(fb) \/ FlipNow(fb)
  \/ \E fb \in Fbs \cup {None} : SetFront(fb)
  \/ Read
  \/ Close

Spec == Init /\ [][Next]_vars

=============================================================================
