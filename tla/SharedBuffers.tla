--------------------------- MODULE SharedBuffers ---------------------------
(***************************************************************************)
(* What sharing of buffers promises.  A buffer gathers pages while nobody  *)
(* holds it; it is either abandoned or handed to a first holder.  From     *)
(* then on its pages are fixed, holders come and go, and the pages go back *)
(* in the very step in which the last holder leaves.  There are no         *)
(* reference counts here, nor a kernel: only who holds what.               *)
(***************************************************************************)
CONSTANTS Pages, Buffers, Parties

VARIABLES
  free,   \* pages of no buffer
  held,   \* held[b]: the pages of b
  holders \* holders[b]: the parties that hold b

vars == <<free, held, holders>>

Init ==
  /\ free = Pages
  /\ held = [b \in Buffers |-> {}]
  /\ holders = [b \in Buffers |-> {}]

(* While nobody holds b, it gathers a page or gives up. *)
Gather(b, p) ==
  /\ holders[b] = {}
  /\ p \in free
  /\ free' = free \ {p}
  /\ held' = [held EXCEPT ![b] = @ \cup {p}]
  /\ UNCHANGED holders

GiveUp(b) ==
  /\ free' = free \cup held[b]
  /\ held' = [held EXCEPT ![b] = {}]

Abandon(b) ==
  /\ holders[b] = {}
  /\ GiveUp(b)
  /\ UNCHANGED holders

(* The first holder of a complete buffer. *)
Create(b, h) ==
  /\ holders[b] = {} /\ held[b] # {}
  /\ holders' = [holders EXCEPT ![b] = {h}]
  /\ UNCHANGED <<free, held>>

(* A buffer somebody holds is shared with one more party. *)
Acquire(b, h) ==
  /\ holders[b] # {} /\ h \notin holders[b]
  /\ holders' = [holders EXCEPT ![b] = @ \cup {h}]
  /\ UNCHANGED <<free, held>>

(* A holder passes its share on. *)
Pass(b, g, h) ==
  /\ g \in holders[b] /\ h \notin holders[b]
  /\ holders' = [holders EXCEPT ![b] = (@ \ {g}) \cup {h}]
  /\ UNCHANGED <<free, held>>

(* A holder leaves; with the last one the pages go back. *)
Drop(b, h) ==
  /\ h \in holders[b]
  /\ holders' = [holders EXCEPT ![b] = @ \ {h}]
  /\ IF holders[b] = {h} THEN GiveUp(b) ELSE UNCHANGED <<free, held>>

Next ==
  \E b \in Buffers :
    \/ \E p \in Pages : Gather(b, p)
    \/ Abandon(b)
    \/ \E h \in Parties : Create(b, h) \/ Acquire(b, h) \/ Drop(b, h)
    \/ \E g, h \in Parties : Pass(b, g, h)

Spec == Init /\ [][Next]_vars

=============================================================================
