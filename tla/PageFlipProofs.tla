--------------------------- MODULE PageFlipProofs ---------------------------
(* Theorems about PageFlip, for every value of its constants. *)
EXTENDS PageFlip, TLAPS

-----------------------------------------------------------------------------
(* Slots.                                                                  *)

(* There are two slots: the newest one and the other one. *)
LEMMA TwoSlots ==
  ASSUME newest \in Slots
  PROVE  /\ 1 - newest \in Slots /\ 1 - newest # newest
         /\ 1 - (1 - newest) = newest
         /\ \A s \in Slots : s = newest \/ s = 1 - newest
BY DEF Slots

(* A user commit is the newest one and not flushed. *)
LEMMA RequestedNewest ==
  ASSUME IInv
  PROVE  /\ Requested \subseteq {newest}
         /\ commits[newest].phase # "queued" => Requested = {}
BY TwoSlots DEF IInv, TypeOK, CommitInv, Requested, HwDone

(* The states are swapped only when no flip is on its way. *)
LEMMA SwapRequested ==
  ASSUME IInv, NEW kind \in Kinds, NEW fb \in Fbs \cup {None}, NEW user \in BOOLEAN,
         SwapState(kind, fb, user)
  PROVE  /\ Requested = {}
         /\ Requested' = IF user THEN {newest'} ELSE {}
         /\ commits'[newest'] = [phase |-> "queued", kind |-> kind, fb |-> fb, user |-> user]
         /\ commits'[1 - newest'] = commits[newest]
         /\ newest' \in Slots
<1>1. Requested = {}
  BY RequestedNewest DEF SwapState, HwDone
<1>2. /\ newest \in Slots /\ newest' = 1 - newest
      /\ commits \in [Slots -> Commits]
      /\ commits' = [commits EXCEPT ![1 - newest] =
           [phase |-> "queued", kind |-> kind, fb |-> fb, user |-> user]]
  BY DEF SwapState, IInv, TypeOK
<1>3. /\ commits'[newest'] = [phase |-> "queued", kind |-> kind, fb |-> fb, user |-> user]
      /\ commits'[1 - newest'] = commits[newest]
      /\ newest' \in Slots
  BY <1>2, TwoSlots
<1>4. commits[newest].user = FALSE
  BY <1>1, <1>2 DEF Requested, Commits
<1>5. \A s \in Slots : s = newest' \/ s = newest
  BY <1>2 DEF Slots
<1>6. commits'[newest] = commits[newest] /\ newest # newest'
  BY <1>2, TwoSlots
<1> QED
  BY <1>1, <1>2, <1>3, <1>4, <1>5, <1>6 DEF Requested

(* A request that is accepted makes the newest commit a user commit, or,   *)
(* without atomic modesetting, shows the buffer at once.                   *)
LEMMA FlipEffect ==
  ASSUME IInv, NEW fb \in Fbs, drmModePageFlip(fb), ~Busy
  PROVE  \/ driver = "vkms_drv" /\ SwapState("flip", fb, TRUE) /\ failed' = failed
         \/ driver = "vkms_drv_5" /\ vkms_crtc_page_flip(fb) /\ failed' = failed
         \/ UNCHANGED kmsVars /\ failed'
BY DEF drmModePageFlip, IInv, TypeOK, Drivers

-----------------------------------------------------------------------------
(* Types.                                                                  *)

(* What the application and the kernel do to the state of the commits.     *)
CommitType ==
  /\ plane \in Fbs \cup {None} /\ front \in Fbs \cup {None}
  /\ events \in Nat
  /\ commits \in [Slots -> Commits] /\ newest \in Slots

VblankType ==
  /\ off \in BOOLEAN /\ enabled \in BOOLEAN
  /\ timer \in {"idle", "armed", "fired"}
  /\ callback \in {"idle", "running", "handled"}
  /\ lock \in {"free", "disable_timer", "vblank_off"}

(* Swapping the states keeps the types. *)
LEMMA SwapType ==
  ASSUME CommitType, NEW kind \in Kinds, NEW fb \in Fbs \cup {None}, NEW user \in BOOLEAN,
         SwapState(kind, fb, user)
  PROVE  CommitType'
<1>1. [phase |-> "queued", kind |-> kind, fb |-> fb, user |-> user] \in Commits
  BY DEF Commits, Phases
<1> QED
  BY <1>1, TwoSlots DEF CommitType, SwapState

(* Moving a commit on keeps the types. *)
LEMMA AdvanceType ==
  ASSUME CommitType, NEW s \in Slots, NEW from, NEW to \in Phases, Advance(s, from, to),
         UNCHANGED <<plane, front, events, newest>>
  PROVE  CommitType'
<1>1. [commits[s] EXCEPT !.phase = to] \in Commits
  BY DEF CommitType, Commits
<1>2. commits' = [commits EXCEPT ![s] = [commits[s] EXCEPT !.phase = to]]
  BY DEF Advance, CommitType
<1> QED
  BY <1>1, <1>2 DEF CommitType

-----------------------------------------------------------------------------
(* What a step does to the driver and the commits.                         *)

(* When the application requests a flip no commit is in its way. *)
LEMMA NotBusy ==
  ASSUME IInv
  PROVE  NeverBusy
<1>1. CASE app = "flip"
  BY <1>1 DEF IInv, AppInv, NeverBusy, Busy
<1>2. CASE app = "handler" /\ driver = "vkms_drv"
  <2>1. commits[newest].phase \notin {"queued", "disabled"}
    BY <1>2, RequestedNewest DEF IInv, TypeOK, AppInv, NoFlip, LastFlip, Requested
  <2> QED
    BY <2>1 DEF NeverBusy, Busy
<1>3. CASE driver = "vkms_drv_5"
  BY <1>3 DEF IInv, TypeOK, CommitInv, NeverBusy, Busy
<1> QED
  BY <1>1, <1>2, <1>3 DEF NeverBusy, IInv, TypeOK, Drivers

Swapped(kind, fb, user) == driver = "vkms_drv" /\ SwapState(kind, fb, user)

ShownAtOnce(fb) ==
  driver = "vkms_drv_5" /\ (vkms_crtc_page_flip(fb) \/ LegacySetCrtc(fb))

KmsEffect ==
  \/ UNCHANGED kmsVars
  \/ \E kind \in Kinds, fb \in Fbs \cup {None}, user \in BOOLEAN :
       (user => kind = "flip" /\ fb \in Fbs) /\ Swapped(kind, fb, user)
  \/ \E fb \in Fbs \cup {None} : ShownAtOnce(fb)
  \/ drmHandleEvent
  \/ Close
  \/ \E s \in Slots : CommitTail(s)
  \/ Timer
  \/ DisableTimer
  \/ DisableTimerEnds

(* Every step has one of these effects. *)
LEMMA NextEffect ==
  ASSUME IInv, [Next]_vars
  PROVE  KmsEffect
<1>1. 0 \in Fbs /\ 1 \in Fbs
  BY FbAssumption
<1>2. CASE SetCrtc
  BY <1>1, <1>2 DEF SetCrtc, KmsEffect, Swapped, Kinds
<1>3. CASE SetCrtcLegacy
  BY <1>1, <1>3 DEF SetCrtcLegacy, KmsEffect, ShownAtOnce
<1>4. CASE FirstFlip
  <2>1. ~Busy
    BY <1>4, NotBusy DEF FirstFlip, AppGoto, NeverBusy
  <2> QED
    BY <1>1, <1>4, <2>1, FlipEffect DEF FirstFlip, KmsEffect, Swapped, ShownAtOnce, Kinds
<1>5. CASE modeset_page_flip_handler
  <2>1. ~Busy /\ i' \in Fbs
    BY <1>5, NotBusy, FbAssumption
    DEF modeset_page_flip_handler, AppGoto, NeverBusy, IInv, TypeOK
  <2> QED
    BY <1>5, <2>1, FlipEffect
    DEF modeset_page_flip_handler, KmsEffect, Swapped, ShownAtOnce, Kinds
<1>6. ASSUME NEW fb, NEW at, NEW wait, NEW next, RmFb(fb, at, wait, next)
      PROVE  KmsEffect
  BY <1>6 DEF RmFb, KmsEffect, Swapped, ShownAtOnce, Kinds
<1>7. CASE UNCHANGED kmsVars
  BY <1>7 DEF KmsEffect
<1>8. CASE KernelTimer \/ \E s \in Slots : KernelCommit(s)
  BY <1>8 DEF KernelTimer, KernelCommit, KmsEffect
<1> QED
  BY <1>2, <1>3, <1>4, <1>5, <1>6, <1>7, <1>8
  DEF Next, AppStep, Start, SetCrtcFails, SetCrtcReturns, LoopAgain, WakeUp, LeaveLoop,
    RmFbReturns, sigint_handler, vars, KmsEffect

-----------------------------------------------------------------------------
(* Each part of the invariant.                                             *)

(* A part of the commits' path keeps the types. *)
LEMMA CommitTailType ==
  ASSUME IInv, NEW s \in Slots, CommitTail(s)
  PROVE  CommitType' /\ VblankType' /\ UNCHANGED <<driver, smp>>
<1> CommitType /\ VblankType
  BY DEF CommitType, VblankType, IInv, TypeOK
<1>1. CASE VblankOffBegins(s)
  BY <1>1 DEF VblankOffBegins, DisableBegins, commitVars, CommitType, VblankType
<1>2. CASE VblankOffEnds(s)
  BY <1>2, AdvanceType DEF VblankOffEnds, vkms_disable_vblank, VblankType, Phases
<1>3. CASE vkms_crtc_atomic_flush(s)
  <2>1. commits[s] \in Commits
    BY DEF CommitType
  <2>2. /\ [commits[s] EXCEPT !.phase = "flushed", !.user = FALSE] \in Commits
        /\ commits[s].fb \in Fbs \cup {None}
    BY <2>1 DEF Commits, Phases
  <2>3. commits' = [commits EXCEPT ![s] = [commits[s] EXCEPT !.phase = "flushed", !.user = FALSE]]
    BY <1>3 DEF vkms_crtc_atomic_flush, CommitType
  <2> QED
    BY <1>3, <2>2, <2>3 DEF vkms_crtc_atomic_flush, CommitType, VblankType, vblankVars
<1>4. CASE vkms_crtc_atomic_enable(s)
  BY <1>4, AdvanceType DEF vkms_crtc_atomic_enable, VblankType, Phases
<1>5. CASE CommitHwDone(s)
  BY <1>5, AdvanceType DEF CommitHwDone, VblankType, vblankVars, Phases
<1>6. CASE WaitForVblank(s)
  BY <1>6, AdvanceType DEF WaitForVblank, vkms_enable_vblank, VblankType, Phases
<1>7. CASE CleanupDone(s)
  BY <1>7, AdvanceType DEF CleanupDone, VblankType, vblankVars, Phases
<1> QED
  BY <1>1, <1>2, <1>3, <1>4, <1>5, <1>6, <1>7 DEF CommitTail

(* The vblank timer keeps the types. *)
LEMMA TimerType ==
  ASSUME IInv, Timer \/ DisableTimer \/ DisableTimerEnds
  PROVE  CommitType' /\ VblankType' /\ UNCHANGED <<driver, smp>>
<1> CommitType /\ VblankType
  BY DEF CommitType, VblankType, IInv, TypeOK
<1>1. CASE HandleVblank
  <2>1. \A s \in Slots : commits[s] \in Commits
    BY DEF CommitType
  <2>2. \A s \in Slots : [commits[s] EXCEPT !.phase = "woken"] \in Commits
    BY <2>1 DEF Commits, Phases
  <2> QED
    BY <1>1, <2>1, <2>2 DEF HandleVblank, CommitType, VblankType
<1>2. CASE TimerFires \/ vkms_vblank_simulate \/ DisableTimer \/ DisableTimerEnds
  BY <1>2 DEF TimerFires, vkms_vblank_simulate, DisableTimer, DisableBegins, DisableTimerEnds,
    vkms_disable_vblank, commitVars, CommitType, VblankType
<1> QED
  BY <1>1, <1>2 DEF Timer

(* Every step keeps the types. *)
LEMMA TypeStep ==
  ASSUME IInv, [Next]_vars
  PROVE  TypeOK'
<1> CommitType /\ VblankType /\ i \in Fbs
  BY DEF CommitType, VblankType, IInv, TypeOK
<1>1. CommitType' /\ VblankType' /\ UNCHANGED <<driver, smp>>
  <2>1. CASE UNCHANGED kmsVars
    BY <2>1 DEF kmsVars, commitVars, vblankVars, CommitType, VblankType
  <2>2. ASSUME NEW kind \in Kinds, NEW fb \in Fbs \cup {None}, NEW user \in BOOLEAN,
               Swapped(kind, fb, user)
        PROVE  CommitType' /\ VblankType' /\ UNCHANGED <<driver, smp>>
    <3>1. CommitType'
      BY <2>2, SwapType DEF Swapped
    <3> QED
      BY <2>2, <3>1 DEF Swapped, SwapState, vblankVars, VblankType
  <2>3. CASE \E fb \in Fbs \cup {None} : ShownAtOnce(fb)
    BY <2>3 DEF ShownAtOnce, vkms_crtc_page_flip, LegacySetCrtc, vblankVars, CommitType, VblankType
  <2>4. CASE drmHandleEvent
    BY <2>4 DEF drmHandleEvent, vblankVars, CommitType, VblankType
  <2>5. CASE Close
    <3>1. \A s \in Slots : commits[s] \in Commits
      BY DEF CommitType
    <3>2. \A s \in Slots : [commits[s] EXCEPT !.user = FALSE] \in Commits
      BY <3>1 DEF Commits
    <3> QED
      BY <2>5, <3>2 DEF Close, vblankVars, CommitType, VblankType
  <2> QED
    BY <2>1, <2>2, <2>3, <2>4, <2>5, NextEffect, CommitTailType, TimerType DEF KmsEffect
<1>2. /\ app' \in AppStates /\ terminate' \in BOOLEAN /\ i' \in Fbs
      /\ fbs' \subseteq Fbs /\ failed' \in BOOLEAN
  <2>1. CASE UNCHANGED <<app, terminate, i, fbs, failed>>
    BY <2>1 DEF IInv, TypeOK
  <2>2. CASE Start \/ modeset_page_flip_handler
    <3>1. i' = 0 \/ i' = 1
      BY <2>2, FbAssumption DEF Start, modeset_page_flip_handler
    <3> QED
      BY <2>2, <3>1, FbAssumption
      DEF Start, modeset_page_flip_handler, drmModePageFlip, AppGoto, AppStates, IInv, TypeOK
  <2>3. CASE SetCrtc \/ SetCrtcFails \/ SetCrtcReturns \/ SetCrtcLegacy \/ FirstFlip
          \/ LoopAgain \/ drmHandleEvent
    BY <2>3 DEF SetCrtc, SetCrtcFails, SetCrtcReturns, SetCrtcLegacy, FirstFlip, LoopAgain,
      drmHandleEvent, drmModePageFlip, AppGoto, AppStates, IInv, TypeOK
  <2>4. CASE WakeUp \/ sigint_handler \/ LeaveLoop \/ Close
    BY <2>4 DEF WakeUp, sigint_handler, LeaveLoop, Close, AppGoto, AppStates, IInv, TypeOK
  <2>5. CASE RmFb(1, "rm1", "rm1_wait", "rm0") \/ RmFbReturns("rm1_wait", "rm0")
          \/ RmFb(0, "rm0", "rm0_wait", "close") \/ RmFbReturns("rm0_wait", "close")
    BY <2>5 DEF RmFb, RmFbReturns, AppGoto, AppStates, IInv, TypeOK
  <2> QED
    BY <2>1, <2>2, <2>3, <2>4, <2>5
    DEF Next, AppStep, KernelCommit, KernelTimer, appVars, vars
<1> QED
  BY <1>1, <1>2 DEF CommitType, VblankType, IInv, TypeOK

(* Every step keeps the timer in step with the enabling of vblanks.        *)
LEMMA TimerStep ==
  ASSUME IInv, [Next]_vars
  PROVE  TimerInv'
<1> USE DEF TimerInv, TimerFollowsVblank
<1> TimerInv /\ callback \in {"idle", "running", "handled"} /\ timer \in {"idle", "armed", "fired"}
  BY DEF IInv, TypeOK
<1>1. CASE UNCHANGED vblankVars
  BY <1>1 DEF vblankVars
<1>2. ASSUME NEW s \in Slots, CommitTail(s)
      PROVE  TimerInv'
  <2>1. CASE VblankOffBegins(s) \/ VblankOffEnds(s)
    BY <2>1 DEF VblankOffBegins, DisableBegins, VblankOffEnds, vkms_disable_vblank
  <2>2. CASE WaitForVblank(s)
    BY <2>2 DEF WaitForVblank, vkms_enable_vblank
  <2>3. CASE vkms_crtc_atomic_enable(s)
    BY <2>3 DEF vkms_crtc_atomic_enable
  <2>4. CASE vkms_crtc_atomic_flush(s) \/ CommitHwDone(s) \/ CleanupDone(s)
    BY <1>1, <2>4 DEF vkms_crtc_atomic_flush, CommitHwDone, CleanupDone
  <2> QED
    BY <1>2, <2>1, <2>2, <2>3, <2>4 DEF CommitTail
<1>3. CASE Timer
  BY <1>3 DEF Timer, TimerFires, HandleVblank, vkms_vblank_simulate
<1>4. CASE DisableTimer \/ DisableTimerEnds
  BY <1>4 DEF DisableTimer, DisableBegins, DisableTimerEnds, vkms_disable_vblank
<1>5. \/ UNCHANGED vblankVars
      \/ \E s \in Slots : CommitTail(s)
      \/ Timer \/ DisableTimer \/ DisableTimerEnds
  BY NextEffect DEF KmsEffect, Swapped, SwapState, ShownAtOnce, vkms_crtc_page_flip, LegacySetCrtc,
    drmHandleEvent, Close, kmsVars
<1> QED
  BY <1>1, <1>2, <1>3, <1>4, <1>5

-----------------------------------------------------------------------------
(* Commits.                                                                *)

(* A commit that has been flushed goes on to its end, a queued one that    *)
(* turns the display off turns vblanks off first, and the rest stays.      *)
SlotKept(s) ==
  \/ commits'[s] = commits[s]
  \/ /\ commits'[s].kind = commits[s].kind /\ commits'[s].fb = commits[s].fb
     /\ commits'[s].user = commits[s].user
     /\ \/ commits[s].phase \notin {"none", "queued"} /\ commits'[s].phase \in HwDone
        \/ /\ commits[s].phase = "queued" /\ commits[s].kind = "disable"
           /\ commits'[s].phase = "disabled"

Quiet ==
  /\ UNCHANGED <<driver, newest, plane, front, events>>
  /\ \A s \in Slots : SlotKept(s)

(* A commit moves on. *)
LEMMA AdvanceKept ==
  ASSUME IInv, NEW s \in Slots, NEW from, NEW to, Advance(s, from, to),
         \/ from \notin {"none", "queued"} /\ to \in HwDone
         \/ from = "queued" /\ commits[s].kind = "disable" /\ to = "disabled",
         UNCHANGED <<driver, newest, plane, front, events>>
  PROVE  Quiet
<1>1. commits \in [Slots -> Commits] /\ commits[s] \in Commits
  BY DEF IInv, TypeOK
<1>2. \A r \in Slots \ {s} : commits'[r] = commits[r]
  BY <1>1 DEF Advance
<1>3. /\ commits'[s] = [commits[s] EXCEPT !.phase = to]
      /\ commits[s].phase = from
  BY <1>1 DEF Advance
<1>4. /\ commits'[s].phase = to /\ commits'[s].kind = commits[s].kind
      /\ commits'[s].fb = commits[s].fb /\ commits'[s].user = commits[s].user
  BY <1>1, <1>3 DEF Commits
<1>5. SlotKept(s)
  BY <1>3, <1>4 DEF SlotKept
<1> QED
  BY <1>2, <1>5 DEF Quiet, SlotKept

(* Every step of the kernel is quiet, except a flush. *)
LEMMA KernelQuiet ==
  ASSUME IInv,
         (\E s \in Slots : CommitTail(s)) \/ Timer \/ DisableTimer \/ DisableTimerEnds
  PROVE  Quiet \/ \E s \in Slots : vkms_crtc_atomic_flush(s)
<1>1. ASSUME UNCHANGED commitVars, UNCHANGED driver
      PROVE  Quiet
  BY <1>1 DEF commitVars, Quiet, SlotKept
<1>2. ASSUME NEW s \in Slots, CommitTail(s), ~vkms_crtc_atomic_flush(s)
      PROVE  Quiet
  <2>1. CASE VblankOffBegins(s)
    BY <1>1, <2>1 DEF VblankOffBegins, DisableBegins
  <2>2. CASE VblankOffEnds(s)
    BY <2>2, AdvanceKept DEF VblankOffEnds
  <2>3. CASE vkms_crtc_atomic_enable(s)
    BY <2>3, AdvanceKept DEF vkms_crtc_atomic_enable, HwDone
  <2>4. CASE CommitHwDone(s)
    BY <2>4, AdvanceKept DEF CommitHwDone, HwDone
  <2>5. CASE WaitForVblank(s)
    BY <2>5, AdvanceKept DEF WaitForVblank, HwDone
  <2>6. CASE CleanupDone(s)
    BY <2>6, AdvanceKept DEF CleanupDone, HwDone
  <2> QED
    BY <1>2, <2>1, <2>2, <2>3, <2>4, <2>5, <2>6 DEF CommitTail
<1>3. CASE HandleVblank
  <2>1. commits \in [Slots -> Commits]
    BY DEF IInv, TypeOK
  <2>2. ASSUME NEW s \in Waiters
        PROVE  SlotKept(s)
    <3>1. commits'[s] = [commits[s] EXCEPT !.phase = "woken"] /\ commits[s] \in Commits
      BY <1>3, <2>1 DEF HandleVblank, Waiters
    <3>2. /\ commits'[s].phase = "woken" /\ commits'[s].kind = commits[s].kind
          /\ commits'[s].fb = commits[s].fb /\ commits'[s].user = commits[s].user
      BY <3>1 DEF Commits
    <3> QED
      BY <3>2 DEF SlotKept, Waiters, HwDone
  <2>3. \A s \in Slots \ Waiters : commits'[s] = commits[s]
    BY <1>3 DEF HandleVblank
  <2> QED
    BY <1>3, <2>2, <2>3 DEF HandleVblank, Quiet, SlotKept
<1>4. CASE TimerFires \/ vkms_vblank_simulate \/ DisableTimer \/ DisableTimerEnds
  BY <1>1, <1>4 DEF TimerFires, vkms_vblank_simulate, DisableTimer, DisableBegins, DisableTimerEnds
<1> QED
  BY <1>2, <1>3, <1>4 DEF Timer

(* What a flush does: the newest commit is shown, and if it was requested  *)
(* with an event, the event is sent. *)
LEMMA FlushEffect ==
  ASSUME IInv, NEW s \in Slots, vkms_crtc_atomic_flush(s)
  PROVE  /\ s = newest /\ driver = "vkms_drv"
         /\ commits'[newest].phase = "flushed" /\ commits'[newest].user = FALSE
         /\ commits'[newest].kind = commits[newest].kind
         /\ commits'[newest].fb = commits[newest].fb
         /\ commits'[1 - newest] = commits[1 - newest]
         /\ Requested' = {} /\ front' = commits[newest].fb
         /\ events' = IF Requested = {} THEN events ELSE events + 1
         /\ UNCHANGED <<driver, newest, plane>>
<1>1. commits \in [Slots -> Commits] /\ commits[s] \in Commits /\ newest \in Slots
  BY DEF IInv, TypeOK
<1>2. s = newest
  BY <1>1, TwoSlots DEF IInv, CommitInv, HwDone, vkms_crtc_atomic_flush
<1>3. driver = "vkms_drv"
  BY DEF IInv, TypeOK, Drivers, CommitInv, vkms_crtc_atomic_flush
<1>4. commits' = [commits EXCEPT ![s] = [commits[s] EXCEPT !.phase = "flushed", !.user = FALSE]]
  BY <1>1 DEF vkms_crtc_atomic_flush
<1>5. commits'[s] = [commits[s] EXCEPT !.phase = "flushed", !.user = FALSE]
  BY <1>1, <1>4
<1>6. /\ commits'[s].phase = "flushed" /\ commits'[s].user = FALSE
      /\ commits'[s].kind = commits[s].kind /\ commits'[s].fb = commits[s].fb
  BY <1>1, <1>5 DEF Commits
<1>7. commits'[1 - newest] = commits[1 - newest]
  BY <1>1, <1>2, <1>4, TwoSlots
<1>8. /\ Requested = (IF commits[newest].user THEN {newest} ELSE {})
      /\ commits[1 - newest].user = FALSE
  <2>1. /\ Requested \subseteq {newest} /\ commits[1 - newest].user \in BOOLEAN
        /\ 1 - newest \in Slots /\ 1 - newest # newest
    BY <1>1, RequestedNewest, TwoSlots DEF Commits
  <2> QED
    BY <1>1, <2>1 DEF Requested
<1>9. Requested' = {}
  BY <1>1, <1>2, <1>6, <1>7, <1>8, TwoSlots DEF Requested
<1> QED
  BY <1>2, <1>3, <1>6, <1>7, <1>8, <1>9 DEF vkms_crtc_atomic_flush

(* A quiet step keeps the flips that are on their way. *)
LEMMA QuietRequested ==
  ASSUME IInv, Quiet
  PROVE  Requested' = Requested
BY DEF Quiet, SlotKept, Requested

(* Every step keeps the commits in order. *)
LEMMA CommitStep ==
  ASSUME IInv, [Next]_vars
  PROVE  CommitInv'
<1> newest \in Slots /\ commits \in [Slots -> Commits]
  BY DEF IInv, TypeOK
<1>1. CASE Quiet
  <2>1. 1 - newest \in Slots
    BY TwoSlots
  <2> QED
    BY <1>1, <2>1 DEF Quiet, SlotKept, IInv, CommitInv, HwDone
<1>2. ASSUME NEW s \in Slots, vkms_crtc_atomic_flush(s)
      PROVE  CommitInv'
  BY <1>2, FlushEffect, TwoSlots DEF IInv, CommitInv, Requested
<1>3. ASSUME NEW kind \in Kinds, NEW fb \in Fbs \cup {None}, NEW user \in BOOLEAN,
             user => kind = "flip" /\ fb \in Fbs, Swapped(kind, fb, user)
      PROVE  CommitInv'
  <2>1. /\ commits'[newest'] = [phase |-> "queued", kind |-> kind, fb |-> fb, user |-> user]
        /\ commits'[1 - newest'] = commits[newest] /\ newest' \in Slots
        /\ Requested = {}
    BY <1>3, SwapRequested DEF Swapped
  <2>2. \A s \in Slots : s = newest' \/ s = 1 - newest'
    <3>1. newest' = 1 - newest /\ 1 - newest' = newest
      BY <1>3, TwoSlots DEF Swapped, SwapState
    <3> QED
      BY <3>1, TwoSlots
  <2>3. commits[newest].user # TRUE /\ commits[newest].phase \in HwDone
    BY <1>3, <2>1 DEF Requested, Swapped, SwapState
  <2> QED
    BY <1>3, <2>1, <2>2, <2>3 DEF CommitInv, Swapped, SwapState
<1>4. CASE Close
  <2>1. \A s \in Slots : commits'[s] = [commits[s] EXCEPT !.user = FALSE] /\ commits[s] \in Commits
    BY <1>4 DEF Close
  <2>2. \A s \in Slots : commits'[s].user = FALSE /\ commits'[s].phase = commits[s].phase
    BY <2>1 DEF Commits
  <2>3. newest' = newest /\ driver' = driver /\ 1 - newest \in Slots
    BY <1>4, TwoSlots DEF Close
  <2> QED
    BY <2>2, <2>3 DEF IInv, CommitInv
<1>5. CASE UNCHANGED <<driver, commits, newest>>
  BY <1>5 DEF IInv, CommitInv
<1> QED
  BY <1>1, <1>2, <1>3, <1>4, <1>5, NextEffect, KernelQuiet
  DEF KmsEffect, ShownAtOnce, vkms_crtc_page_flip, LegacySetCrtc, drmHandleEvent, kmsVars,
    commitVars

-----------------------------------------------------------------------------
(* The application.                                                        *)

InLoop == {"check", "read", "handler", "sleep"}
Leaving == {"rm1", "rm1_wait", "rm0", "rm0_wait", "close"}

(* Every step keeps the display off where it has to be. *)
LEMMA OffInvStep ==
  ASSUME IInv, [Next]_vars
  PROVE  OffInv'
<1> newest \in Slots /\ commits \in [Slots -> Commits]
  BY DEF IInv, TypeOK
<1>1. CASE UNCHANGED kmsVars /\ UNCHANGED app
  BY <1>1 DEF IInv, OffInv, kmsVars, commitVars
<1>2. CASE Start \/ SetCrtcFails
  BY <1>2 DEF Start, SetCrtcFails, AppGoto, IInv, OffInv, kmsVars, commitVars
<1>3. CASE SetCrtc \/ SetCrtcLegacy
  BY <1>3, FbAssumption DEF SetCrtc, SetCrtcLegacy, SwapState, LegacySetCrtc, AppGoto, OffInv
<1>4. CASE SetCrtcReturns
  BY <1>4 DEF SetCrtcReturns, AppGoto, OffInv, kmsVars, commitVars
<1>5. ASSUME NEW fb \in Fbs, drmModePageFlip(fb), ~Busy, app \in {"flip", "handler"},
             app' \in {"check", "sleep"}
      PROVE  OffInv'
  <2>1. CASE UNCHANGED kmsVars
    BY <1>5, <2>1 DEF IInv, OffInv, kmsVars, commitVars
  <2>2. CASE plane' = fb
    BY <1>5, <2>2, FbAssumption DEF OffInv
  <2> QED
    BY <1>5, <2>1, <2>2, FlipEffect DEF SwapState, vkms_crtc_page_flip
<1>6. CASE FirstFlip \/ modeset_page_flip_handler
  <2>1. ~Busy /\ i \in Fbs
    BY <1>6, NotBusy
    DEF FirstFlip, modeset_page_flip_handler, AppGoto, NeverBusy, IInv, TypeOK
  <2> QED
    BY <1>5, <1>6, <2>1, FbAssumption DEF FirstFlip, modeset_page_flip_handler, AppGoto
<1>7. CASE LoopAgain \/ WakeUp \/ LeaveLoop
  BY <1>7 DEF LoopAgain, WakeUp, LeaveLoop, AppGoto, IInv, OffInv, kmsVars, commitVars
<1>8. CASE drmHandleEvent
  BY <1>8 DEF drmHandleEvent, AppGoto, IInv, OffInv
<1>9. CASE RmFb(1, "rm1", "rm1_wait", "rm0")
  <2>1. commits[newest].phase = "none" \/ driver # "vkms_drv_5"
    BY DEF IInv, CommitInv
  <2> QED
    BY <1>9, <2>1, FbAssumption
    DEF RmFb, AppGoto, SwapState, LegacySetCrtc, IInv, OffInv, kmsVars, commitVars
<1>10. CASE RmFb(0, "rm0", "rm0_wait", "close")
  <2>1. commits[newest].phase = "none" \/ driver # "vkms_drv_5"
    BY DEF IInv, CommitInv
  <2>2. plane \in {0, 1, None}
    BY FbAssumption DEF IInv, TypeOK
  <2> QED
    BY <1>10, <2>1, <2>2, FbAssumption
    DEF RmFb, AppGoto, SwapState, LegacySetCrtc, IInv, OffInv, kmsVars, commitVars
<1>11. CASE RmFbReturns("rm1_wait", "rm0") \/ RmFbReturns("rm0_wait", "close")
  BY <1>11, FbAssumption DEF RmFbReturns, AppGoto, IInv, OffInv, kmsVars, commitVars
<1>12. CASE Close
  <2>1. [commits[newest] EXCEPT !.user = FALSE].phase = commits[newest].phase
    BY DEF Commits
  <2> QED
    BY <1>12, <2>1 DEF Close, AppGoto, IInv, OffInv
<1>13. CASE Quiet /\ UNCHANGED appVars
  BY <1>13 DEF Quiet, SlotKept, appVars, IInv, OffInv
<1>14. ASSUME NEW s \in Slots, vkms_crtc_atomic_flush(s), UNCHANGED appVars
       PROVE  OffInv'
  <2>1. commits[newest].phase # "none" /\ UNCHANGED <<plane, app>>
    BY <1>14, FlushEffect DEF vkms_crtc_atomic_flush, appVars
  <2> QED
    BY <2>1 DEF IInv, OffInv
<1>15. CASE sigint_handler \/ UNCHANGED vars
  BY <1>1, <1>15 DEF sigint_handler, vars, appVars
<1>16. CASE \/ \E s \in Slots : KernelCommit(s)
            \/ KernelTimer
            \/ (DisableTimer \/ DisableTimerEnds) /\ UNCHANGED appVars
  BY <1>13, <1>14, <1>16, KernelQuiet DEF KernelCommit, KernelTimer
<1> QED
  BY <1>2, <1>3, <1>4, <1>6, <1>7, <1>8, <1>9, <1>10, <1>11, <1>12, <1>15, <1>16
  DEF Next, AppStep

(* Steps of the kernel do not disturb what holds at a position of main.    *)
LEMMA KernelAppInv ==
  ASSUME IInv, Quiet \/ \E s \in Slots : vkms_crtc_atomic_flush(s), UNCHANGED appVars
  PROVE  AppInv'
<1> newest \in Slots /\ commits \in [Slots -> Commits] /\ events \in Nat
  BY DEF IInv, TypeOK
<1>1. CASE Quiet
  <2>1. /\ Requested' = Requested /\ SlotKept(newest)
        /\ UNCHANGED <<app, i, failed, events, front, driver, newest>>
    BY <1>1, QuietRequested DEF Quiet, appVars
  <2>2. NoFlip' = NoFlip /\ OneFlip' = OneFlip
    BY <2>1 DEF NoFlip, OneFlip
  <2>3. commits[newest].phase = "none" => commits'[newest'].phase = "none"
    BY <2>1 DEF SlotKept
  <2>4. LastFlip => LastFlip'
    BY <2>1 DEF LastFlip, SlotKept, HwDone
  <2> QED
    BY <2>1, <2>2, <2>3, <2>4 DEF IInv, AppInv
<1>2. ASSUME NEW s \in Slots, vkms_crtc_atomic_flush(s)
      PROVE  AppInv'
  <2>1. /\ Requested' = {} /\ front' = commits[newest].fb /\ driver = "vkms_drv"
        /\ events' = IF Requested = {} THEN events ELSE events + 1
        /\ commits'[newest].phase = "flushed"
        /\ commits'[newest].kind = commits[newest].kind
        /\ commits'[newest].fb = commits[newest].fb
        /\ UNCHANGED <<app, i, failed, driver, newest>>
    BY <1>2, FlushEffect DEF appVars
  <2>2. app # "flip"
    BY <1>2, FlushEffect DEF IInv, AppInv, vkms_crtc_atomic_flush
  <2>3. NoFlip => NoFlip'
    BY <2>1 DEF NoFlip
  <2>4. LastFlip => LastFlip'
    BY <2>1 DEF LastFlip
  <2>5. OneFlip => OneFlip'
    BY <2>1 DEF OneFlip
  <2> QED
    BY <2>1, <2>2, <2>3, <2>4, <2>5 DEF IInv, AppInv
<1> QED
  BY <1>1, <1>2

(* A request that does not fail puts one flip on its way. *)
LEMMA FlipAppInv ==
  ASSUME IInv, NoFlip, ~failed, ~Busy, i' \in Fbs, drmModePageFlip(i'),
         app' \in {"check", "sleep"}
  PROVE  AppInv'
<1>1. CASE driver = "vkms_drv" /\ SwapState("flip", i', TRUE) /\ failed' = failed
  <2>1. /\ Requested' = {newest'} /\ newest' \in Slots
        /\ commits'[newest'] = [phase |-> "queued", kind |-> "flip", fb |-> i', user |-> TRUE]
    BY <1>1, SwapRequested DEF Kinds
  <2>2. events' = 0
    BY <1>1 DEF SwapState, NoFlip
  <2>3. LastFlip'
    BY <2>1 DEF LastFlip
  <2>4. OneFlip'
    BY <2>1, <2>2 DEF OneFlip
  <2> QED
    BY <1>1, <2>3, <2>4 DEF AppInv
<1>2. CASE driver = "vkms_drv_5" /\ vkms_crtc_page_flip(i') /\ failed' = failed
  <2>1. Requested' = {} /\ events' = 1 /\ front' = i' /\ driver' = "vkms_drv_5"
    BY <1>2 DEF vkms_crtc_page_flip, NoFlip, Requested
  <2>2. LastFlip'
    BY <2>1 DEF LastFlip
  <2>3. OneFlip'
    BY <2>1 DEF OneFlip
  <2> QED
    BY <1>2, <2>2, <2>3 DEF AppInv
<1>3. CASE UNCHANGED kmsVars /\ failed'
  <2>1. NoFlip'
    BY <1>3 DEF NoFlip, Requested, kmsVars, commitVars
  <2> QED
    BY <1>3, <2>1 DEF AppInv
<1> QED
  BY <1>1, <1>2, <1>3, FlipEffect

(* Every step keeps what holds at the positions of main. *)
LEMMA AppInvStep ==
  ASSUME IInv, [Next]_vars
  PROVE  AppInv'
<1> newest \in Slots /\ commits \in [Slots -> Commits] /\ events \in Nat /\ driver \in Drivers
  BY DEF IInv, TypeOK
<1>1. ASSUME UNCHANGED <<driver, front, events, commits, newest>>
      PROVE  Requested' = Requested /\ NoFlip' = NoFlip /\ OneFlip' = OneFlip
  BY <1>1 DEF Requested, NoFlip, OneFlip
<1>2. CASE Start \/ SetCrtcReturns \/ SetCrtcFails
  BY <1>1, <1>2
  DEF Start, SetCrtcReturns, SetCrtcFails, AppGoto, IInv, AppInv, OffInv, kmsVars, commitVars
<1>3. CASE SetCrtc
  BY <1>3, SwapRequested, FbAssumption
  DEF SetCrtc, AppGoto, IInv, AppInv, NoFlip, Kinds, SwapState
<1>4. CASE SetCrtcLegacy
  <2>1. commits[newest].phase = "none"
    BY <1>4 DEF SetCrtcLegacy, IInv, CommitInv
  <2> QED
    BY <1>4, <2>1 DEF SetCrtcLegacy, LegacySetCrtc, AppGoto, IInv, AppInv, NoFlip, Requested
<1>5. CASE FirstFlip
  <2>1. ~Busy /\ NoFlip /\ ~failed /\ i' = 0
    BY <1>5, NotBusy DEF FirstFlip, AppGoto, NeverBusy, IInv, AppInv
  <2> QED
    BY <1>5, <2>1, FlipAppInv, FbAssumption DEF FirstFlip, AppGoto
<1>6. CASE modeset_page_flip_handler
  <2>1. ~Busy /\ NoFlip /\ ~failed /\ i' \in Fbs
    BY <1>6, NotBusy, FbAssumption
    DEF modeset_page_flip_handler, AppGoto, NeverBusy, IInv, TypeOK, AppInv
  <2> QED
    BY <1>6, <2>1, FlipAppInv DEF modeset_page_flip_handler, AppGoto
<1>7. CASE LoopAgain \/ WakeUp \/ LeaveLoop
  <2>1. LastFlip' = LastFlip /\ NoFlip' = NoFlip /\ OneFlip' = OneFlip /\ failed' = failed
    BY <1>1, <1>7 DEF LoopAgain, WakeUp, LeaveLoop, LastFlip, kmsVars, commitVars, Requested
  <2> QED
    BY <1>7, <2>1 DEF LoopAgain, WakeUp, LeaveLoop, AppGoto, IInv, AppInv
<1>8. CASE sigint_handler \/ UNCHANGED vars
  <2>1. /\ LastFlip' = LastFlip /\ OneFlip' = OneFlip /\ NoFlip' = NoFlip
        /\ UNCHANGED <<app, i, failed, events, commits, newest>>
    BY <1>1, <1>8 DEF sigint_handler, vars, appVars, LastFlip, kmsVars, commitVars, Requested
  <2> QED
    BY <2>1 DEF IInv, AppInv
<1>9. CASE drmHandleEvent
  <2>1. Requested = {} /\ events = 1 /\ LastFlip /\ ~failed
    BY <1>9 DEF drmHandleEvent, AppGoto, IInv, AppInv, NoFlip, OneFlip
  <2>2. Requested' = {} /\ events' = 0 /\ LastFlip'
    BY <1>9, <2>1 DEF drmHandleEvent, Requested, LastFlip
  <2> QED
    BY <1>9, <2>1, <2>2 DEF drmHandleEvent, AppGoto, AppInv, NoFlip
<1>10. ASSUME NEW fb \in Fbs, NEW at \in {"rm1", "rm0"}, NEW wait \in {"rm1_wait", "rm0_wait"},
              NEW next \in {"rm0", "close"}, RmFb(fb, at, wait, next)
       PROVE  AppInv'
  <2>1. app = at /\ app' \in Leaving
    BY <1>10 DEF RmFb, AppGoto, Leaving
  <2>2. (IF failed THEN NoFlip ELSE OneFlip) /\ failed' = failed
    BY <1>10, <2>1 DEF IInv, AppInv, RmFb
  <2>3. Requested' = Requested /\ events' = events
    <3>1. CASE SwapState("disable", None, FALSE)
      BY <3>1, SwapRequested DEF SwapState, Kinds
    <3>2. CASE LegacySetCrtc(None) \/ UNCHANGED kmsVars
      BY <3>2 DEF LegacySetCrtc, kmsVars, commitVars, Requested
    <3> QED
      BY <1>10, <3>1, <3>2 DEF RmFb
  <2> QED
    BY <2>1, <2>2, <2>3 DEF AppInv, Leaving, NoFlip, OneFlip
<1>11. ASSUME NEW wait \in {"rm1_wait", "rm0_wait"}, NEW next \in {"rm0", "close"},
              RmFbReturns(wait, next)
       PROVE  AppInv'
  <2>1. app = wait /\ app' = next /\ NoFlip' = NoFlip /\ OneFlip' = OneFlip /\ failed' = failed
    BY <1>1, <1>11 DEF RmFbReturns, AppGoto, kmsVars, commitVars
  <2> QED
    BY <2>1 DEF IInv, AppInv
<1>12. CASE Close
  <2>1. \A s \in Slots : commits'[s] = [commits[s] EXCEPT !.user = FALSE] /\ commits[s] \in Commits
    BY <1>12 DEF Close
  <2>2. \A s \in Slots : commits'[s].user = FALSE
    BY <2>1 DEF Commits
  <2>3. Requested' = {}
    BY <2>2 DEF Requested
  <2> QED
    BY <1>12, <2>3 DEF Close, AppGoto, AppInv, NoFlip
<1>13. CASE \/ \E s \in Slots : KernelCommit(s)
            \/ KernelTimer
            \/ (DisableTimer \/ DisableTimerEnds) /\ UNCHANGED appVars
  BY <1>13, KernelQuiet, KernelAppInv DEF KernelCommit, KernelTimer
<1> QED
  BY <1>2, <1>3, <1>4, <1>5, <1>6, <1>7, <1>8, <1>9, <1>10, <1>11, <1>12, <1>13, FbAssumption
  DEF Next, AppStep

-----------------------------------------------------------------------------
(* Theorems.                                                               *)

(* The inductive invariant. *)
THEOREM Invariance == Spec => []IInv
<1>1. Init => IInv
  <2>1. ASSUME Init
        PROVE  IInv
    <3>1. \A s \in Slots :
            commits[s] = [phase |-> "none", kind |-> "disable", fb |-> None, user |-> FALSE]
      BY <2>1 DEF Init, VkmsInit
    <3>2. TypeOK
      BY <2>1, FbAssumption DEF Init, VkmsInit, TypeOK, Commits, Phases, Kinds, Slots, AppStates
    <3>3. TimerInv
      BY <2>1 DEF Init, VkmsInit, TimerInv, TimerFollowsVblank
    <3>4. CommitInv
      BY <2>1, <3>1 DEF Init, VkmsInit, CommitInv, Slots, HwDone
    <3>5. AppInv
      BY <2>1, <3>1 DEF Init, VkmsInit, AppInv, NoFlip, Requested
    <3>6. OffInv
      BY <2>1, <3>1 DEF Init, VkmsInit, OffInv, Slots
    <3> QED
      BY <3>2, <3>3, <3>4, <3>5, <3>6 DEF IInv
  <2> QED
    BY <2>1
<1>2. IInv /\ [Next]_vars => IInv'
  BY TypeStep, TimerStep, CommitStep, OffInvStep, AppInvStep DEF IInv
<1> QED
  BY <1>1, <1>2, PTL DEF Spec

(* The types of driver and application are kept. *)
THEOREM TypeCorrect == Spec => []TypeOK
<1>1. IInv => TypeOK
  BY DEF IInv
<1> QED
  BY <1>1, Invariance, PTL

(* While the application is in its loop one flip is on its way, and none   *)
(* once a flip has failed.                                                 *)
THEOREM OneFlipAtATime == Spec => []OneFlipOnItsWay
<1>1. IInv => OneFlipOnItsWay
  BY DEF IInv, AppInv, OneFlipOnItsWay
<1> QED
  BY <1>1, Invariance, PTL

(* No request of a flip fails with EBUSY. *)
THEOREM FlipsAreAccepted == Spec => []NeverBusy
<1>1. IInv => NeverBusy
  BY NotBusy
<1> QED
  BY <1>1, Invariance, PTL

(* The timer runs while vblanks are enabled, and only then. *)
THEOREM TimerIsSafe == Spec => []TimerFollowsVblank
<1>1. IInv => TimerFollowsVblank
  BY DEF IInv, TimerInv
<1> QED
  BY <1>1, Invariance, PTL

(* Unless its flip fails the handler never requests the buffer shown. *)
THEOREM BuffersAlternate == Spec => Alternates
<1>1. IInv /\ [Next]_vars =>
        [app = "handler" /\ app' = "sleep" /\ ~failed' => plane' # front]_vars
  <2>1. ASSUME IInv, [Next]_vars, app = "handler", app' = "sleep", ~failed'
        PROVE  plane' # front
    <3>1. modeset_page_flip_handler
      BY <2>1
      DEF Next, AppStep, Start, SetCrtc, SetCrtcFails, SetCrtcReturns, SetCrtcLegacy, FirstFlip,
        LoopAgain, drmHandleEvent, WakeUp, LeaveLoop, RmFb, RmFbReturns, Close, AppGoto,
        sigint_handler, KernelCommit, KernelTimer, appVars, vars
    <3>2. ~Busy /\ front = i /\ i \in Fbs
      BY <2>1, NotBusy DEF NeverBusy, IInv, TypeOK, AppInv, NoFlip, LastFlip
    <3>3. i' \in Fbs /\ i' # i
      BY <3>1, <3>2, FbAssumption DEF modeset_page_flip_handler
    <3>4. plane' = i'
      BY <2>1, <3>1, <3>2, <3>3, FlipEffect
      DEF modeset_page_flip_handler, SwapState, vkms_crtc_page_flip
    <3> QED
      BY <3>2, <3>3, <3>4
  <2> QED
    BY <2>1
<1> QED
  BY <1>1, Invariance, PTL DEF Spec, Alternates

-----------------------------------------------------------------------------
(* The driver and the application implement FlipChain.                     *)

opened == app # "start"
requested == {commits[s].fb : s \in Requested}

(* Who sees none of the state of FlipChain change sees a stutter. *)
LEMMA ChainStutter ==
  ASSUME Requested' = Requested, \A s \in Requested : commits'[s].fb = commits[s].fb,
         UNCHANGED <<front, events>>, opened' = opened
  PROVE  UNCHANGED Chain!vars
<1>1. requested' = requested
  BY DEF requested
<1> QED
  BY <1>1 DEF Chain!vars, opened, requested

(* A request is the Request, or the FlipNow, of FlipChain, or it fails. *)
LEMMA FlipRefines ==
  ASSUME IInv, NoFlip, ~Busy, NEW fb \in Fbs, drmModePageFlip(fb), opened, opened'
  PROVE  [Chain!Next]_(Chain!vars)
<1>1. requested = {} /\ events = 0
  BY DEF NoFlip, requested
<1>2. CASE driver = "vkms_drv" /\ SwapState("flip", fb, TRUE) /\ failed' = failed
  <2>1. /\ Requested' = {newest'}
        /\ commits'[newest'] = [phase |-> "queued", kind |-> "flip", fb |-> fb, user |-> TRUE]
    BY <1>2, SwapRequested DEF Kinds
  <2>2. requested' = {fb}
    BY <2>1 DEF requested
  <2>3. Chain!Request(fb)
    BY <1>1, <1>2, <2>2 DEF Chain!Request, Chain!Idle, SwapState, opened, requested
  <2> QED
    BY <2>3 DEF Chain!Next
<1>3. CASE driver = "vkms_drv_5" /\ vkms_crtc_page_flip(fb) /\ failed' = failed
  <2>1. requested' = requested /\ opened' = opened
    BY <1>3 DEF vkms_crtc_page_flip, requested, Requested
  <2>2. front' = fb /\ events' = 1
    BY <1>1, <1>3 DEF vkms_crtc_page_flip
  <2>3. Chain!FlipNow(fb)
    BY <1>1, <2>1, <2>2, Zenon DEF Chain!FlipNow, Chain!Idle, opened, requested
  <2> QED
    BY <2>3 DEF Chain!Next
<1>4. CASE UNCHANGED kmsVars
  BY <1>4, ChainStutter DEF kmsVars, commitVars, Requested
<1> QED
  BY <1>2, <1>3, <1>4, FlipEffect

(* A flush shows the buffer of the commit; if it was a flip of the         *)
(* application the flip is complete with it.                               *)
LEMMA FlushRefines ==
  ASSUME IInv, NEW s \in Slots, vkms_crtc_atomic_flush(s), UNCHANGED appVars
  PROVE  Chain!Next
<1>1. /\ Requested' = {} /\ front' = commits[newest].fb
      /\ events' = IF Requested = {} THEN events ELSE events + 1
      /\ app' = app
  BY FlushEffect DEF appVars
<1>2. requested' = {} /\ opened' = opened
  BY <1>1 DEF requested, opened
<1>3. CASE Requested = {}
  <2>1. requested = {} /\ commits[newest].fb \in Fbs \cup {None}
    BY <1>3 DEF requested, IInv, TypeOK, Commits
  <2>2. Chain!SetFront(commits[newest].fb)
    BY <1>1, <1>2, <1>3, <2>1 DEF Chain!SetFront, requested, opened
  <2> QED
    BY <2>1, <2>2 DEF Chain!Next
<1>4. CASE Requested # {}
  <2>1. Requested = {newest} /\ commits[newest].user
    BY <1>4, RequestedNewest DEF Requested
  <2>2. requested = {commits[newest].fb} /\ commits[newest].fb \in Fbs
    BY <2>1 DEF requested, IInv, TypeOK, CommitInv
  <2>3. events = 0
    BY <1>4 DEF IInv, TypeOK, AppInv, AppStates, NoFlip, OneFlip
  <2>4. PICK fb \in Fbs : fb = commits[newest].fb
    BY <2>2
  <2>5. Chain!Complete(fb)
    BY <1>1, <1>2, <1>4, <2>2, <2>3, <2>4 DEF Chain!Complete, requested, opened
  <2> QED
    BY <2>5 DEF Chain!Next
<1> QED
  BY <1>3, <1>4

(* Taking a framebuffer away shows nothing, or will, and drops no flip. *)
LEMMA RmFbRefines ==
  ASSUME IInv, NEW fb, NEW at \in {"rm1", "rm0"}, NEW wait \in {"rm1_wait", "rm0_wait"},
         NEW next \in {"rm0", "close"}, RmFb(fb, at, wait, next)
  PROVE  [Chain!Next]_(Chain!vars)
<1>1. opened /\ opened'
  BY DEF RmFb, AppGoto, opened
<1>2. CASE UNCHANGED kmsVars
  BY <1>1, <1>2, ChainStutter DEF kmsVars, commitVars, Requested
<1>3. CASE SwapState("disable", None, FALSE)
  BY <1>1, <1>3, SwapRequested, ChainStutter DEF SwapState, Kinds
<1>4. CASE driver = "vkms_drv_5" /\ LegacySetCrtc(None)
  <2>1. requested = {} /\ requested' = requested
    BY <1>4 DEF LegacySetCrtc, requested, Requested, IInv, TypeOK, CommitInv
  <2>2. Chain!SetFront(None)
    BY <1>1, <1>4, <2>1 DEF Chain!SetFront, LegacySetCrtc, requested, opened
  <2> QED
    BY <2>2 DEF Chain!Next
<1> QED
  BY <1>2, <1>3, <1>4 DEF RmFb

(* Every step is a step of FlipChain or a stutter. *)
LEMMA NextRefines ==
  ASSUME IInv, [Next]_vars
  PROVE  [Chain!Next]_(Chain!vars)
<1>1. CASE Start
  <2>1. requested' = requested /\ ~opened /\ opened'
    BY <1>1 DEF Start, AppGoto, kmsVars, commitVars, requested, Requested, opened
  <2>2. Chain!Open
    BY <1>1, <2>1 DEF Start, kmsVars, commitVars, Chain!Open, requested, opened
  <2> QED
    BY <2>2 DEF Chain!Next
<1>2. CASE SetCrtc
  BY <1>2, SwapRequested, FbAssumption, ChainStutter DEF SetCrtc, AppGoto, SwapState, Kinds, opened
<1>3. CASE SetCrtcLegacy
  <2>1. requested = {} /\ requested' = {} /\ opened /\ opened'
    <3>1. Requested = {} /\ Requested' = Requested
      BY <1>3 DEF SetCrtcLegacy, AppGoto, LegacySetCrtc, Requested, IInv, AppInv, NoFlip
    <3> QED
      BY <1>3, <3>1 DEF SetCrtcLegacy, AppGoto, requested, opened
  <2>2. Chain!SetFront(0) /\ 0 \in Fbs
    BY <1>3, <2>1, FbAssumption
    DEF SetCrtcLegacy, LegacySetCrtc, Chain!SetFront, requested, opened
  <2> QED
    BY <2>2 DEF Chain!Next
<1>4. CASE FirstFlip
  BY <1>4, NotBusy, FbAssumption, FlipRefines
  DEF FirstFlip, AppGoto, NeverBusy, opened, IInv, AppInv
<1>5. CASE modeset_page_flip_handler
  <2>1. i' \in Fbs
    <3>1. i \in Fbs
      BY DEF IInv, TypeOK
    <3> QED
      BY <1>5, <3>1, FbAssumption DEF modeset_page_flip_handler
  <2> QED
    BY <1>5, <2>1, NotBusy, FlipRefines
    DEF modeset_page_flip_handler, AppGoto, NeverBusy, opened, IInv, AppInv
<1>6. CASE drmHandleEvent
  <2>1. events = 1 /\ events' = 0 /\ opened /\ opened' /\ requested' = requested
    BY <1>6 DEF drmHandleEvent, AppGoto, opened, IInv, AppInv, NoFlip, OneFlip, requested, Requested
  <2>2. Chain!Read
    BY <1>6, <2>1 DEF drmHandleEvent, Chain!Read, requested, opened
  <2> QED
    BY <2>2 DEF Chain!Next
<1>7. CASE Close
  <2>1. \A s \in Slots : commits'[s] = [commits[s] EXCEPT !.user = FALSE] /\ commits[s] \in Commits
    BY <1>7 DEF Close, IInv, TypeOK
  <2>2. \A s \in Slots : commits'[s].user = FALSE
    BY <2>1 DEF Commits
  <2>3. requested' = {} /\ opened /\ ~opened'
    BY <1>7, <2>2 DEF Close, AppGoto, requested, Requested, opened
  <2>4. Chain!Close
    BY <1>7, <2>3 DEF Close, Chain!Close, requested, opened
  <2> QED
    BY <2>4 DEF Chain!Next
<1>8. CASE SetCrtcFails \/ SetCrtcReturns \/ LoopAgain \/ WakeUp \/ LeaveLoop
  BY <1>8, ChainStutter
  DEF SetCrtcFails, SetCrtcReturns, LoopAgain, WakeUp, LeaveLoop, AppGoto, kmsVars, commitVars,
    Requested, opened
<1>9. CASE sigint_handler \/ UNCHANGED vars
  BY <1>9, ChainStutter
  DEF sigint_handler, vars, appVars, kmsVars, commitVars, Requested, opened
<1>10. CASE RmFbReturns("rm1_wait", "rm0") \/ RmFbReturns("rm0_wait", "close")
  BY <1>10, ChainStutter DEF RmFbReturns, AppGoto, kmsVars, commitVars, Requested, opened
<1>11. CASE RmFb(1, "rm1", "rm1_wait", "rm0") \/ RmFb(0, "rm0", "rm0_wait", "close")
  BY <1>11, RmFbRefines
<1>12. ASSUME Quiet, UNCHANGED appVars
       PROVE  UNCHANGED Chain!vars
  BY <1>12, QuietRequested, ChainStutter DEF Quiet, SlotKept, appVars, Requested, opened
<1>13. CASE \/ \E s \in Slots : KernelCommit(s)
            \/ KernelTimer
            \/ (DisableTimer \/ DisableTimerEnds) /\ UNCHANGED appVars
  BY <1>12, <1>13, KernelQuiet, FlushRefines DEF KernelCommit, KernelTimer
<1> QED
  BY <1>1, <1>2, <1>3, <1>4, <1>5, <1>6, <1>7, <1>8, <1>9, <1>10, <1>11, <1>13 DEF Next, AppStep

(* The page flip application on the display driver implements FlipChain:   *)
(* one flip at a time, shown and answered in one step, none lost.          *)
THEOREM Refinement == Spec => ImplementsFlipChain
<1>1. Init => Chain!Init
  BY DEF Init, VkmsInit, Chain!Init, Requested
<1>2. IInv /\ [Next]_vars => [Chain!Next]_(Chain!vars)
  BY NextRefines
<1> QED
  BY <1>1, <1>2, Invariance, PTL DEF Spec, Chain!Spec, ImplementsFlipChain

=============================================================================
