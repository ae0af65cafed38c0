-------------------------------- MODULE Vkms --------------------------------
(***************************************************************************)
(* The virtual display driver drm/driver/vkms/vkms_drv.c below the DRM     *)
(* core: an hrtimer stands for the vertical blank interrupt, enabled and   *)
(* disabled through vkms_enable_vblank and vkms_disable_vblank, and        *)
(* vkms_crtc_atomic_flush sends the event of a commit.  The DRM core that  *)
(* calls these (commits in two slots, vblank references, the locks of      *)
(* drm_vblank.c) is external and modelled from the callbacks it makes.     *)
(*                                                                         *)
(* vkms_drv_5.c is the stage of the driver before atomic modesetting: it   *)
(* flips and sends the event inside the page flip call.                    *)
(***************************************************************************)
EXTENDS Naturals

CONSTANTS Fbs, None

Drivers == {"vkms_drv_5", "vkms_drv"}

VARIABLES
  driver,   \* the driver that is loaded
  smp,      \* the machine has more than one processor
  plane,    \* framebuffer of the newest state of the primary plane
  front,    \* framebuffer the display shows
  events,   \* flip events queued on the file of the application
  commits,  \* commits[s]: the commit in slot s
  newest,   \* slot of the newest commit
  off,      \* vblank->inmodeset: drm_crtc_vblank_off was called
  enabled,  \* vblank->enabled
  timer,    \* vblank_hrtimer: "idle", "armed", or "fired" during the callback
  callback, \* progress of vkms_vblank_simulate
  lock      \* who holds vblank_time_lock across vkms_disable_vblank

vblankVars == <<off, enabled, timer, callback, lock>>
commitVars == <<plane, front, events, commits, newest>>
kmsVars == <<driver, smp, vblankVars, commitVars>>

Slots == {0, 1}
Kinds == {"enable", "flip", "disable"}

(***************************************************************************)
(* A commit is queued once its state is swapped in, then its hardware part *)
(* is done ("flushed" after atomic_flush, "hw_done" after commit_hw_done), *)
(* and it waits for a vblank with a reference before it cleans up.         *)
(***************************************************************************)
Phases == {"none", "queued", "disabled", "flushed", "hw_done", "waiting", "woken"}
HwDone == {"none", "hw_done", "waiting", "woken"}
Commits == [phase: Phases, kind: Kinds, fb: Fbs \cup {None}, user: BOOLEAN]

(* Commits that hold a vblank reference. *)
Waiters == {s \in Slots : commits[s].phase \in {"waiting", "woken"}}

VkmsInit ==
  /\ driver \in Drivers /\ smp \in BOOLEAN
  /\ plane = None /\ front = None /\ events = 0
  /\ commits = [s \in Slots |->
       [phase |-> "none", kind |-> "disable", fb |-> None, user |-> FALSE]]
  /\ newest = 0
  /\ off = FALSE /\ enabled = FALSE
  /\ timer = "idle" /\ callback = "idle" /\ lock = "free"

-----------------------------------------------------------------------------
(* The vblank timer.                                                       *)

(* On one processor the timer cannot interrupt the code that disables      *)
(* vblanks, which runs with interrupts off, and is not interrupted by it.  *)
TimerFires ==
  /\ timer = "armed"
  /\ smp \/ lock = "free"
  /\ timer' = "fired" /\ callback' = "running"
  /\ UNCHANGED <<driver, smp, off, enabled, lock, commitVars>>

(* drm_crtc_handle_vblank: takes vblank_time_lock and wakes the waiters. *)
HandleVblank ==
  /\ callback = "running" /\ lock = "free"
  /\ callback' = "handled"
  /\ commits' = [s \in Slots |->
       IF s \in Waiters THEN [commits[s] EXCEPT !.phase = "woken"] ELSE commits[s]]
  /\ UNCHANGED <<driver, smp, off, enabled, timer, lock, plane, front, events, newest>>

(* Mutant: the callback returns HRTIMER_NORESTART. *)
SimulateOnce ==
  /\ callback = "handled"
  /\ callback' = "idle" /\ timer' = "idle"
  /\ UNCHANGED <<driver, smp, off, enabled, lock, commitVars>>

(* hrtimer_forward_now, HRTIMER_RESTART. *)
vkms_vblank_simulate ==
  /\ callback = "handled"
  /\ callback' = "idle" /\ timer' = "armed"
  /\ UNCHANGED <<driver, smp, off, enabled, lock, commitVars>>

(* hrtimer_init and hrtimer_start. *)
vkms_enable_vblank == enabled' = TRUE /\ timer' = "armed"

(* drm_vblank_disable_and_save takes the locks ... *)
DisableBegins(who) ==
  /\ enabled /\ lock = "free"
  /\ smp \/ callback = "idle"
  /\ lock' = who
  /\ UNCHANGED <<driver, smp, off, enabled, timer, callback>>

(* Mutant: hrtimer_try_to_cancel, which gives up on a running callback. *)
TryToCancel ==
  /\ enabled' = FALSE
  /\ timer' = IF callback = "idle" THEN "idle" ELSE timer

(* ... and calls the driver, whose hrtimer_cancel waits until the callback *)
(* is not running.                                                         *)
vkms_disable_vblank ==
  /\ callback = "idle"
  /\ enabled' = FALSE /\ timer' = "idle"

(* vblank_disable_fn, some time after the last reference is gone. *)
DisableTimer ==
  /\ ~off /\ Waiters = {}
  /\ DisableBegins("disable_timer")
  /\ UNCHANGED commitVars

DisableTimerEnds ==
  /\ lock = "disable_timer"
  /\ vkms_disable_vblank
  /\ lock' = "free"
  /\ UNCHANGED <<driver, smp, off, callback, commitVars>>

-----------------------------------------------------------------------------
(* Commits.                                                                *)

Busy == commits[newest].phase \in {"queued", "disabled"}

(***************************************************************************)
(* drm_atomic_helper_commit up to the swap of the states: it waits for the *)
(* clean-up of the commit before the last, and for the hardware part of    *)
(* the last.                                                               *)
(***************************************************************************)
SwapState(kind, fb, user) ==
  /\ commits[1 - newest].phase = "none"
  /\ commits[newest].phase \in HwDone
  /\ commits' = [commits EXCEPT ![1 - newest] =
       [phase |-> "queued", kind |-> kind, fb |-> fb, user |-> user]]
  /\ newest' = 1 - newest
  /\ plane' = fb
  /\ UNCHANGED <<driver, smp, front, events, vblankVars>>

Advance(s, from, to) ==
  /\ commits[s].phase = from
  /\ commits' = [commits EXCEPT ![s].phase = to]

(* vkms_crtc_atomic_disable of an active CRTC: drm_crtc_vblank_off. *)
VblankOffBegins(s) ==
  /\ commits[s].phase = "queued" /\ commits[s].kind = "disable"
  /\ DisableBegins("vblank_off")
  /\ UNCHANGED commitVars

VblankOffEnds(s) ==
  /\ commits[s].kind = "disable"
  /\ Advance(s, "queued", "disabled")
  /\ \/ lock = "vblank_off" /\ vkms_disable_vblank /\ lock' = "free"
     \/ lock = "free" /\ ~enabled /\ UNCHANGED <<enabled, timer, lock>>
  /\ off' = TRUE
  /\ UNCHANGED <<driver, smp, callback, plane, front, events, newest>>

(* Mutant: the event is left for a vblank handler that does not exist. *)
FlushArmsEvent(s) ==
  /\ commits[s].phase = IF commits[s].kind = "disable" THEN "disabled" ELSE "queued"
  /\ lock = "free"
  /\ commits' = [commits EXCEPT ![s].phase = "flushed", ![s].user = FALSE]
  /\ front' = commits[s].fb
  /\ UNCHANGED <<driver, smp, vblankVars, plane, events, newest>>

(* The plane is updated and the event of the commit sent at once. *)
vkms_crtc_atomic_flush(s) ==
  /\ commits[s].phase = IF commits[s].kind = "disable" THEN "disabled" ELSE "queued"
  /\ lock = "free"
  /\ commits' = [commits EXCEPT ![s].phase = "flushed", ![s].user = FALSE]
  /\ front' = commits[s].fb
  /\ events' = IF commits[s].user THEN events + 1 ELSE events
  /\ UNCHANGED <<driver, smp, vblankVars, plane, newest>>

(* drm_crtc_vblank_on; then drm_atomic_helper_commit_hw_done. *)
vkms_crtc_atomic_enable(s) ==
  /\ commits[s].kind = "enable" /\ lock = "free"
  /\ Advance(s, "flushed", "hw_done")
  /\ off' = FALSE
  /\ UNCHANGED <<driver, smp, enabled, timer, callback, lock, plane, front, events, newest>>

CommitHwDone(s) ==
  /\ commits[s].kind # "enable"
  /\ Advance(s, "flushed", "hw_done")
  /\ UNCHANGED <<driver, smp, vblankVars, plane, front, events, newest>>

(* drm_crtc_vblank_get; the first reference enables vblanks, unless they   *)
(* are still enabled.                                                      *)
WaitForVblank(s) ==
  /\ commits[s].kind # "disable"
  /\ ~off /\ lock = "free"
  /\ Advance(s, "hw_done", "waiting")
  /\ IF enabled THEN UNCHANGED <<enabled, timer>> ELSE vkms_enable_vblank
  /\ UNCHANGED <<driver, smp, off, callback, lock, plane, front, events, newest>>

(* The CRTC is off, or the wait is over: a vblank came, or 50 ms passed. *)
CleanupDone(s) ==
  /\ lock = "free"
  /\ \/ Advance(s, "hw_done", "none") /\ (off \/ commits[s].kind = "disable")
     \/ Advance(s, "waiting", "none")
     \/ Advance(s, "woken", "none")
  /\ UNCHANGED <<driver, smp, vblankVars, plane, front, events, newest>>

CommitTail(s) ==
  \/ VblankOffBegins(s)
  \/ VblankOffEnds(s)
  \/ vkms_crtc_atomic_flush(s)
  \/ vkms_crtc_atomic_enable(s)
  \/ CommitHwDone(s)
  \/ WaitForVblank(s)
  \/ CleanupDone(s)

Timer ==
  \/ TimerFires
  \/ HandleVblank
  \/ vkms_vblank_simulate

-----------------------------------------------------------------------------
(* The driver of stage 5.                                                  *)

vkms_crtc_page_flip(fb) ==
  /\ plane' = fb /\ front' = fb
  /\ events' = events + 1
  /\ UNCHANGED <<driver, smp, commits, newest, vblankVars>>

LegacySetCrtc(fb) ==
  /\ plane' = fb /\ front' = fb
  /\ UNCHANGED <<driver, smp, events, commits, newest, vblankVars>>

=============================================================================
