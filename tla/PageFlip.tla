------------------------------ MODULE PageFlip ------------------------------
(***************************************************************************)
(* The application modeset-page-flip.c on the driver vkms: it shows its    *)
(* first buffer, requests a flip, and then requests the next flip from the *)
(* handler of the event of the one before, until SIGINT is noticed.  It    *)
(* may be started again.  It tests the result of no call, and any of them  *)
(* may fail.                                                               *)
(***************************************************************************)
EXTENDS Vkms

VARIABLES
  app,       \* position of the main thread
  terminate, \* set by sigint_handler
  i,         \* the static variable of modeset_page_flip_handler
  fbs,       \* the framebuffers modeset_create_fb could make
  failed     \* a page flip of this run was refused, not for a pending commit

appVars == <<app, terminate, i, fbs, failed>>
vars == <<kmsVars, appVars>>

ASSUME FbAssumption == Fbs = {0, 1} /\ None \notin Fbs

AppStates ==
  {"start", "setcrtc", "setcrtc_wait", "flip", "check", "read", "handler",
   "sleep", "rm1", "rm1_wait", "rm0", "rm0_wait", "close"}

Init ==
  /\ VkmsInit
  /\ app = "start" /\ terminate = FALSE /\ i = 0
  /\ fbs = {} /\ failed = FALSE

AppGoto(from, to) == app = from /\ app' = to

(* main up to the creation of both framebuffers.  Without memory, or when  *)
(* drmModeAddFB fails, fb_id stays 0 and the program goes on; a failed     *)
(* mmap kills it before it has shown anything.                             *)
Start ==
  /\ AppGoto("start", "setcrtc")
  /\ terminate' = FALSE /\ i' = 0
  /\ fbs' \in SUBSET Fbs /\ failed' = FALSE
  /\ UNCHANGED kmsVars

SetCrtc ==
  /\ driver = "vkms_drv" /\ AppGoto("setcrtc", "setcrtc_wait")
  /\ 0 \in fbs
  /\ SwapState("enable", 0, FALSE)
  /\ UNCHANGED <<terminate, i, fbs, failed>>

(* The call fails, as it does with fb_id 0: the display stays off. *)
SetCrtcFails ==
  /\ AppGoto("setcrtc", "flip")
  /\ UNCHANGED <<kmsVars, terminate, i, fbs, failed>>

(* A blocking commit: the call returns when the commit is cleaned up. *)
SetCrtcReturns ==
  /\ commits[newest].phase = "none"
  /\ AppGoto("setcrtc_wait", "flip")
  /\ UNCHANGED <<kmsVars, terminate, i, fbs, failed>>

SetCrtcLegacy ==
  /\ driver = "vkms_drv_5" /\ AppGoto("setcrtc", "flip")
  /\ 0 \in fbs
  /\ LegacySetCrtc(0)
  /\ UNCHANGED <<terminate, i, fbs, failed>>

(***************************************************************************)
(* drmModePageFlip with an event.  Its result is ignored: when the commit  *)
(* before is not flushed the call fails with EBUSY, and it may fail for    *)
(* many other reasons: no memory, the DRM master lost, no such framebuffer,*)
(* a display that is off.  There will then be no event.                    *)
(***************************************************************************)
drmModePageFlip(fb) ==
  \/ /\ fb \in fbs /\ plane # None
     /\ IF driver = "vkms_drv_5" THEN vkms_crtc_page_flip(fb)
        ELSE IF Busy THEN UNCHANGED kmsVars
        ELSE SwapState("flip", fb, TRUE)
     /\ UNCHANGED failed
  \/ failed' = TRUE /\ UNCHANGED kmsVars

FirstFlip ==
  /\ AppGoto("flip", "check")
  /\ drmModePageFlip(0)
  /\ UNCHANGED <<terminate, i, fbs>>

LoopAgain ==
  /\ ~terminate
  /\ AppGoto("check", "read")
  /\ UNCHANGED <<kmsVars, terminate, i, fbs, failed>>

(* drmHandleEvent blocks in read.  A signal does not end the read: signal  *)
(* installs the handler with SA_RESTART.                                   *)
drmHandleEvent ==
  /\ AppGoto("read", "handler")
  /\ events > 0 /\ events' = events - 1
  /\ UNCHANGED <<driver, smp, plane, front, commits, newest, vblankVars, terminate, i, fbs, failed>>

(* Mutant: i is toggled after the flip. *)
FlipThenToggle ==
  /\ AppGoto("handler", "sleep")
  /\ i' = 1 - i
  /\ drmModePageFlip(i)
  /\ UNCHANGED <<terminate, fbs>>

(* Mutant: i counts up. *)
HandlerCountsUp ==
  /\ AppGoto("handler", "sleep")
  /\ i' = i + 1
  /\ drmModePageFlip(i')
  /\ UNCHANGED <<terminate, fbs>>

modeset_page_flip_handler ==
  /\ AppGoto("handler", "sleep")
  /\ i' = 1 - i
  /\ drmModePageFlip(i')
  /\ UNCHANGED <<terminate, fbs>>

(* Mutant: a flip is requested in the loop as well. *)
FlipInLoop ==
  /\ AppGoto("sleep", "flip")
  /\ UNCHANGED <<kmsVars, terminate, i, fbs, failed>>

WakeUp ==
  /\ AppGoto("sleep", "check")
  /\ UNCHANGED <<kmsVars, terminate, i, fbs, failed>>

sigint_handler ==
  /\ app # "start"
  /\ terminate' = TRUE
  /\ UNCHANGED <<kmsVars, app, i, fbs, failed>>

LeaveLoop ==
  /\ terminate
  /\ AppGoto("check", "rm1")
  /\ UNCHANGED <<kmsVars, terminate, i, fbs, failed>>

(* drmModeRmFB: a framebuffer that the plane uses takes the CRTC down. *)
RmFb(fb, at, wait, next) ==
  /\ \/ plane # fb /\ AppGoto(at, next) /\ UNCHANGED kmsVars
     \/ /\ driver = "vkms_drv" /\ plane = fb /\ AppGoto(at, wait)
        /\ SwapState("disable", None, FALSE)
     \/ /\ driver = "vkms_drv_5" /\ plane = fb /\ AppGoto(at, next)
        /\ LegacySetCrtc(None)
  /\ UNCHANGED <<terminate, i, fbs, failed>>

RmFbReturns(wait, next) ==
  /\ commits[newest].phase = "none"
  /\ AppGoto(wait, next)
  /\ UNCHANGED <<kmsVars, terminate, i, fbs, failed>>

(* Closing the device drops the events nobody has read. *)
Close ==
  /\ AppGoto("close", "start")
  /\ events' = 0
  /\ commits' = [s \in Slots |-> [commits[s] EXCEPT !.user = FALSE]]
  /\ terminate' = FALSE
  /\ UNCHANGED <<driver, smp, plane, front, newest, vblankVars, i, fbs, failed>>

AppStep ==
  \/ SetCrtc
  \/ SetCrtcReturns
  \/ SetCrtcLegacy
  \/ SetCrtcFails
  \/ FirstFlip
  \/ LoopAgain
  \/ drmHandleEvent
  \/ modeset_page_flip_handler
  \/ WakeUp
  \/ LeaveLoop
  \/ RmFb(1, "rm1", "rm1_wait", "rm0")
  \/ RmFbReturns("rm1_wait", "rm0")
  \/ RmFb(0, "rm0", "rm0_wait", "close")
  \/ RmFbReturns("rm0_wait", "close")
  \/ Close

KernelCommit(s) == CommitTail(s) /\ UNCHANGED appVars
KernelTimer == Timer /\ UNCHANGED appVars

Next ==
  \/ Start
  \/ AppStep
  \/ sigint_handler
  \/ \E s \in Slots : KernelCommit(s)
  \/ KernelTimer
  \/ DisableTimer /\ UNCHANGED appVars
  \/ DisableTimerEnds /\ UNCHANGED appVars

Spec == Init /\ [][Next]_vars

(* The scheduler runs the application and the workers, and the clock runs. *)
(* The callback takes far less than the 16 ms between two of them, so a    *)
(* commit that only waits for the callback to return gets its turn: strong *)
(* fairness.  Nobody has to start the application or to interrupt it.      *)
Fairness ==
  /\ WF_vars(AppStep)
  /\ \A s \in Slots : SF_vars(KernelCommit(s))
  /\ WF_vars(KernelTimer)
  /\ WF_vars(DisableTimerEnds /\ UNCHANGED appVars)

FairSpec == Spec /\ Fairness

-----------------------------------------------------------------------------
(* Properties.                                                             *)

(* The type invariant of driver and application. *)
TypeOK ==
  /\ driver \in Drivers /\ smp \in BOOLEAN
  /\ plane \in Fbs \cup {None} /\ front \in Fbs \cup {None}
  /\ events \in Nat
  /\ commits \in [Slots -> Commits] /\ newest \in Slots
  /\ off \in BOOLEAN /\ enabled \in BOOLEAN
  /\ timer \in {"idle", "armed", "fired"}
  /\ callback \in {"idle", "running", "handled"}
  /\ lock \in {"free", "disable_timer", "vblank_off"}
  /\ app \in AppStates /\ terminate \in BOOLEAN /\ i \in Fbs
  /\ fbs \subseteq Fbs /\ failed \in BOOLEAN

Requested == {s \in Slots : commits[s].user}

NoFlip == Requested = {} /\ events = 0

OneFlip ==
  \/ Requested = {} /\ events = 1
  \/ events = 0 /\ \E s \in Slots : Requested = {s}

(* While the application is in its loop exactly one flip is on its way:    *)
(* requested, or its event not yet handled; with two a flip could fail     *)
(* with EBUSY.  Only a call that fails, for another reason than the flips  *)
(* of the application itself, breaks the chain, and nothing takes it up    *)
(* again: the read blocks for ever and SIGINT is not noticed.              *)
OneFlipOnItsWay ==
  app \in {"check", "read", "sleep"} => IF failed THEN NoFlip ELSE OneFlip

(* No flip request of the application meets a commit that is not flushed:  *)
(* ignoring the result of drmModePageFlip loses no flip.                   *)
NeverBusy == app \in {"flip", "handler"} => ~Busy

(* The timer runs exactly while vblanks are enabled, except in the middle  *)
(* of disabling them: vkms_enable_vblank never initialises a timer that is *)
(* queued or whose callback is running, and no callback runs after         *)
(* vkms_disable_vblank.                                                    *)
TimerFollowsVblank ==
  /\ enabled => timer # "idle"
  /\ ~enabled => timer = "idle" /\ callback = "idle"

(* The handler shows the two buffers in turn: unless its flip fails it     *)
(* never asks for the buffer that is being shown.                          *)
Alternates == [][app = "handler" /\ app' = "sleep" /\ ~failed' => plane' # front]_vars

(* A flip was refused, and the application reads an event that will not    *)
(* come: it stays there whatever SIGINT says, on any number of processors. *)
ReadsForEver == failed /\ app = "read"

(* On one processor SIGINT ends the application, but for a refused flip.   *)
TerminatesUp == (terminate /\ ~smp) ~> (app = "start" \/ ReadsForEver)

(* On one processor every flip that was accepted is answered: the          *)
(* application does not stay in read.                                      *)
ReadReturns == (app = "read" /\ ~failed /\ ~smp) ~> app # "read"

(* main's loop ends once sigint_handler has set terminate, the device is   *)
(* closed and main returns; with no flip refused nothing is in its way.    *)
Terminates == terminate ~> (app = "start" \/ failed)

(* The display chain promised to an application. *)
Chain == INSTANCE FlipChain WITH
  open <- app # "start",
  requested <- {commits[s].fb : s \in Requested}

ImplementsFlipChain == Chain!Spec

-----------------------------------------------------------------------------
(* The inductive invariant behind the safety properties.                   *)

(* The callback runs in the states "running" and "handled" of a timer that *)
(* has fired, and in no other.                                             *)
TimerInv == TimerFollowsVblank /\ (callback # "idle" <=> timer = "fired")

(* Only the newest commit is before its flush, and only there a commit     *)
(* still owes its event.  The driver of stage 5 makes no commits.          *)
CommitInv ==
  /\ commits[1 - newest].phase \in HwDone
  /\ \A s \in Slots : commits[s].user =>
       commits[s].phase = "queued" /\ commits[s].kind = "flip" /\ commits[s].fb \in Fbs
  /\ driver = "vkms_drv_5" => \A s \in Slots : commits[s].phase = "none"

(* The last flip of the loop was for buffer i: it is shown, or it is the   *)
(* newest commit and not flushed.                                          *)
LastFlip ==
  /\ driver = "vkms_drv" =>
       /\ commits[newest].kind = "flip" /\ commits[newest].fb = i
       /\ commits[newest].phase = "queued" => commits[newest].user
       /\ commits[newest].phase # "disabled"
  /\ Requested = {} => front = i

(* The display is off before SetCrtc and after the framebuffers are gone,  *)
(* and no commit is left from the time it was on.                          *)
OffInv ==
  /\ app \in {"start", "setcrtc", "rm1_wait", "rm0_wait", "close"} => plane = None
  /\ app = "rm0" => plane # 1
  /\ plane = None /\ app \notin {"setcrtc_wait", "rm1_wait", "rm0_wait"} =>
       commits[newest].phase = "none"

(* What holds at each position of main. *)
AppInv ==
  /\ app \in {"start", "setcrtc", "setcrtc_wait", "flip"} => NoFlip
  /\ app \in {"setcrtc", "setcrtc_wait", "flip"} => i = 0 /\ ~failed
  /\ app = "flip" => commits[newest].phase = "none"
  /\ app \in {"check", "read", "sleep", "rm1", "rm1_wait", "rm0", "rm0_wait", "close"} =>
       IF failed THEN NoFlip ELSE OneFlip
  /\ app = "handler" => NoFlip /\ ~failed
  /\ app \in {"check", "read", "handler", "sleep"} /\ ~failed => LastFlip

IInv == TypeOK /\ TimerInv /\ CommitInv /\ OffInv /\ AppInv

=============================================================================
