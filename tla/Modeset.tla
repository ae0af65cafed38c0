------------------------------ MODULE Modeset -------------------------------
(***************************************************************************)
(* The programs of drm/application, except modeset-page-flip: each is a    *)
(* sequence of calls on /dev/dri/card0, and none looks at the result of a  *)
(* call.  Processes run them side by side, fail in any call, wait for a    *)
(* key, are interrupted, and run again.                                    *)
(*                                                                         *)
(* The display is one CRTC with its primary plane.  Who opens the device   *)
(* first is the master, and only its calls change the display.             *)
(***************************************************************************)
EXTENDS DumbBuffers, Sequences

CONSTANTS
  Threaded,  \* processes with a second thread
  MayRun     \* MayRun[p]: the programs process p may run

ASSUME ThreadAssumption == Threaded \subseteq Procs

VARIABLES
  open,    \* processes that have the device open
  master,
  todo,    \* todo[p]: the calls p still has to make
  failed,  \* processes one of whose calls has failed
  dying,   \* processes that got a signal for an invalid access
  stuck,   \* processes that wait for a lock for ever
  blob,    \* processes that have a property blob
  shown,   \* the slot of the framebuffer of the primary plane
  active   \* the CRTC is on

displayVars == <<master, blob, shown, active>>
procVars == <<open, todo, failed, dying, stuck>>
vars == <<dumbVars, displayVars, procVars>>

Init ==
  /\ DumbInit
  /\ open = {} /\ master = None
  /\ todo = [p \in Procs |-> <<>>]
  /\ failed = {} /\ dying = {} /\ stuck = {} /\ blob = {}
  /\ shown = None /\ active = FALSE

-----------------------------------------------------------------------------
(* The programs.                                                           *)

modeset_create_fb(b) ==
  << <<"create", b>>, <<"addfb", b>>, <<"mmap", b>>, <<"fill", b>> >>

(* Mutant: the mapping is left to the end of the process. *)
DestroyFbStaysMapped(b) == << <<"rmfb", b>>, <<"destroy", b>> >>

modeset_destroy_fb(b) == << <<"rmfb", b>>, <<"munmap", b>>, <<"destroy", b>> >>

getchar == << <<"getchar", 1>> >>

single_buffer ==
  modeset_create_fb(1) \o << <<"setcrtc", 1>> >> \o getchar \o modeset_destroy_fb(1)

double_buffer ==
  modeset_create_fb(1) \o modeset_create_fb(2)
    \o << <<"setcrtc", 1>> >> \o getchar \o << <<"setcrtc", 2>> >> \o getchar
    \o modeset_destroy_fb(2) \o modeset_destroy_fb(1)

plane_test ==
  modeset_create_fb(1) \o << <<"setcrtc", 1>> >> \o getchar
    \o << <<"setplane", 1>> >> \o getchar \o modeset_destroy_fb(1)

(* The mode blob is destroyed by nobody but close. *)
atomic_crtc ==
  modeset_create_fb(1) \o << <<"blob", 1>>, <<"commit_crtc", 1>> >> \o getchar
    \o << <<"setplane", 1>> >> \o getchar \o modeset_destroy_fb(1)

atomic_plane ==
  modeset_create_fb(1) \o << <<"blob", 1>>, <<"commit_crtc", 1>> >> \o getchar
    \o << <<"commit_plane", 1>> >> \o getchar \o modeset_destroy_fb(1)

my_gem ==
  << <<"create", 1>>, <<"mmap", 1>>, <<"fill", 1>>, <<"munmap", 1>>,
     <<"mmap", 1>>, <<"read", 1>>, <<"munmap", 1>> >>
    \o getchar \o << <<"destroy", 1>> >>

(* The drivers cma and my-gem have no display. *)
HasDisplay == driver \in {"vkms_drv_5", "vkms_drv"}
HasAtomic == driver = "vkms_drv"

AllPrograms ==
  {single_buffer, double_buffer, plane_test, atomic_crtc, atomic_plane, my_gem}

Programs(p) == MayRun[p] \cap (IF HasDisplay THEN AllPrograms ELSE {my_gem})

Start(p) ==
  /\ p \notin open
  /\ open' = open \cup {p}
  /\ master' = IF master = None THEN p ELSE master
  /\ \E program \in Programs(p) : todo' = [todo EXCEPT ![p] = program]
  /\ UNCHANGED <<dumbVars, blob, shown, active, failed, dying, stuck>>

Runs(p) == p \in open \ (dying \cup stuck)
At(p, call, b) == Runs(p) /\ todo[p] # <<>> /\ Head(todo[p]) = <<call, b>>

(* The call returns and its result is ignored. *)
Call(p, call, b) ==
  /\ At(p, call, b)
  /\ todo' = [todo EXCEPT ![p] = Tail(@)]
  /\ UNCHANGED <<open, dying, stuck>>

Ok == UNCHANGED failed
Fails(p) == failed' = failed \cup {p}

-----------------------------------------------------------------------------
(* Calls on buffers.                                                       *)

CreateDumb(p, b) ==
  /\ UNCHANGED displayVars
  /\ \/ Call(p, "create", b) /\ HelperDumbCreate(<<p, b>>) /\ Ok
     \/ At(p, "create", b) /\ drm_gem_cma_dumb_create_handle(<<p, b>>) /\ UNCHANGED procVars
     \/ Call(p, "create", b) /\ drm_gem_cma_dumb_create_alloc(<<p, b>>) /\ Ok
     \/ Call(p, "create", b) /\ drm_gem_cma_dumb_create_no_handle(<<p, b>>) /\ Fails(p)

(* No memory: the helpers return an error, drm/driver/cma works with NULL. *)
CreateDumbFails(p, b) ==
  /\ handle[<<p, b>>] = None /\ UNCHANGED <<dumbVars, displayVars>>
  /\ \/ Call(p, "create", b) /\ driver # "cma" /\ Fails(p)
     \/ /\ At(p, "create", b) /\ driver = "cma" /\ FreeObjects = {}
        /\ dying' = dying \cup {p}
        /\ UNCHANGED <<open, todo, failed, stuck>>

drmModeAddFB(p, b) ==
  /\ Call(p, "addfb", b)
  /\ UNCHANGED displayVars
  /\ \/ AddFb(<<p, b>>) /\ Ok
     \/ UNCHANGED dumbVars /\ Fails(p)

(* DRM_IOCTL_MODE_MAP_DUMB and mmap. *)
Mmap(p, b) ==
  /\ Call(p, "mmap", b)
  /\ handle[<<p, b>>] # None
  /\ drm_gem_cma_mmap(<<p, b>>, handle[<<p, b>>])
  /\ UNCHANGED displayVars /\ Ok

(* mmap fails before it reaches drm/driver/cma, or in it. *)
MmapFails(p, b) ==
  /\ Call(p, "mmap", b)
  /\ UNCHANGED displayVars /\ Fails(p)
  /\ UNCHANGED dumbVars \/ drm_gem_cma_mmap_fails(<<p, b>>)

(* drm/driver/cma goes on after drm_gem_mmap has refused an offset that    *)
(* MAP_DUMB failed to provide, and dies with mmap_sem held.                *)
MmapKilled(p, b) ==
  /\ At(p, "mmap", b) /\ driver = "cma"
  /\ stuck' = stuck \cup {p}
  /\ UNCHANGED <<dumbVars, displayVars, open, todo, failed, dying>>

(* memset, strcpy and printf go through the mapping. *)
Access(p, b) ==
  /\ vma[<<p, b>>] # None
  /\ Call(p, "fill", b) \/ Call(p, "read", b)
  /\ painted' = painted \cup {vma[<<p, b>>]}
  /\ UNCHANGED <<driver, refs, memory, handle, fb, vma, foreign, displayVars, failed>>

(* Mutant: create_fb returns when there is no mapping. *)
AccessSkipped(p, b) ==
  /\ vma[<<p, b>>] = None
  /\ Call(p, "fill", b) \/ Call(p, "read", b)
  /\ UNCHANGED <<dumbVars, displayVars, failed>>

AccessKills(p, b) ==
  /\ vma[<<p, b>>] = None
  /\ At(p, "fill", b) \/ At(p, "read", b)
  /\ dying' = dying \cup {p}
  /\ UNCHANGED <<dumbVars, displayVars, open, todo, failed, stuck>>

Munmap(p, b) ==
  /\ Call(p, "munmap", b)
  /\ Put({}, {}, {<<p, b>>})
  /\ UNCHANGED <<displayVars, failed>>

DestroyDumb(p, b) ==
  /\ Call(p, "destroy", b)
  /\ Put({<<p, b>>}, {}, {})
  /\ UNCHANGED <<displayVars, failed>>

(* The drivers serve other programs than these: a second thread of a       *)
(* process maps the first handle, which it guesses.                        *)
HelperMaps(p) ==
  /\ p \in Threaded /\ Runs(p) /\ driver = "cma"
  /\ handle[<<p, 1>>] # None
  /\ drm_gem_cma_mmap(<<p, 2>>, handle[<<p, 1>>])
  /\ UNCHANGED <<displayVars, procVars>>

-----------------------------------------------------------------------------
(* Calls on the display.                                                   *)

(* Taking the shown framebuffer away turns the CRTC off. *)
HidesFb(gone) ==
  IF shown \in gone THEN shown' = None /\ active' = FALSE ELSE UNCHANGED <<shown, active>>

drmModeRmFB(p, b) ==
  /\ Call(p, "rmfb", b)
  /\ Put({}, {<<p, b>>}, {})
  /\ HidesFb({<<p, b>>})
  /\ UNCHANGED <<master, blob, failed>>

DisplayCall(p, call, b) == Call(p, call, b) /\ UNCHANGED <<dumbVars, master>>

drmModeSetCrtc(p, b) ==
  /\ DisplayCall(p, "setcrtc", b)
  /\ master = p /\ fb[<<p, b>>] # None
  /\ shown' = <<p, b>> /\ active' = TRUE
  /\ UNCHANGED blob /\ Ok

(* The plane alone.  Without atomic modesetting the primary plane has to   *)
(* cover the CRTC, which 320 by 320 at (50, 50) does not.                  *)
drmModeSetPlane(p, b) ==
  /\ DisplayCall(p, "setplane", b) \/ DisplayCall(p, "commit_plane", b)
  /\ master = p /\ fb[<<p, b>>] # None /\ HasAtomic
  /\ shown' = <<p, b>>
  /\ UNCHANGED <<blob, active>> /\ Ok

drmModeCreatePropertyBlob(p) ==
  /\ DisplayCall(p, "blob", 1)
  /\ blob' = blob \cup {p}
  /\ UNCHANGED <<shown, active>> /\ Ok

(* Mutant: ACTIVE is not among the properties. *)
CommitInactive(p) ==
  /\ DisplayCall(p, "commit_crtc", 1)
  /\ master = p /\ HasAtomic /\ blob # {}
  /\ UNCHANGED <<blob, shown, active>> /\ Ok

(* ACTIVE, MODE_ID and CRTC_ID.  A blob_id that was never set may be that  *)
(* of any blob.                                                            *)
drmModeAtomicCommit(p) ==
  /\ DisplayCall(p, "commit_crtc", 1)
  /\ master = p /\ HasAtomic /\ blob # {}
  /\ active' = TRUE
  /\ UNCHANGED <<blob, shown>> /\ Ok

(* No master, no framebuffer, no blob, not implemented, or no memory. *)
DisplayCallFails(p) ==
  /\ Runs(p) /\ todo[p] # <<>>
  /\ Head(todo[p])[1] \in {"setcrtc", "setplane", "blob", "commit_crtc", "commit_plane"}
  /\ DisplayCall(p, Head(todo[p])[1], Head(todo[p])[2])
  /\ UNCHANGED <<blob, shown, active>> /\ Fails(p)

-----------------------------------------------------------------------------

KeyPressed(p) == Call(p, "getchar", 1) /\ UNCHANGED <<dumbVars, displayVars, failed>>

(* Whatever the end of a process, the kernel closes the device. *)
Exit(p) ==
  LET own == {p} \X {1, 2}
  IN
  /\ p \in open \ stuck
  /\ Put(own, own, own)
  /\ HidesFb(own)
  /\ open' = open \ {p} /\ failed' = failed \ {p} /\ dying' = dying \ {p}
  /\ blob' = blob \ {p}
  /\ master' = IF master = p THEN None ELSE master
  /\ todo' = [todo EXCEPT ![p] = <<>>]
  /\ UNCHANGED stuck

close(p) == (todo[p] = <<>> \/ p \in dying) /\ Exit(p)

Step(p) ==
  \/ \E b \in {1, 2} :
       \/ CreateDumb(p, b)
       \/ CreateDumbFails(p, b)
       \/ drmModeAddFB(p, b)
       \/ Mmap(p, b)
       \/ MmapFails(p, b)
       \/ MmapKilled(p, b)
       \/ Access(p, b)
       \/ AccessKills(p, b)
       \/ Munmap(p, b)
       \/ DestroyDumb(p, b)
       \/ drmModeRmFB(p, b)
       \/ drmModeSetCrtc(p, b)
       \/ drmModeSetPlane(p, b)
  \/ drmModeCreatePropertyBlob(p)
  \/ drmModeAtomicCommit(p)
  \/ DisplayCallFails(p)
  \/ close(p)

Next ==
  \E p \in Procs :
    \/ Start(p)
    \/ Step(p)
    \/ HelperMaps(p)
    \/ KeyPressed(p)
    \/ Exit(p) \* SIGINT

Spec == Init /\ [][Next]_vars

(* Programs are scheduled.  Nobody has to start one or to press a key. *)
FairSpec == Spec /\ \A p \in Procs : WF_vars(Step(p))

-----------------------------------------------------------------------------
(* Properties.                                                             *)

(* The type invariant of drivers, display and programs. *)
TypeOK ==
  /\ DumbTypeOK
  /\ open \subseteq Procs /\ master \in open \cup {None}
  /\ todo \in [Procs -> Seq({getchar[1]} \cup
       ({"create", "addfb", "mmap", "fill", "read", "munmap", "rmfb", "destroy", "setcrtc",
         "setplane", "blob", "commit_crtc", "commit_plane"} \X {1, 2}))]
  /\ failed \subseteq open /\ dying \subseteq open /\ stuck \subseteq open
  /\ blob \subseteq open
  /\ shown \in Slots \cup {None} /\ active \in BOOLEAN

(* With the CMA helpers an object has its memory as long as a handle, a    *)
(* framebuffer or a mapping refers to it, and no longer, whichever call of *)
(* a program fails or is interrupted.                                      *)
RefsExact ==
  driver # "cma" => \A o \in Objects :
    /\ refs[o] = Cardinality(References(o))
    /\ o \in memory <=> refs[o] > 0

(* When a program has made its last call it has undone what it did: before *)
(* the device is closed nothing is left of its buffers, and the display no *)
(* longer shows one.                                                       *)
LeavesNothing ==
  driver # "cma" => \A p \in open : todo[p] = <<>> =>
    \A s \in {p} \X {1, 2} :
      handle[s] = None /\ fb[s] = None /\ vma[s] = None /\ shown # s

(* What the display shows is a buffer that has its memory and was filled:  *)
(* no failure and no other process brings stale memory to the screen, nor  *)
(* takes the buffer away under it.                                         *)
ShownIsPainted == shown # None => fb[shown] \in memory \cap painted

AtKey(p) == At(p, "getchar", 1)
StillTo(p, call) == \E i \in 2 .. Len(todo[p]) : todo[p][i][1] = call

(* A modeset program that waits for a key although none of its calls has   *)
(* failed has the display on, and at its last key shows its buffer there:  *)
(* the other process cannot interfere.                                     *)
LitUnlessFailed ==
  \A p \in open \ failed : AtKey(p) /\ StillTo(p, "rmfb") =>
    /\ active
    /\ StillTo(p, "getchar") \/ (shown # None /\ shown[1] = p)

(* A mapping shows memory that is not of its buffer only in drm/driver/cma *)
(* and only because dma_alloc_wc failed, or because a second thread used   *)
(* the handle before the memory was there.                                 *)
ForeignOnlyIf ==
  \A s \in foreign :
    /\ driver = "cma"
    /\ vma[s] \notin memory \/ (s[1] \in Threaded /\ s[2] = 2)

(* drm_gem_cma_dumb_create of drm/driver/cma makes a buffer smaller than   *)
(* its picture only if a row is not a whole number of bytes or its bits    *)
(* overflow 32 bits, which the checks of the core let pass; the product    *)
(* with the height never overflows.                                        *)
ShortOnlyIf ==
  \A r \in Requests : driver = "cma" /\ CoreAccepts(r) =>
    LET bits == r.width * r.bpp
    IN dumb_size(r) < BytesFor(bits) * r.height =>
         bits % 8 # 0 \/ bits >= 2^WordSize

(* With the CMA helpers the memory of a buffer comes back, unless a        *)
(* program waits for a key.                                                *)
MemoryComesBack ==
  \A o \in Objects :
    (o \in memory /\ driver # "cma") ~> (o \notin memory \/ \E p \in Procs : AtKey(p))

-----------------------------------------------------------------------------
(* The inductive invariant behind the safety properties.                   *)

(* Of sequences of calls and sets of calls: some X is among them; no Y     *)
(* comes after an X; after each X comes a Y.                               *)
Has(calls, X) == \E i \in 1 .. Len(calls) : calls[i] \in X

NotAfter(calls, X, Y) ==
  \A i, j \in 1 .. Len(calls) : i < j /\ calls[i] \in X => calls[j] \notin Y

Later(calls, X, Y) ==
  \A i \in 1 .. Len(calls) : calls[i] \in X =>
    \E j \in 1 .. Len(calls) : i < j /\ calls[j] \in Y

Names == {"create", "addfb", "mmap", "fill", "read", "munmap", "rmfb", "destroy", "setcrtc",
          "setplane", "blob", "commit_crtc", "commit_plane", "getchar"}
Each(call) == {call} \X {1, 2}
Key == {getchar[1]}
LightsUp == {<<"setcrtc", 1>>, <<"commit_crtc", 1>>}
Shows == {"setcrtc", "setplane", "commit_plane"}

(* What the programs have in common, and every rest of them has: a buffer  *)
(* is created once and before it is used, made visible once and filled     *)
(* before it is shown; what was done is undone; and the keys come while    *)
(* the display is on, the last one when all was shown.                     *)
InOrder(calls) ==
  /\ \A b \in {1, 2} :
       /\ NotAfter(calls, Names \X {b}, {<<"create", b>>})
       /\ Later(calls, {<<"create", b>>}, {<<"destroy", b>>})
       /\ NotAfter(calls, {<<"addfb", b>>}, {<<"addfb", b>>})
       /\ Later(calls, {<<"addfb", b>>}, {<<"fill", b>>})
       /\ Later(calls, {<<"addfb", b>>}, {<<"rmfb", b>>})
       /\ Later(calls, {<<"mmap", b>>}, {<<"munmap", b>>})
       /\ NotAfter(calls, Shows \X {b}, {<<"fill", b>>})
  /\ NotAfter(calls, Key, LightsUp)
  /\ NotAfter(calls, Each("rmfb"), Key)
  /\ Later(calls, Shows \X {1, 2}, Key)

Left(p, X) == Has(todo[p], X)

ProgramInv ==
  \A p \in Procs :
    /\ InOrder(todo[p])
    /\ p \notin open => todo[p] = <<>>
    /\ driver = "cma" => ~Left(p, Each("addfb"))

(* The helpers guess the first handle and map it as their second buffer.   *)
Guesses(s) == driver = "cma" /\ s[1] \in Threaded /\ s[2] = 2

(* A process has nothing of a buffer before it makes it.                   *)
Unused(p, b) ==
  LET s == <<p, b>> IN
  /\ p \notin open => handle[s] = None /\ fb[s] = None /\ vma[s] = None
  /\ Left(p, {<<"create", b>>}) =>
       /\ driver # "cma" => handle[s] = None
       /\ fb[s] = None
       /\ vma[s] = None \/ Guesses(s)
  /\ Left(p, {<<"addfb", b>>}) \/ driver = "cma" => fb[s] = None

(* What it has of one it will give back. *)
Undone(p, b) ==
  LET s == <<p, b>> IN
  /\ handle[s] # None => Left(p, {<<"destroy", b>>})
  /\ fb[s] # None => Left(p, {<<"rmfb", b>>})
  /\ vma[s] # None => Left(p, {<<"munmap", b>>})

(* Handle, framebuffer and mapping of a slot are those of one object. *)
Agree(s) ==
  /\ handle[s] # None /\ fb[s] # None => handle[s] = fb[s]
  /\ handle[s] # None /\ vma[s] # None => handle[s] = vma[s]
  /\ fb[s] # None /\ vma[s] # None => fb[s] = vma[s]

Filled(p, b) ==
  LET s == <<p, b>> IN
  fb[s] # None /\ ~Left(p, {<<"fill", b>>}) => fb[s] \in painted

BufferUse(p, b) ==
  /\ Unused(p, b)
  /\ driver # "cma" => Undone(p, b) /\ Agree(<<p, b>>) /\ Filled(p, b)

BufferInv == \A p \in Procs, b \in {1, 2} : BufferUse(p, b)

(* A reference is counted, though drm/driver/cma counts more than it has.  *)
CountInv == \A o \in Objects : Cardinality(References(o)) <= refs[o]

(* A handle is that of one slot, and so are the mappings made from it.     *)
HandleInv ==
  /\ \A s, t \in Slots : handle[s] # None /\ handle[s] = handle[t] => s = t
  /\ \A s, t \in Slots : vma[s] # None /\ vma[s] = handle[t] => s = t \/ Guesses(s)
  /\ \A s \in foreign : vma[s] # None

(* Only the master's framebuffer is shown.  A program none of whose calls  *)
(* has failed finds the display as it left it until it removes a buffer.   *)
DisplayInv ==
  /\ shown # None => shown[1] = master /\ fb[shown] # None /\ fb[shown] \in painted
  /\ \A p \in open \ failed : Left(p, Key) /\ Left(p, Each("rmfb")) =>
       /\ Left(p, LightsUp) \/ (master = p /\ active)
       /\ Left(p, Shows \X {1, 2}) \/ (shown # None /\ shown[1] = p)

IInv ==
  /\ TypeOK
  /\ ProgramInv
  /\ BufferInv
  /\ CountInv
  /\ RefsExact
  /\ HandleInv
  /\ DisplayInv
  /\ ForeignOnlyIf

=============================================================================
