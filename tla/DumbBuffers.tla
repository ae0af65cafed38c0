---------------------------- MODULE DumbBuffers -----------------------------
(***************************************************************************)
(* Dumb buffers of the DRM drivers: drm/driver/cma/dumb.c, which has its   *)
(* own callbacks, and drm/driver/my-gem/dumb.c and the vkms drivers, which *)
(* take those of the CMA helpers.  A GEM object is counted by the handles, *)
(* framebuffers and mappings that refer to it.  The core (drm_gem.c,       *)
(* drm_dumb_buffers.c) and the CMA helpers are external.                   *)
(*                                                                         *)
(* A slot <<p, b>> is what process p, which has the device open once,      *)
(* knows of its buffer b: a handle, a framebuffer, an address.             *)
(***************************************************************************)
EXTENDS Naturals, FiniteSets

CONSTANTS
  Procs,
  Objects,   \* struct drm_gem_object: what kzalloc can provide
  Drivers,   \* the drivers considered
  WordSize,  \* bits of a __u32: a small number in an instance
  Requests,  \* the arguments of DRM_IOCTL_MODE_CREATE_DUMB considered
  None

ASSUME ObjectAssumption == IsFiniteSet(Objects) /\ None \notin Objects
ASSUME ProcAssumption == IsFiniteSet(Procs) /\ None \notin Procs \cup (Procs \X {1, 2})
ASSUME WordAssumption == WordSize \in Nat \ {0} /\ 2^WordSize \in Nat \ {0}
ASSUME DriverAssumption == Drivers \subseteq {"cma", "my-gem", "vkms_drv_5", "vkms_drv"}
ASSUME RequestAssumption ==
  Requests \subseteq [width: Nat \ {0}, height: Nat \ {0}, bpp: Nat \ {0}]

Slots == Procs \X {1, 2}

VARIABLES
  driver,
  refs,     \* refs[o]: the reference count of the object, 0 when it is free
  memory,   \* objects that have their contiguous memory
  painted,  \* objects whose whole content was written since their creation
  handle,   \* handle[s]: the object under the handle of the slot
  fb,       \* fb[s]: the object of the framebuffer of the slot
  vma,      \* vma[s]: the object mapped at the address of the slot
  foreign   \* mappings that show other memory than that of their object

dumbVars == <<driver, refs, memory, painted, handle, fb, vma, foreign>>

DumbInit ==
  /\ driver \in Drivers
  /\ refs = [o \in Objects |-> 0]
  /\ memory = {} /\ painted = {} /\ foreign = {}
  /\ handle = [s \in Slots |-> None]
  /\ fb = [s \in Slots |-> None]
  /\ vma = [s \in Slots |-> None]

-----------------------------------------------------------------------------
(* The size of a dumb buffer.                                              *)

U32(n) == n % 2^WordSize
BytesFor(bits) == (bits + 7) \div 8

(* The checks of drm_mode_create_dumb_ioctl. *)
CoreAccepts(r) ==
  LET stride == BytesFor(r.bpp) * r.width
  IN stride < 2^WordSize /\ stride * r.height < 2^WordSize

(* Mutant: bytes per pixel, rounded down. *)
SizeFromBytes(r) == U32(U32(r.width * (r.bpp \div 8)) * r.height)

(* args->size, computed in 32 bits by way of args->pitch. *)
dumb_size(r) == U32((U32(r.width * r.bpp) \div 8) * r.height)

-----------------------------------------------------------------------------
(* Creation.                                                               *)

(* Mutant: the driver table of my-gem lacks gem_free_object_unlocked. *)
OnlyVkmsFrees == driver \notin {"cma", "my-gem"}

(* The driver has a callback that frees an object without references. *)
FreesObjects == driver # "cma"

(* Mutant: my-gem, too, has empty gem_vm_ops. *)
MyGemLeaksMappings == driver \notin {"cma", "my-gem"}

(* The gem_vm_ops of the driver put the reference of a mapping. *)
VmaPuts == driver # "cma"

FreeObjects == {o \in Objects : refs[o] = 0}
NewObject == CHOOSE o \in FreeObjects : TRUE

NewHandle(s, count) ==
  /\ FreeObjects # {}
  /\ handle[s] = None
  /\ refs' = [refs EXCEPT ![NewObject] = count]
  /\ handle' = [handle EXCEPT ![s] = NewObject]
  /\ UNCHANGED <<driver, painted, fb, vma, foreign>>

(* Mutant: drm_gem_handle_create is called without a reference to give. *)
CreateWithoutReference(s) == driver = "cma" /\ NewHandle(s, 0) /\ UNCHANGED memory

(* drm/driver/cma: the handle is there, the memory not yet.  The reference *)
(* of drm_gem_object_init is never put.                                    *)
drm_gem_cma_dumb_create_handle(s) ==
  /\ driver = "cma"
  /\ NewHandle(s, 2)
  /\ UNCHANGED memory

(* drm_gem_handle_create fails, and nobody looks.  The caller gets handle  *)
(* 0, and the object keeps its first reference, with memory or without.    *)
drm_gem_cma_dumb_create_no_handle(s) ==
  /\ driver = "cma"
  /\ FreeObjects # {}
  /\ handle[s] = None
  /\ refs' = [refs EXCEPT ![NewObject] = 1]
  /\ memory' \in {memory, memory \cup {NewObject}}
  /\ UNCHANGED <<driver, painted, handle, fb, vma, foreign>>

(* The memory is shared with other devices.  Nobody looks at the result of *)
(* dma_alloc_wc.                                                           *)
drm_gem_cma_dumb_create_alloc(s) ==
  /\ driver = "cma" /\ handle[s] # None
  /\ memory' \in {memory, memory \cup {handle[s]}}
  /\ UNCHANGED <<driver, refs, painted, handle, fb, vma, foreign>>

(* drm_gem_cma_dumb_create of the CMA helpers. *)
HelperDumbCreate(s) ==
  /\ driver # "cma"
  /\ NewHandle(s, 1)
  /\ memory' = memory \cup {NewObject}

-----------------------------------------------------------------------------
(* Framebuffers and mappings.                                              *)

AddFb(s) ==
  /\ handle[s] # None
  /\ fb' = [fb EXCEPT ![s] = handle[s]]
  /\ refs' = [refs EXCEPT ![handle[s]] = @ + 1]
  /\ UNCHANGED <<driver, memory, painted, handle, vma, foreign>>

(* drm_gem_mmap takes the reference of the mapping. *)
MapObject(s, o) ==
  /\ vma[s] = None
  /\ vma' = [vma EXCEPT ![s] = o]
  /\ refs' = [refs EXCEPT ![o] = @ + 1]

(* Mutant: paddr is passed without the shift. *)
MmapForgetsShift(s, o) ==
  /\ MapObject(s, o)
  /\ foreign' = IF driver = "cma" THEN foreign \cup {s} ELSE foreign
  /\ UNCHANGED <<driver, memory, painted, handle, fb>>

(* drm/driver/cma maps paddr, which is 0 as long as there is no memory. *)
drm_gem_cma_mmap(s, o) ==
  /\ MapObject(s, o)
  /\ foreign' = IF o \in memory THEN foreign ELSE foreign \cup {s}
  /\ UNCHANGED <<driver, memory, painted, handle, fb>>

(* drm/driver/cma: remap_pfn_range fails.  The caller discards the mapping *)
(* without a call to the driver, and the reference stays.                  *)
drm_gem_cma_mmap_fails(s) ==
  /\ driver = "cma" /\ handle[s] # None
  /\ refs' = [refs EXCEPT ![handle[s]] = @ + 1]
  /\ UNCHANGED <<driver, memory, painted, handle, fb, vma, foreign>>

(* The handles hs, framebuffers fs and mappings vs go. *)
Put(hs, fs, vs) ==
  LET Gone(table, slots, o) == Cardinality({s \in slots : table[s] = o})
  IN
  /\ handle' = [s \in Slots |-> IF s \in hs THEN None ELSE handle[s]]
  /\ fb' = [s \in Slots |-> IF s \in fs THEN None ELSE fb[s]]
  /\ vma' = [s \in Slots |-> IF s \in vs THEN None ELSE vma[s]]
  /\ foreign' = foreign \ vs
  /\ refs' = [o \in Objects |->
       refs[o] - Gone(handle, hs, o) - Gone(fb, fs, o)
               - (IF VmaPuts THEN Gone(vma, vs, o) ELSE 0)]
  /\ memory' = IF FreesObjects THEN {o \in memory : refs'[o] > 0} ELSE memory
  /\ painted' = {o \in painted : refs'[o] > 0}
  /\ UNCHANGED driver

-----------------------------------------------------------------------------
(* Properties of the drivers.                                              *)

DumbTypeOK ==
  /\ driver \in Drivers
  /\ refs \in [Objects -> Nat]
  /\ memory \subseteq Objects /\ painted \subseteq Objects
  /\ handle \in [Slots -> Objects \cup {None}]
  /\ fb \in [Slots -> Objects \cup {None}]
  /\ vma \in [Slots -> Objects \cup {None}]
  /\ foreign \subseteq Slots

References(o) ==
  {r \in {"handle", "fb", "vma"} \X Slots :
     \/ r[1] = "handle" /\ handle[r[2]] = o
     \/ r[1] = "fb" /\ fb[r[2]] = o
     \/ r[1] = "vma" /\ vma[r[2]] = o}

=============================================================================
