---------------------------- MODULE PageExporter ----------------------------
(***************************************************************************)
(* The exporters of dma-buf/02 to dma-buf/08 and their importers.  Each    *)
(* exporter creates one dma_buf of one page when its module is loaded and  *)
(* keeps it in the static variable dmabuf_exported.  The stages differ in  *)
(* how others come to the buffer:                                          *)
(*   2, 3     importer modules read the exported symbol dmabuf_exported    *)
(*   4, 6, 8  exporter_ioctl installs a descriptor for it                  *)
(*   5        mmap of /dev/exporter is forwarded to it                     *)
(*   7        descriptors, and an importer module that reads the symbol    *)
(* dma_buf_fd hands the reference of its caller over to the descriptor;    *)
(* exporter_ioctl calls it every time with the one reference it got from   *)
(* dma_buf_export.                                                         *)
(***************************************************************************)
EXTENDS Importer

CONSTANT Stages  \* the directories under dma-buf/ that are considered

ASSUME StageAssumption == Stages \subseteq 2..8

VARIABLES
  stage,    \* the directory the loaded drivers come from
  loaded,   \* the exporter module is loaded
  exported, \* dmabuf_exported
  handed,   \* handed[b]: descriptors exporter_ioctl has installed for b
  borrowed, \* threads in an importer module's init: they hold no reference
  dying,    \* buffers without references whose release has still to run
  closer,   \* closer[b]: the thread that dropped the last reference to b
  undef     \* the first use of a released dma_buf: by a holder of a
            \* descriptor, mapping or reference, by exporter_ioctl, or by an
            \* importer module; the behaviour ends there

exporterVars == <<stage, loaded, exported, handed, borrowed, dying, closer, undef>>
vars == <<dmaBufVars, exporterVars>>

HandsOutFds == stage \in {4, 6, 7, 8}
MapsDevice == stage = 5
MapsFds == stage \in {4, 7, 8}
FdImporter == stage \in {6, 8}
SymbolImporter == stage \in {2, 3, 7}
CpuTest == stage # 3        \* the importer reads through kmap and vmap
DmaTest == stage \in {3, 8} \* the importer attaches and maps the attachment
ClearsPointer == stage \in 4..7

Live(b) == fcount[b] > 0

(* fput leaves __fput, and so the release, to the moment its caller returns *)
(* to user code: until then t is still inside the call.                     *)
Ready(t) == InUser(t) /\ \A b \in dying : closer[b] # t

(* Who has a reference to b, or acts as if it had one. *)
Referrers(b) == Holders(b) \ (borrowed \cup {b})

Unused(b) ==
  /\ fcount[b] = 0 /\ b \notin dying
  /\ Referrers(b) = {}
  /\ \A t \in Threads : buf[t] # b

Init ==
  /\ DmaBufInit
  /\ stage \in Stages
  /\ loaded = FALSE
  /\ exported = None
  /\ handed = [b \in Buffers |-> 0]
  /\ borrowed = {}
  /\ dying = {}
  /\ closer = [b \in Buffers |-> None]
  /\ undef = "none"

-----------------------------------------------------------------------------
(* The life of the exporter module.                                        *)

exporter_alloc_page(b) ==
  /\ ~loaded
  /\ Unused(b)
  /\ fcount' = [fcount EXCEPT ![b] = 1]
  /\ handed' = [handed EXCEPT ![b] = 0]
  /\ closer' = [closer EXCEPT ![b] = None]

exporter_init ==
  /\ \E b \in Buffers : exporter_alloc_page(b) /\ exported' = b
  /\ loaded' = TRUE
  /\ UNCHANGED <<pc, buf, fdt, vma, attachments, lost, exiting>>
  /\ UNCHANGED <<stage, borrowed, dying, undef>>

(* misc_register fails: the module is not loaded, its buffer stays. *)
ExporterInitFails ==
  /\ stage >= 4
  /\ \E b \in Buffers : exporter_alloc_page(b) /\ lost' = lost \cup {b}
  /\ UNCHANGED <<pc, buf, fdt, vma, attachments, exiting>>
  /\ UNCHANGED <<stage, loaded, exported, borrowed, dying, undef>>

(* A live dma_buf pins the module that owns it until its release has run,  *)
(* an open device file the module of the device, and an importer module    *)
(* the module whose symbol it uses.                                        *)
exporter_exit ==
  /\ loaded
  /\ borrowed = {} /\ dying = {}
  /\ \A t \in Threads : pc[t] # "ioctl"
  /\ \A b \in Buffers : Live(b) => b \in lost
  /\ loaded' = FALSE
  /\ exported' = None
  /\ UNCHANGED dmaBufVars
  /\ UNCHANGED <<stage, handed, borrowed, dying, closer, undef>>

(* fput by t, to be conjoined with every action that drops a reference to  *)
(* b: with the last one the release is due.                                *)
Fput(t, b) ==
  /\ dying' = IF fcount[b] = 1 THEN dying \cup {b} ELSE dying
  /\ closer' = IF fcount[b] = 1 THEN [closer EXCEPT ![b] = t] ELSE closer
  /\ UNCHANGED <<stage, loaded, exported, handed, undef>>

(* Mutant: the release forgets to clear the pointer. *)
ReleaseLeavesPointer(b) ==
  /\ b \in dying
  /\ dying' = dying \ {b}
  /\ UNCHANGED dmaBufVars
  /\ UNCHANGED <<stage, loaded, exported, handed, borrowed, closer, undef>>

(* The release callback, run by __fput. *)
exporter_release(b) ==
  /\ b \in dying
  /\ dying' = dying \ {b}
  /\ exported' = IF ClearsPointer THEN None ELSE exported
  /\ UNCHANGED dmaBufVars
  /\ UNCHANGED <<stage, loaded, handed, borrowed, closer, undef>>

-----------------------------------------------------------------------------
(* User code.                                                              *)

(* exporter_ioctl reads dmabuf_exported, without a lock or a reference.    *)
(* With NULL in it dma_buf_fd fails and the ioctl changes nothing.         *)
exporter_ioctl(t) ==
  /\ Ready(t) /\ loaded /\ HandsOutFds
  /\ exported # None
  /\ pc' = [pc EXCEPT ![t] = "ioctl"]
  /\ buf' = [buf EXCEPT ![t] = exported]
  /\ UNCHANGED <<fcount, fdt, vma, attachments, lost, exiting>>
  /\ UNCHANGED exporterVars

(* Mutant: every descriptor gets a reference of its own. *)
FdTakesReference(t, f) ==
  /\ Goto(t, "ioctl", "user")
  /\ Live(buf[t])
  /\ fdt[f] = None
  /\ buf' = [buf EXCEPT ![t] = None]
  /\ fdt' = [fdt EXCEPT ![f] = buf[t]]
  /\ GetFile(buf[t])
  /\ handed' = [handed EXCEPT ![buf[t]] = @ + 1]
  /\ UNCHANGED <<vma, attachments, lost, exiting>>
  /\ UNCHANGED <<stage, loaded, exported, borrowed, dying, closer, undef>>

(* dma_buf_fd installs a descriptor for the buffer that was read. *)
dma_buf_fd(t, f) ==
  /\ Goto(t, "ioctl", "user")
  /\ Live(buf[t])
  /\ fdt[f] = None
  /\ buf' = [buf EXCEPT ![t] = None]
  /\ fdt' = [fdt EXCEPT ![f] = buf[t]]
  /\ handed' = [handed EXCEPT ![buf[t]] = @ + 1]
  /\ UNCHANGED <<fcount, vma, attachments, lost, exiting>>
  /\ UNCHANGED <<stage, loaded, exported, borrowed, dying, closer, undef>>

(* get_unused_fd_flags fails: the ioctl reports a negative descriptor. *)
DmaBufFdFails(t) ==
  /\ Goto(t, "ioctl", "user")
  /\ Live(buf[t]) \/ buf[t] \in dying
  /\ buf' = [buf EXCEPT ![t] = None]
  /\ UNCHANGED <<fcount, fdt, vma, attachments, lost, exiting>>
  /\ UNCHANGED exporterVars

(* Mutant: mmap of the device consumes the reference of the exporter. *)
DeviceMmapBorrows(t, v) ==
  /\ Ready(t) /\ loaded /\ MapsDevice
  /\ vma[v] = None
  /\ vma' = [vma EXCEPT ![v] = exported]
  /\ UNCHANGED <<pc, buf, fcount, fdt, attachments, lost, exiting>>
  /\ UNCHANGED exporterVars

exporter_misc_mmap(t, v) ==
  /\ Ready(t) /\ loaded /\ MapsDevice
  /\ vma[v] = None
  /\ vma' = [vma EXCEPT ![v] = exported]
  /\ GetFile(exported)
  /\ UNCHANGED <<pc, buf, fdt, attachments, lost, exiting>>
  /\ UNCHANGED exporterVars

Mmap(t, f, v) ==
  /\ Ready(t) /\ MapsFds
  /\ fdt[f] # None /\ Live(fdt[f])
  /\ MapVma(f, v)
  /\ UNCHANGED exporterVars

DropVma(t, v) ==
  /\ vma[v] # None /\ Live(vma[v])
  /\ UnmapVma(v)
  /\ Fput(t, vma[v])
  /\ UNCHANGED borrowed

DropFd(t, f) ==
  /\ fdt[f] # None /\ Live(fdt[f])
  /\ CloseFd(f)
  /\ Fput(t, fdt[f])
  /\ UNCHANGED borrowed

(* importer_ioctl of stages 6 and 8. *)
Import(t, f) ==
  /\ Ready(t) /\ FdImporter
  /\ fdt[f] # None /\ Live(fdt[f])
  /\ ImporterIoctl(t, f)
  /\ UNCHANGED exporterVars

(* importer_init of stages 2, 3 and 7, run by insmod: it passes the value  *)
(* of dmabuf_exported to importer_test, which only tests it for NULL.      *)
importer_init(t) ==
  /\ Ready(t) /\ loaded /\ SymbolImporter
  /\ exported # None
  /\ pc' = [pc EXCEPT ![t] = IF CpuTest THEN "test1" ELSE "test2"]
  /\ buf' = [buf EXCEPT ![t] = exported]
  /\ borrowed' = borrowed \cup {t}
  /\ UNCHANGED <<fcount, fdt, vma, attachments, lost, exiting>>
  /\ UNCHANGED <<stage, loaded, exported, handed, dying, closer, undef>>

(* DMA_BUF_IOCTL_SYNC of stage 8 with an attachment present follows        *)
(* attachment->priv, which is never set.  In the other stages, and without *)
(* an attachment, the call changes nothing.                                *)
SyncKilled(t, f) ==
  /\ Ready(t) /\ stage = 8
  /\ fdt[f] # None /\ Live(fdt[f])
  /\ attachments[fdt[f]] # {}
  /\ pc' = [pc EXCEPT ![t] = "oops"]
  /\ buf' = [buf EXCEPT ![t] = fdt[f]]
  /\ GetFile(fdt[f])
  /\ UNCHANGED <<fdt, vma, attachments, lost, exiting>>
  /\ UNCHANGED exporterVars

UserStep(t) ==
  \/ exporter_ioctl(t)
  \/ DmaBufFdFails(t)
  \/ \E f \in Fds :
       \/ dma_buf_fd(t, f)
       \/ Import(t, f)
       \/ SyncKilled(t, f)
       \/ Ready(t) /\ DropFd(t, f)
       \/ \E v \in Vmas : Mmap(t, f, v)
  \/ \E v \in Vmas :
       \/ exporter_misc_mmap(t, v)
       \/ Ready(t) /\ DropVma(t, v)
  \/ importer_init(t)

-----------------------------------------------------------------------------
(* The importers: importer_test1 and importer_test2 of stage 8, of which   *)
(* the other stages have one or the other.                                 *)

TestStep(t) ==
  /\ pc[t] \in ImporterStates /\ Live(buf[t])
  /\ \/ ImporterKmap(t)
     \/ ImporterVmap(t)
     \/ stage = 8 /\ ImporterVmapFails(t)
     \/ ImporterVunmap(t)
     \/ DmaTest /\ ImporterAttach(t)
     \/ ImporterAttachFails(t) \* or there is no importer_test2
     \/ ImporterMap(t)
     \/ ImporterUnmap(t)
     \/ ImporterDetach(t)
  /\ UNCHANGED exporterVars

Put(t) ==
  /\ t \notin borrowed
  /\ pc[t] = "put" /\ Live(buf[t])
  /\ ImporterPut(t)
  /\ Fput(t, buf[t])
  /\ UNCHANGED borrowed

(* importer_init returns; there is no reference to put. *)
InitReturns(t) ==
  /\ t \in borrowed
  /\ Goto(t, "put", "user")
  /\ buf' = [buf EXCEPT ![t] = None]
  /\ borrowed' = borrowed \ {t}
  /\ UNCHANGED <<fcount, fdt, vma, attachments, lost, exiting>>
  /\ UNCHANGED <<stage, loaded, exported, handed, dying, closer, undef>>

-----------------------------------------------------------------------------
(* Uses of a released dma_buf.                                             *)

Undefined(who) ==
  /\ undef' = who
  /\ UNCHANGED dmaBufVars
  /\ UNCHANGED <<stage, loaded, exported, handed, borrowed, dying, closer>>

(* A descriptor or mapping of it is used or dropped, at the latest when    *)
(* the process exits, or a call that believes it has a reference goes on.  *)
HolderUses == \E b \in Buffers : ~Live(b) /\ Referrers(b) # {} /\ Undefined("holder")

(* exporter_ioctl has read the pointer to a buffer that is released, or    *)
(* about to be, and dma_buf_fd installs a descriptor for its file.         *)
IoctlUses ==
  /\ \E t \in Threads :
       /\ pc[t] = "ioctl" /\ ~Live(buf[t])
       /\ buf[t] \in dying => \E f \in Fds : fdt[f] = None
  /\ Undefined("exporter_ioctl")

ModuleUses ==
  /\ \E t \in borrowed : pc[t] # "put" /\ ~Live(buf[t])
  /\ Undefined("importer_init")

Exit == ExitBegin /\ UNCHANGED exporterVars
Reap ==
  /\ exiting
  /\ \E t \in Threads :
       /\ pc[t] \in {"user", "oops"}
       /\ (\E v \in Vmas : DropVma(t, v)) \/ (\E f \in Fds : DropFd(t, f))
Rerun == dying = {} /\ ExitDone /\ UNCHANGED exporterVars

(* Nothing is said of what follows the use of a released dma_buf. *)
Defined == undef = "none"

Next ==
  \/ Defined /\ exporter_init
  \/ Defined /\ ExporterInitFails
  \/ Defined /\ exporter_exit
  \/ Defined /\ \E b \in Buffers : exporter_release(b)
  \/ Defined /\ \E t \in Threads : UserStep(t)
  \/ Defined /\ \E t \in Threads : TestStep(t)
  \/ Defined /\ \E t \in Threads : Put(t)
  \/ Defined /\ \E t \in Threads : InitReturns(t)
  \/ Defined /\ HolderUses
  \/ Defined /\ IoctlUses
  \/ Defined /\ ModuleUses
  \/ Defined /\ Exit
  \/ Defined /\ Reap
  \/ Defined /\ Rerun

Spec == Init /\ [][Next]_vars

-----------------------------------------------------------------------------
(* Properties.                                                             *)

(* The type invariant of exporter, importer and dma-buf core. *)
TypeOK ==
  /\ pc \in [Threads -> {"user", "oops", "ioctl"} \cup ImporterStates]
  /\ buf \in [Threads -> Buffers \cup {None}]
  /\ fcount \in [Buffers -> Nat]
  /\ fdt \in [Fds -> Buffers \cup {None}]
  /\ vma \in [Vmas -> Buffers \cup {None}]
  /\ attachments \in [Buffers -> SUBSET Threads]
  /\ lost \subseteq Buffers
  /\ exiting \in BOOLEAN
  /\ stage \in Stages
  /\ loaded \in BOOLEAN
  /\ exported \in Buffers \cup {None}
  /\ handed \in [Buffers -> Nat]
  /\ borrowed \subseteq Threads
  /\ dying \subseteq Buffers
  /\ closer \in [Buffers -> Threads \cup {None}]
  /\ undef \in {"none", "holder", "exporter_ioctl", "importer_init"}

(* The exporter's one reference is what the first descriptor takes over;   *)
(* every further exporter_ioctl makes the count one too small, and nothing *)
(* else ever does: no path of the importers or of mmap miscounts.          *)
CountsShort ==
  \A b \in Buffers : Live(b) /\ b \notin lost =>
    fcount[b] + handed[b] = Cardinality(Referrers(b)) + 1

(* Another thread than t has dropped the last reference to the buffer t    *)
(* works on.                                                               *)
ClosedByOther(t) == closer[buf[t]] \notin {t, None}

(* What can lead to the use of a released dma_buf.  A holder uses one only *)
(* if exporter_ioctl handed it out twice.  exporter_ioctl does in stage 8, *)
(* whose release leaves dmabuf_exported dangling; in the other stages only *)
(* if another thread dropped the last reference, so no thread gets there   *)
(* by calls of its own.  An importer module does in stage 7, by the same   *)
(* race.                                                                   *)
UndefinedOnlyIf ==
  /\ undef = "holder" => \E b \in Buffers : handed[b] > 1
  /\ undef = "exporter_ioctl" =>
       \/ stage = 8
       \/ \E t \in Threads : pc[t] = "ioctl" /\ ClosedByOther(t)
  /\ undef = "importer_init" => stage = 7 /\ \E t \in borrowed : ClosedByOther(t)

(* Where no descriptor is handed out the exporter keeps its reference for  *)
(* good: its buffer is never released, and so its module never unloaded    *)
(* (the exporter_exit of stages 2, 3 and 5 cannot run).                    *)
KeptForGood ==
  [][(stage \in {2, 3, 5} /\ loaded) =>
       loaded' /\ exported' = exported /\ fcount'[exported] > 0]_vars

(* What the README of stage 8 offers: its two test programs can be run,    *)
(* that is, no order of running them uses a released dma_buf.              *)
TestsCanBeRun == undef = "none"

-----------------------------------------------------------------------------
(* The inductive invariant behind the safety properties.                   *)

(* A thread is in user code or works on a buffer; only the importer        *)
(* modules that read the symbol work on one without a reference, and but   *)
(* for stage 7 it is the one the exporter still has.  Nobody works on a    *)
(* buffer of a failed load.                                                *)
Control ==
  /\ \A t \in Threads : IF pc[t] = "user" THEN buf[t] = None ELSE buf[t] \in Buffers
  /\ \A t \in Threads : pc[t] = "ioctl" => HandsOutFds
  /\ \A t \in Threads : buf[t] \notin lost
  /\ \A t \in borrowed :
       /\ SymbolImporter /\ pc[t] \in ImporterStates
       /\ stage # 7 => loaded /\ buf[t] = exported

(* The buffer of an exporter that failed to load: nobody knows it. *)
LostInv == \A b \in lost : fcount[b] = 1 /\ Referrers(b) = {} /\ b # exported

(* dmabuf_exported is the one live buffer but for those of failed loads.   *)
(* It dangles in stage 8 and until a pending release has run, and stays    *)
(* set where no descriptor is handed out.                                  *)
PointerInv ==
  /\ ~loaded => exported = None
  /\ \A b \in Buffers : Live(b) /\ b \notin lost => b = exported
  /\ exported # None /\ stage # 8 => Live(exported) \/ exported \in dying
  /\ loaded /\ stage \in {2, 3, 5} => exported # None /\ handed[exported] = 0

(* A buffer whose release is pending is the one the exporter points to. *)
DyingInv ==
  \A b \in dying : ~Live(b) /\ b = exported /\ closer[b] # None /\ HandsOutFds

(* Who works on a released buffer without a reference lost it to another   *)
(* thread, but for an ioctl in stage 8.                                    *)
Raced ==
  /\ \A t \in Threads :
       pc[t] = "ioctl" /\ ~Live(buf[t]) => stage = 8 \/ ClosedByOther(t)
  /\ \A t \in borrowed : ~Live(buf[t]) => stage = 7 /\ ClosedByOther(t)

(* Who still refers to a released buffer got there by a second descriptor. *)
LeftOver == \A b \in Buffers : ~Live(b) /\ Referrers(b) # {} => handed[b] > 1

IInv ==
  /\ TypeOK
  /\ Control
  /\ CountsShort
  /\ LostInv
  /\ PointerInv
  /\ DyingInv
  /\ Raced
  /\ LeftOver
  /\ UndefinedOnlyIf

=============================================================================
