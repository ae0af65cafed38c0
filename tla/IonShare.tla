------------------------------ MODULE IonShare ------------------------------
(***************************************************************************)
(* A process that shares ION buffers: the exporter of dma-buf/09 and the   *)
(* importer of dma-buf/08 over one dma-buf core.  Threads allocate         *)
(* buffers, pass descriptors to the importer, map, unmap and close them    *)
(* in any order; the process may exit at any time and start again.         *)
(***************************************************************************)
EXTENDS Importer, IonExporter

vars == <<dmaBufVars, ionVars>>

Init == DmaBufInit /\ IonInit

(* User code calling the devices; the process is not exiting. *)
Mmap(t, f, v) == InUser(t) /\ MapVma(f, v) /\ ion_mmap(v, fdt[f])
Munmap(t, v) == InUser(t) /\ UnmapVma(v) /\ Zap(v) /\ ion_release(vma[v])
Close(t, f) == InUser(t) /\ CloseFd(f) /\ ion_release(fdt[f]) /\ UNCHANGED access
Import(t, f) == ImporterIoctl(t, f) /\ UNCHANGED ionVars

(***************************************************************************)
(* DMA_BUF_IOCTL_SYNC on f, which calls ion_begin_cpu_access or            *)
(* ion_end_cpu_access.  With no attachment the call does nothing.  With    *)
(* one it follows attachment->priv, which neither driver ever sets: the    *)
(* thread is killed and the reference it took with fdget stays.            *)
(***************************************************************************)
SyncKilled(t, f) ==
  /\ InUser(t)
  /\ fdt[f] # None
  /\ attachments[fdt[f]] # {}
  /\ pc' = [pc EXCEPT ![t] = "oops"]
  /\ buf' = [buf EXCEPT ![t] = fdt[f]]
  /\ GetFile(fdt[f])
  /\ UNCHANGED <<fdt, vma, attachments, lost, exiting>>
  /\ UNCHANGED ionVars

UserStep(t) ==
  \/ \E n \in 1..MaxPages : IonIoctl(t, n)
  \/ IonIoctlFails(t)
  \/ \E f \in Fds :
       \/ Import(t, f)
       \/ SyncKilled(t, f)
       \/ Close(t, f)
       \/ \E v \in Vmas : Mmap(t, f, v)
  \/ \E v \in Vmas : Munmap(t, v)

(* The rest of ion_ioctl. *)
IonStep(t) ==
  \/ \E p \in Pages : AllocPage(t, p)
  \/ AllocPageFails(t)
  \/ DmaBufExport(t)
  \/ DmaBufExportFails(t)
  \/ ErrPtrDereferenced(t)
  \/ \E f \in Fds : DmaBufFd(t, f)
  \/ DmaBufFdFails(t)
  \/ CopyToUser(t)
  \/ IonIoctlReturns(t)

(* The rest of importer_ioctl, with the callbacks of the exporter. *)
Kmap(t) == ImporterKmap(t) /\ ion_kmap(t)
Vmap(t) == ImporterVmap(t) /\ ion_vmap(t)
VmapFails(t) == ImporterVmapFails(t) /\ Revoke(t)
Vunmap(t) == ImporterVunmap(t) /\ ion_vunmap(t)
Attach(t) == ImporterAttach(t) /\ UNCHANGED ionVars
AttachFails(t) == ImporterAttachFails(t) /\ UNCHANGED ionVars
MapAttachment(t) == ImporterMap(t) /\ ion_map_dma_buf(t)
UnmapAttachment(t) == ImporterUnmap(t) /\ ion_unmap_dma_buf(t)
Detach(t) == ImporterDetach(t) /\ UNCHANGED ionVars
Put(t) == ImporterPut(t) /\ ion_release(buf[t]) /\ UNCHANGED access

ImporterStep(t) ==
  \/ Kmap(t)
  \/ Vmap(t)
  \/ VmapFails(t)
  \/ Vunmap(t)
  \/ Attach(t)
  \/ AttachFails(t)
  \/ MapAttachment(t)
  \/ UnmapAttachment(t)
  \/ Detach(t)
  \/ Put(t)

(* The kernel running thread t inside a call. *)
KernelStep(t) == IonStep(t) \/ ImporterStep(t)

(* The process begins to exit; the kernel then takes it apart. *)
ReapVma(v) == exiting /\ UnmapVma(v) /\ Zap(v) /\ ion_release(vma[v])
ReapFd(f) == exiting /\ CloseFd(f) /\ ion_release(fdt[f]) /\ UNCHANGED access
Exit == ExitBegin /\ UNCHANGED ionVars
Rerun == ExitDone /\ UNCHANGED ionVars

ReapStep ==
  \/ \E v \in Vmas : ReapVma(v)
  \/ \E f \in Fds : ReapFd(f)
  \/ Rerun

Next ==
  \/ \E t \in Threads : UserStep(t) \/ KernelStep(t)
  \/ Exit
  \/ ReapStep

Spec == Init /\ [][Next]_vars

(* The scheduler runs every thread that is inside the kernel, and a        *)
(* process that exits; it owes user code nothing.                          *)
Fairness ==
  /\ \A t \in Threads : WF_vars(KernelStep(t))
  /\ WF_vars(ReapStep)

FairSpec == Spec /\ Fairness

-----------------------------------------------------------------------------
(* Properties.                                                             *)

(* The type invariant of the composed state. *)
TypeOK ==
  /\ pc \in [Threads -> States]
  /\ buf \in [Threads -> Buffers \cup {None}]
  /\ fcount \in [Buffers -> Nat]
  /\ fdt \in [Fds -> Buffers \cup {None}]
  /\ vma \in [Vmas -> Buffers \cup {None}]
  /\ attachments \in [Buffers -> SUBSET Threads]
  /\ lost \subseteq Buffers
  /\ exiting \in BOOLEAN
  /\ free \subseteq Pages
  /\ pages \in [Buffers -> Seq(Pages)]
  /\ npages \in [Buffers -> Nat]
  /\ want \in [Threads -> Nat]
  /\ fdret \in [Threads -> Fds \cup {None}]
  /\ access \in [Accessors -> SUBSET Pages]

(* The file count of every dma_buf is the number of descriptors, mappings, *)
(* calls in progress and lost references that hold it: no path of the two  *)
(* drivers drops a reference twice or forgets to take one.                 *)
RefcountExact == \A b \in Buffers : fcount[b] = Cardinality(Holders(b))

(* A page is free or in the page array of one buffer, once: no path of     *)
(* ion_alloc or ion_release puts a page twice, or leaks one.               *)
PagesConserved ==
  /\ free \cup UNION {Held(b) : b \in Buffers} = Pages
  /\ \A b \in Buffers : Held(b) \cap free = {}
  /\ \A b, c \in Buffers : b # c => Held(b) \cap Held(c) = {}
  /\ \A b \in Buffers : \A i, j \in DOMAIN pages[b] :
       pages[b][i] = pages[b][j] => i = j

(* What a thread or a mapping of the process reaches through a buffer      *)
(* (kmap, vmap, sg_table, mmap) are pages of that very buffer: never pages *)
(* put back to the allocator or given to another buffer meanwhile.         *)
AccessWithinBuffer ==
  /\ \A t \in Threads : access[t] # {} =>
       buf[t] \in Buffers /\ access[t] \subseteq Held(buf[t])
  /\ \A v \in Vmas : access[v] # {} =>
       vma[v] \in Buffers /\ access[v] \subseteq Held(vma[v])

(* A buffer is released only when no importer is attached to it, and an    *)
(* attached thread works on that buffer.                                   *)
AttachmentsOfUsers ==
  \A b \in Buffers : \A t \in attachments[b] :
    buf[t] = b /\ fcount[b] > 0 /\ pc[t] \in {"attached", "mapped", "unmapped"}

(* No call of the drivers waits for another thread: whatever the others do *)
(* or fail to do, it returns, or the kernel kills the thread.              *)
SyscallsReturn ==
  \A t \in Threads : pc[t] \notin {"user", "oops"} ~> pc[t] \in {"user", "oops"}

(* What ion_test.c takes for granted when the ioctl returns 0: alloc_data.fd *)
(* is a descriptor (its "ion alloc success" line prints it as one).        *)
OkMeansFd == \A t \in Threads : pc[t] = "ioctl_ok" => fdret[t] \in Fds

(* What the error branch of ion_ioctl says: a failed ion_alloc makes the   *)
(* ioctl return an error to its caller.                                    *)
AllocFailureReturns ==
  [][\A t \in Threads : pc[t] = "alloc_failed" /\ pc'[t] # pc[t] => pc'[t] = "user"]_vars

(* A reference to b was lost, or died with a killed thread. *)
Stranded(b) == b \in lost \/ \E t \in Threads : pc[t] = "oops" /\ buf[t] = b

(* When the process exits, all pages of its buffers go back, except those  *)
(* of buffers with a reference that was lost or died with a killed thread. *)
ExitReclaims ==
  exiting ~> \A b \in Buffers : ~Stranded(b) => Held(b) = {}

(* The two drivers implement the sharing of buffers: counting files        *)
(* releases the pages exactly when the last holder leaves.                 *)
Shared == INSTANCE SharedBuffers WITH
  Parties <- Threads \cup Fds \cup Vmas \cup Buffers,
  held <- [b \in Buffers |-> Held(b)],
  holders <- [b \in Buffers |-> Holders(b)]

ImplementsSharedBuffers == Shared!Spec

-----------------------------------------------------------------------------
(* The inductive invariant behind the safety properties.                   *)

Importing == {"kmapped", "vmapped", "mapped"}

(* Which positions work on a buffer. *)
Control ==
  \A t \in Threads :
    /\ pc[t] \in ImporterStates \cup {"ion_alloc", "dma_buf_fd"} => buf[t] \in Buffers
    /\ pc[t] \in {"user", "alloc_failed", "copy_to_user", "ioctl_ok"} => buf[t] = None

(* An ion_data that is being filled belongs to one thread, no dma_buf      *)
(* wraps it yet, and it has room for the pages still wanted.               *)
Filling ==
  \A t \in Threads : pc[t] = "ion_alloc" =>
    /\ fcount[buf[t]] = 0
    /\ Len(pages[buf[t]]) <= want[t] /\ want[t] > 0
    /\ \A u \in Threads : buf[u] = buf[t] => u = t

(* A new dma_buf is known to the allocating thread only. *)
FreshPrivate ==
  \A t \in Threads : pc[t] = "dma_buf_fd" => Holders(buf[t]) = {t}

(* data->npages is the length of the page array of every dma_buf, and no   *)
(* identity has pages but a dma_buf and an ion_data that is being filled.  *)
ArraysMatch ==
  \A b \in Buffers :
    /\ fcount[b] > 0 => npages[b] = Len(pages[b]) /\ npages[b] > 0
    /\ fcount[b] = 0 => npages[b] = 0
    /\ (fcount[b] = 0 /\ \A t \in Threads : pc[t] = "ion_alloc" => buf[t] # b)
         => pages[b] = <<>>

(* Access is to pages of the buffer, and only in the steps that have it. *)
AccessInv ==
  /\ \A t \in Threads :
       IF pc[t] \in Importing THEN access[t] \subseteq Held(buf[t]) ELSE access[t] = {}
  /\ \A v \in Vmas :
       IF vma[v] = None THEN access[v] = {} ELSE access[v] \subseteq Held(vma[v])

IInv ==
  /\ TypeOK
  /\ Control
  /\ Filling
  /\ RefcountExact
  /\ FreshPrivate
  /\ ArraysMatch
  /\ PagesConserved
  /\ AccessInv
  /\ AttachmentsOfUsers

=============================================================================
