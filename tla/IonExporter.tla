---------------------------- MODULE IonExporter ----------------------------
(***************************************************************************)
(* The ION exporter driver (dma-buf/09/exporter-ion.c): ion_ioctl gathers  *)
(* pages one by one into an ion_data, wraps it in a dma_buf and installs a *)
(* descriptor; the dma_buf callbacks give access to the pages and          *)
(* ion_release puts them back.                                             *)
(***************************************************************************)
EXTENDS DmaBuf, Sequences

CONSTANTS
  Pages,    \* the pages of the machine that alloc_page may return
  MaxPages  \* bound: the largest buffer, in pages, that is asked for

VARIABLES
  free,   \* pages the page allocator may hand out
  pages,  \* pages[b]: data->pages of the ion_data of b, as far as it is filled
  npages, \* npages[b]: data->npages
  want,   \* want[t]: the local npages of ion_alloc
  fdret,  \* fdret[t]: alloc_data.fd, None when it holds an error code
  access  \* access[x]: pages thread x (kmap, vmap, sg_table) or mapping x reaches

ionVars == <<free, pages, npages, want, fdret, access>>

ASSUME IonAssumption == IsFiniteSet(Pages) /\ MaxPages \in Nat

Accessors == Threads \cup Vmas

(* The pages of the first n entries of data->pages. *)
First(b, n) == {pages[b][i] : i \in 1..n}

Held(b) == First(b, Len(pages[b]))

(* An identity for the next ion_data: nothing refers to it. *)
Unused(b) ==
  /\ fcount[b] = 0
  /\ \A t \in Threads : buf[t] # b

IonInit ==
  /\ free = Pages
  /\ pages = [b \in Buffers |-> <<>>]
  /\ npages = [b \in Buffers |-> 0]
  /\ want = [t \in Threads |-> 0]
  /\ fdret = [t \in Threads |-> None]
  /\ access = [x \in Accessors |-> {}]

-----------------------------------------------------------------------------
(* ion_ioctl and ion_alloc.                                                *)

(* ION_IOC_ALLOC of n pages: kmalloc of the ion_data succeeds. *)
IonIoctl(t, n) ==
  /\ InUser(t)
  /\ n > 0
  /\ \E b \in Buffers :
       /\ Unused(b)
       /\ buf' = [buf EXCEPT ![t] = b]
  /\ want' = [want EXCEPT ![t] = n]
  /\ pc' = [pc EXCEPT ![t] = "ion_alloc"]
  /\ UNCHANGED <<fcount, fdt, vma, attachments, lost, exiting>>
  /\ UNCHANGED <<free, pages, npages, fdret, access>>

(* No pages asked for (-EINVAL), or kmalloc fails (-ENOMEM). *)
IonIoctlFails(t) ==
  /\ InUser(t)
  /\ pc' = [pc EXCEPT ![t] = "alloc_failed"]
  /\ UNCHANGED <<buf, fcount, fdt, vma, attachments, lost, exiting>>
  /\ UNCHANGED ionVars

(* One round of the loop; another thread may take pages between rounds. *)
AllocPage(t, p) ==
  /\ pc[t] = "ion_alloc"
  /\ Len(pages[buf[t]]) < want[t]
  /\ p \in free
  /\ free' = free \ {p}
  /\ pages' = [pages EXCEPT ![buf[t]] = Append(@, p)]
  /\ UNCHANGED dmaBufVars
  /\ UNCHANGED <<npages, want, fdret, access>>

(* Mutant: while (--i) instead of while (i--), the first page is forgotten. *)
AllocErrKeepsFirst(t) ==
  /\ Goto(t, "ion_alloc", "alloc_failed")
  /\ free' = free \cup {pages[buf[t]][i] : i \in 2..Len(pages[buf[t]])}
  /\ pages' = [pages EXCEPT ![buf[t]] = <<>>]
  /\ npages' = [npages EXCEPT ![buf[t]] = 0]
  /\ want' = [want EXCEPT ![t] = 0]
  /\ buf' = [buf EXCEPT ![t] = None]
  /\ UNCHANGED <<fcount, fdt, vma, attachments, lost, exiting>>
  /\ UNCHANGED <<fdret, access>>

(* err: the i pages gathered so far go back, the ion_data is freed. *)
IonAllocErr(t) ==
  /\ Goto(t, "ion_alloc", "alloc_failed")
  /\ free' = free \cup First(buf[t], Len(pages[buf[t]]))
  /\ pages' = [pages EXCEPT ![buf[t]] = <<>>]
  /\ npages' = [npages EXCEPT ![buf[t]] = 0]
  /\ want' = [want EXCEPT ![t] = 0]
  /\ buf' = [buf EXCEPT ![t] = None]
  /\ UNCHANGED <<fcount, fdt, vma, attachments, lost, exiting>>
  /\ UNCHANGED <<fdret, access>>

(* Mutant: the loop waits for a page instead of failing. *)
AllocPageWaits(t) ==
  /\ pc[t] = "ion_alloc"
  /\ Len(pages[buf[t]]) < want[t]
  /\ free = {}
  /\ UNCHANGED dmaBufVars
  /\ UNCHANGED ionVars

AllocPageFails(t) ==
  /\ pc[t] = "ion_alloc"
  /\ Len(pages[buf[t]]) < want[t]
  /\ free = {}
  /\ IonAllocErr(t)

DmaBufExportFails(t) ==
  /\ pc[t] = "ion_alloc"
  /\ Len(pages[buf[t]]) = want[t]
  /\ IonAllocErr(t)

(* data->npages is set and dma_buf_export succeeds. *)
DmaBufExport(t) ==
  /\ Goto(t, "ion_alloc", "dma_buf_fd")
  /\ Len(pages[buf[t]]) = want[t]
  /\ npages' = [npages EXCEPT ![buf[t]] = want[t]]
  /\ want' = [want EXCEPT ![t] = 0]
  /\ fcount' = [fcount EXCEPT ![buf[t]] = 1]
  /\ UNCHANGED <<buf, fdt, vma, attachments, lost, exiting>>
  /\ UNCHANGED <<free, pages, fdret, access>>

(***************************************************************************)
(* ion_alloc reports failure as an ERR_PTR, ion_ioctl tests for NULL: the  *)
(* error pointer goes to dma_buf_fd, which dereferences it.                *)
(***************************************************************************)
ErrPtrDereferenced(t) ==
  /\ Goto(t, "alloc_failed", "oops")
  /\ UNCHANGED <<buf, fcount, fdt, vma, attachments, lost, exiting>>
  /\ UNCHANGED ionVars

(* Mutant: the exporter keeps a reference besides the descriptor's. *)
DmaBufFdKeepsReference(t, f) ==
  /\ Goto(t, "dma_buf_fd", "copy_to_user")
  /\ fdt[f] = None
  /\ fdt' = [fdt EXCEPT ![f] = buf[t]]
  /\ GetFile(buf[t])
  /\ fdret' = [fdret EXCEPT ![t] = f]
  /\ buf' = [buf EXCEPT ![t] = None]
  /\ UNCHANGED <<vma, attachments, lost, exiting>>
  /\ UNCHANGED <<free, pages, npages, want, access>>

(* dma_buf_fd: the descriptor takes over the reference of the thread. *)
DmaBufFd(t, f) ==
  /\ Goto(t, "dma_buf_fd", "copy_to_user")
  /\ fdt[f] = None
  /\ fdt' = [fdt EXCEPT ![f] = buf[t]]
  /\ fdret' = [fdret EXCEPT ![t] = f]
  /\ buf' = [buf EXCEPT ![t] = None]
  /\ UNCHANGED <<fcount, vma, attachments, lost, exiting>>
  /\ UNCHANGED <<free, pages, npages, want, access>>

(* dma_buf_fd with the descriptor table full: the negative result is not   *)
(* tested, ion_ioctl goes on and forgets the buffer with its reference.    *)
DmaBufFdFails(t) ==
  /\ Goto(t, "dma_buf_fd", "copy_to_user")
  /\ \A f \in Fds : fdt[f] # None
  /\ lost' = lost \cup {buf[t]}
  /\ buf' = [buf EXCEPT ![t] = None]
  /\ UNCHANGED <<fcount, fdt, vma, attachments, exiting>>
  /\ UNCHANGED ionVars

(* ion_ioctl is about to return 0. *)
CopyToUser(t) ==
  /\ Goto(t, "copy_to_user", "ioctl_ok")
  /\ UNCHANGED <<buf, fcount, fdt, vma, attachments, lost, exiting>>
  /\ UNCHANGED ionVars

(* copy_to_user faults (-EFAULT), or ion_ioctl returns 0. *)
IonIoctlReturns(t) ==
  /\ \/ Goto(t, "copy_to_user", "user")
     \/ Goto(t, "ioctl_ok", "user")
  /\ fdret' = [fdret EXCEPT ![t] = None]
  /\ UNCHANGED <<buf, fcount, fdt, vma, attachments, lost, exiting>>
  /\ UNCHANGED <<free, pages, npages, want, access>>

-----------------------------------------------------------------------------
(* The dma_buf callbacks: what they do to the state of the exporter.       *)

allocVars == <<free, pages, npages, want, fdret>>

(* x gets access to the first n pages of b. *)
Grant(x, b, n) ==
  /\ access' = [access EXCEPT ![x] = First(b, n)]
  /\ UNCHANGED allocVars

(* x loses its access. *)
Zap(x) == access' = [access EXCEPT ![x] = {}]

Revoke(x) == Zap(x) /\ UNCHANGED allocVars

ion_kmap(t) == Grant(t, buf[t], 1)
ion_vmap(t) == Grant(t, buf[t], npages[buf[t]])
ion_vunmap(t) == Revoke(t)
ion_map_dma_buf(t) == Grant(t, buf[t], npages[buf[t]])
ion_unmap_dma_buf(t) == Revoke(t)
ion_mmap(v, b) == Grant(v, b, npages[b])

(* Mutant: i < npages - 1 in the loop, the last page is not put. *)
ReleaseSkipsLast(b) ==
  /\ IF fcount[b] = 1
     THEN /\ free' = free \cup First(b, npages[b] - 1)
          /\ pages' = [pages EXCEPT ![b] = <<>>]
          /\ npages' = [npages EXCEPT ![b] = 0]
     ELSE UNCHANGED <<free, pages, npages>>
  /\ UNCHANGED <<want, fdret>>

(* The last reference to b is dropped: the first npages pages are put.  To *)
(* be conjoined with every action that drops a reference.                  *)
ion_release(b) ==
  /\ IF fcount[b] = 1
     THEN /\ free' = free \cup First(b, npages[b])
          /\ pages' = [pages EXCEPT ![b] = <<>>]
          /\ npages' = [npages EXCEPT ![b] = 0]
     ELSE UNCHANGED <<free, pages, npages>>
  /\ UNCHANGED <<want, fdret>>

=============================================================================
