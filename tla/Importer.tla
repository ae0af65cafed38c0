------------------------------ MODULE Importer ------------------------------
(***************************************************************************)
(* The importer driver (dma-buf/08/importer-page.c): importer_ioctl takes  *)
(* a reference to the dma_buf behind a descriptor, reads it through kmap   *)
(* and vmap (importer_test1), attaches to it and maps the attachment       *)
(* (importer_test2), and drops the reference.  Each call into the dma-buf  *)
(* core is a step, so calls of several threads interleave between them.    *)
(***************************************************************************)
EXTENDS DmaBuf

(* Mutant: the dma_buf is used without taking a reference. *)
ImporterIoctlBorrows(t, f) ==
  /\ InUser(t)
  /\ fdt[f] # None
  /\ pc' = [pc EXCEPT ![t] = "test1"]
  /\ buf' = [buf EXCEPT ![t] = fdt[f]]
  /\ UNCHANGED <<fcount, fdt, vma, attachments, lost, exiting>>

(* dma_buf_get(fd) in importer_ioctl; a descriptor that refers to nothing  *)
(* makes the call return an error and change nothing.                      *)
ImporterIoctl(t, f) ==
  /\ InUser(t)
  /\ fdt[f] # None
  /\ pc' = [pc EXCEPT ![t] = "test1"]
  /\ buf' = [buf EXCEPT ![t] = fdt[f]]
  /\ GetFile(fdt[f])
  /\ UNCHANGED <<fdt, vma, attachments, lost, exiting>>

(* A step that only moves thread t on. *)
Step(t, from, to) ==
  /\ Goto(t, from, to)
  /\ UNCHANGED <<buf, fcount, fdt, vma, attachments, lost, exiting>>

ImporterKmap(t) == Step(t, "test1", "kmapped")

(* dma_buf_kunmap, then dma_buf_vmap succeeds. *)
ImporterVmap(t) == Step(t, "kmapped", "vmapped")

(***************************************************************************)
(* dma_buf_vmap fails and returns NULL.  The result is not tested: it is   *)
(* printed and passed to dma_buf_vunmap, whose BUG_ON kills the thread.    *)
(* The core calls the exporter for the first of several vmaps only, so     *)
(* this cannot happen while another thread has b vmapped.                  *)
(***************************************************************************)
ImporterVmapFails(t) ==
  /\ pc[t] = "kmapped"
  /\ ~\E u \in Threads : buf[u] = buf[t] /\ pc[u] = "vmapped"
  /\ Step(t, "kmapped", "oops")

ImporterVunmap(t) == Step(t, "vmapped", "test2")

(* Mutant: the failure leaves importer_ioctl without dma_buf_put. *)
AttachFailsEarlyReturn(t) ==
  /\ Goto(t, "test2", "user")
  /\ buf' = [buf EXCEPT ![t] = None]
  /\ UNCHANGED <<fcount, fdt, vma, attachments, lost, exiting>>

(* kzalloc of the device, or dma_buf_attach, fails: importer_test2 gives up. *)
ImporterAttachFails(t) == Step(t, "test2", "put")

ImporterAttach(t) ==
  /\ Goto(t, "test2", "attached")
  /\ attachments' = [attachments EXCEPT ![buf[t]] = @ \cup {t}]
  /\ UNCHANGED <<buf, fcount, fdt, vma, lost, exiting>>

ImporterMap(t) == Step(t, "attached", "mapped")

ImporterUnmap(t) == Step(t, "mapped", "unmapped")

(* Mutant: a failed mapping returns without dma_buf_detach. *)
DetachAfterUnmapOnly(t) ==
  \/ Step(t, "attached", "put")
  \/ /\ Goto(t, "unmapped", "put")
     /\ attachments' = [attachments EXCEPT ![buf[t]] = @ \ {t}]
     /\ UNCHANGED <<buf, fcount, fdt, vma, lost, exiting>>

(* dma_buf_detach: after the unmap, or at once when the mapping failed. *)
ImporterDetach(t) ==
  /\ \/ Goto(t, "attached", "put")
     \/ Goto(t, "unmapped", "put")
  /\ attachments' = [attachments EXCEPT ![buf[t]] = @ \ {t}]
  /\ UNCHANGED <<buf, fcount, fdt, vma, lost, exiting>>

(* Mutant: an error path and the common path both call dma_buf_put. *)
PutTwice(t) ==
  /\ Goto(t, "put", "user")
  /\ buf' = [buf EXCEPT ![t] = None]
  /\ fcount' = [fcount EXCEPT ![buf[t]] = @ - 2]
  /\ UNCHANGED <<fdt, vma, attachments, lost, exiting>>

(* dma_buf_put; the results of both tests are ignored. *)
ImporterPut(t) ==
  /\ Goto(t, "put", "user")
  /\ buf' = [buf EXCEPT ![t] = None]
  /\ PutFile(buf[t])
  /\ UNCHANGED <<fdt, vma, attachments, lost, exiting>>

=============================================================================
