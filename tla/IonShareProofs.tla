--------------------------- MODULE IonShareProofs ---------------------------
(* Theorems about IonShare, for every value of its constants. *)
EXTENDS IonShare, FiniteSetTheorems, TLAPS

-----------------------------------------------------------------------------
(* What a step does to the holders of the buffers.                         *)

HoldersSame ==
  fcount' = fcount /\ \A c \in Buffers : Holders(c)' = Holders(c)

OthersSame(b) == \A c \in Buffers \ {b} : Holders(c)' = Holders(c)

HolderAdded(b, h) ==
  /\ h \notin Holders(b)
  /\ Holders(b)' = Holders(b) \cup {h}
  /\ fcount' = [fcount EXCEPT ![b] = @ + 1]
  /\ OthersSame(b)

HolderDropped(b, h) ==
  /\ h \in Holders(b)
  /\ Holders(b)' = Holders(b) \ {h}
  /\ fcount' = [fcount EXCEPT ![b] = @ - 1]
  /\ OthersSame(b)

HolderMoved(b, g, h) ==
  /\ g \in Holders(b) /\ h \notin Holders(b)
  /\ Holders(b)' = (Holders(b) \ {g}) \cup {h}
  /\ fcount' = fcount
  /\ OthersSame(b)

(* The holders of a buffer are finitely many. *)
LEMMA HoldersFinite ==
  ASSUME NEW b
  PROVE  IsFiniteSet(Holders(b))
<1>1. /\ IsFiniteSet({f \in Fds : fdt[f] = b})
      /\ IsFiniteSet({v \in Vmas : vma[v] = b})
      /\ IsFiniteSet({t \in Threads : buf[t] = b /\ pc[t] \in RefStates})
  BY HolderAssumption, FS_Subset
<1>2. IsFiniteSet({c \in {b} : c \in lost})
  BY FS_Singleton, FS_Subset
<1> QED
  BY <1>1, <1>2, FS_Union DEF Holders

(* mmap adds the mapping to the holders. *)
LEMMA MmapHolders ==
  ASSUME IInv, NEW f \in Fds, NEW v \in Vmas, MapVma(f, v),
         NEW b, b = fdt[f]
  PROVE  b \in Buffers /\ HolderAdded(b, v)
<1>1. /\ v \notin Threads /\ v \notin Fds /\ v \notin Buffers
      /\ vma[v] = None
      /\ \A w \in Vmas : vma'[w] = IF w = v THEN b ELSE vma[w]
      /\ pc' = pc /\ buf' = buf /\ fdt' = fdt /\ lost' = lost
      /\ fcount' = [fcount EXCEPT ![b] = @ + 1]
  BY HolderAssumption DEF IInv, TypeOK, MapVma, GetFile
<1>2. b \in Buffers /\ v \notin Holders(b)
  BY <1>1, NoneAssumption DEF IInv, TypeOK, MapVma, Holders
<1>3. \A c \in Buffers : \A x : x \in Holders(c)' <=>
        x \in Holders(c) \/ (c = b /\ x = v)
  BY <1>1, NoneAssumption DEF Holders
<1>4. Holders(b)' = Holders(b) \cup {v} /\ OthersSame(b)
  BY <1>2, <1>3 DEF OthersSame
<1> QED
  BY <1>1, <1>2, <1>4 DEF HolderAdded

(* close drops the descriptor. *)
LEMMA CloseHolders ==
  ASSUME IInv, NEW f \in Fds, CloseFd(f),
         NEW b, b = fdt[f]
  PROVE  b \in Buffers /\ HolderDropped(b, f)
<1>1. /\ f \notin Threads /\ f \notin Vmas /\ f \notin Buffers
      /\ \A g \in Fds : fdt'[g] = IF g = f THEN None ELSE fdt[g]
      /\ pc' = pc /\ buf' = buf /\ vma' = vma /\ lost' = lost
      /\ fcount' = [fcount EXCEPT ![b] = @ - 1]
  BY HolderAssumption DEF IInv, TypeOK, CloseFd, PutFile
<1>2. b \in Buffers /\ f \in Holders(b)
  BY <1>1, NoneAssumption DEF IInv, TypeOK, CloseFd, Holders
<1>3. \A c \in Buffers : \A x : x \in Holders(c)' <=>
        x \in Holders(c) /\ ~(c = b /\ x = f)
  BY <1>1, NoneAssumption DEF Holders
<1>4. Holders(b)' = Holders(b) \ {f} /\ OthersSame(b)
  BY <1>2, <1>3 DEF OthersSame
<1> QED
  BY <1>1, <1>2, <1>4 DEF HolderDropped

(* munmap drops the mapping. *)
LEMMA UnmapHolders ==
  ASSUME IInv, NEW v \in Vmas, UnmapVma(v),
         NEW b, b = vma[v]
  PROVE  b \in Buffers /\ HolderDropped(b, v)
<1>1. /\ v \notin Threads /\ v \notin Fds /\ v \notin Buffers
      /\ \A w \in Vmas : vma'[w] = IF w = v THEN None ELSE vma[w]
      /\ pc' = pc /\ buf' = buf /\ fdt' = fdt /\ lost' = lost
      /\ fcount' = [fcount EXCEPT ![b] = @ - 1]
  BY HolderAssumption DEF IInv, TypeOK, UnmapVma, PutFile
<1>2. b \in Buffers /\ v \in Holders(b)
  BY <1>1, NoneAssumption DEF IInv, TypeOK, UnmapVma, Holders
<1>3. \A c \in Buffers : \A x : x \in Holders(c)' <=>
        x \in Holders(c) /\ ~(c = b /\ x = v)
  BY <1>1, NoneAssumption DEF Holders
<1>4. Holders(b)' = Holders(b) \ {v} /\ OthersSame(b)
  BY <1>2, <1>3 DEF OthersSame
<1> QED
  BY <1>1, <1>2, <1>4 DEF HolderDropped

(* dma_buf_get adds the thread that entered importer_ioctl. *)
LEMMA ImportHolders ==
  ASSUME IInv, NEW t \in Threads, NEW f \in Fds, ImporterIoctl(t, f),
         NEW b, b = fdt[f]
  PROVE  b \in Buffers /\ HolderAdded(b, t)
<1>1. /\ t \notin Fds /\ t \notin Vmas /\ t \notin Buffers
      /\ \A u \in Threads : pc'[u] = IF u = t THEN "test1" ELSE pc[u]
      /\ \A u \in Threads : buf'[u] = IF u = t THEN b ELSE buf[u]
      /\ buf[t] = None
      /\ fdt' = fdt /\ vma' = vma /\ lost' = lost
      /\ fcount' = [fcount EXCEPT ![b] = @ + 1]
  BY HolderAssumption DEF IInv, TypeOK, ImporterIoctl, GetFile, InUser, Control
<1>2. b \in Buffers /\ t \notin Holders(b)
  BY <1>1, NoneAssumption DEF IInv, TypeOK, ImporterIoctl, Goto, InUser, Control, Holders,
      RefStates, ImporterStates
<1>3. \A c \in Buffers : \A x : x \in Holders(c)' <=>
        x \in Holders(c) \/ (c = b /\ x = t)
  BY <1>1, NoneAssumption DEF Holders, RefStates, ImporterStates
<1>4. Holders(b)' = Holders(b) \cup {t} /\ OthersSame(b)
  BY <1>2, <1>3 DEF OthersSame
<1> QED
  BY <1>1, <1>2, <1>4 DEF HolderAdded

(* A thread killed inside DMA_BUF_IOCTL_SYNC stays a holder for ever. *)
LEMMA SyncHolders ==
  ASSUME IInv, NEW t \in Threads, NEW f \in Fds, SyncKilled(t, f),
         NEW b, b = fdt[f]
  PROVE  b \in Buffers /\ HolderAdded(b, t)
<1>1. /\ t \notin Fds /\ t \notin Vmas /\ t \notin Buffers
      /\ \A u \in Threads : pc'[u] = IF u = t THEN "oops" ELSE pc[u]
      /\ \A u \in Threads : buf'[u] = IF u = t THEN b ELSE buf[u]
      /\ buf[t] = None
      /\ fdt' = fdt /\ vma' = vma /\ lost' = lost
      /\ fcount' = [fcount EXCEPT ![b] = @ + 1]
  BY HolderAssumption DEF IInv, TypeOK, SyncKilled, GetFile, InUser, Control
<1>2. b \in Buffers /\ t \notin Holders(b)
  BY <1>1, NoneAssumption DEF IInv, TypeOK, SyncKilled, Goto, InUser, Control, Holders,
      RefStates, ImporterStates
<1>3. \A c \in Buffers : \A x : x \in Holders(c)' <=>
        x \in Holders(c) \/ (c = b /\ x = t)
  BY <1>1, NoneAssumption DEF Holders, RefStates, ImporterStates
<1>4. Holders(b)' = Holders(b) \cup {t} /\ OthersSame(b)
  BY <1>2, <1>3 DEF OthersSame
<1> QED
  BY <1>1, <1>2, <1>4 DEF HolderAdded

(* dma_buf_export makes the allocating thread the first holder. *)
LEMMA ExportHolders ==
  ASSUME IInv, NEW t \in Threads, DmaBufExport(t),
         NEW b, b = buf[t]
  PROVE  b \in Buffers /\ HolderAdded(b, t)
<1>1. /\ t \notin Fds /\ t \notin Vmas /\ t \notin Buffers
      /\ \A u \in Threads : pc'[u] = IF u = t THEN "dma_buf_fd" ELSE pc[u]
      /\ pc[t] = "ion_alloc"
      /\ buf' = buf /\ fdt' = fdt /\ vma' = vma /\ lost' = lost
      /\ fcount[b] = 0 /\ fcount' = [fcount EXCEPT ![b] = 1]
  BY HolderAssumption DEF IInv, TypeOK, Filling, DmaBufExport, Goto
<1>2. b \in Buffers /\ t \notin Holders(b)
  BY <1>1, NoneAssumption DEF IInv, TypeOK, DmaBufExport, Goto, InUser, Control, Holders,
      RefStates, ImporterStates
<1>3. \A c \in Buffers : \A x : x \in Holders(c)' <=>
        x \in Holders(c) \/ (c = b /\ x = t)
  BY <1>1, NoneAssumption DEF Holders, RefStates, ImporterStates
<1>4. Holders(b)' = Holders(b) \cup {t} /\ OthersSame(b)
  BY <1>2, <1>3 DEF OthersSame
<1> QED
  BY <1>1, <1>2, <1>4 DEF HolderAdded

(* dma_buf_put drops the thread. *)
LEMMA PutHolders ==
  ASSUME IInv, NEW t \in Threads, ImporterPut(t),
         NEW b, b = buf[t]
  PROVE  b \in Buffers /\ HolderDropped(b, t)
<1>1. /\ t \notin Fds /\ t \notin Vmas /\ t \notin Buffers
      /\ \A u \in Threads : pc'[u] = IF u = t THEN "user" ELSE pc[u]
      /\ \A u \in Threads : buf'[u] = IF u = t THEN None ELSE buf[u]
      /\ fdt' = fdt /\ vma' = vma /\ lost' = lost
      /\ fcount' = [fcount EXCEPT ![b] = @ - 1]
  BY HolderAssumption DEF IInv, TypeOK, ImporterPut, Goto, PutFile
<1>2. b \in Buffers /\ t \in Holders(b)
  BY <1>1, NoneAssumption DEF IInv, TypeOK, ImporterPut, Goto, InUser, Control, Holders,
      RefStates, ImporterStates
<1>3. \A c \in Buffers : \A x : x \in Holders(c)' <=>
        x \in Holders(c) /\ ~(c = b /\ x = t)
  BY <1>1, NoneAssumption DEF Holders, RefStates, ImporterStates
<1>4. Holders(b)' = Holders(b) \ {t} /\ OthersSame(b)
  BY <1>2, <1>3 DEF OthersSame
<1> QED
  BY <1>1, <1>2, <1>4 DEF HolderDropped

(* dma_buf_fd hands the reference of the thread to the descriptor. *)
LEMMA FdHolders ==
  ASSUME IInv, NEW t \in Threads, NEW f \in Fds, DmaBufFd(t, f),
         NEW b, b = buf[t]
  PROVE  b \in Buffers /\ HolderMoved(b, t, f)
<1>1. /\ t \notin Fds /\ t \notin Vmas /\ t \notin Buffers
      /\ f \notin Threads /\ f \notin Vmas /\ f \notin Buffers
      /\ fdt[f] = None
      /\ \A u \in Threads : pc'[u] = IF u = t THEN "copy_to_user" ELSE pc[u]
      /\ \A u \in Threads : buf'[u] = IF u = t THEN None ELSE buf[u]
      /\ \A g \in Fds : fdt'[g] = IF g = f THEN b ELSE fdt[g]
      /\ vma' = vma /\ lost' = lost /\ fcount' = fcount
  BY HolderAssumption DEF IInv, TypeOK, DmaBufFd, Goto
<1>2. b \in Buffers /\ t \in Holders(b) /\ f \notin Holders(b)
  BY <1>1, NoneAssumption DEF IInv, TypeOK, DmaBufFd, Goto, InUser, Control, Holders,
      RefStates, ImporterStates
<1>3. \A c \in Buffers : \A x : x \in Holders(c)' <=>
        \/ x \in Holders(c) /\ ~(c = b /\ x = t)
        \/ c = b /\ x = f
  BY <1>1, NoneAssumption DEF Holders, RefStates, ImporterStates
<1>4. Holders(b)' = (Holders(b) \ {t}) \cup {f} /\ OthersSame(b)
  BY <1>2, <1>3 DEF OthersSame
<1> QED
  BY <1>1, <1>2, <1>4 DEF HolderMoved

(* When there is no descriptor left the reference is lost. *)
LEMMA LostHolders ==
  ASSUME IInv, NEW t \in Threads, DmaBufFdFails(t),
         NEW b, b = buf[t]
  PROVE  b \in Buffers /\ HolderMoved(b, t, b)
<1>1. /\ t \notin Fds /\ t \notin Vmas /\ t \notin Buffers
      /\ b \notin Threads \cup Fds \cup Vmas
      /\ lost' = lost \cup {b}
      /\ \A u \in Threads : pc'[u] = IF u = t THEN "copy_to_user" ELSE pc[u]
      /\ \A u \in Threads : buf'[u] = IF u = t THEN None ELSE buf[u]
      /\ vma' = vma /\ fdt' = fdt /\ fcount' = fcount
  BY HolderAssumption DEF IInv, TypeOK, DmaBufFdFails, FreshPrivate, Goto, Control, ImporterStates
<1>2. b \in Buffers /\ t \in Holders(b) /\ b \notin Holders(b)
  BY <1>1, NoneAssumption DEF IInv, TypeOK, DmaBufFdFails, FreshPrivate, Goto, InUser, Control,
      Holders, RefStates, ImporterStates
<1>3. \A c \in Buffers : \A x : x \in Holders(c)' <=>
        \/ x \in Holders(c) /\ ~(c = b /\ x = t)
        \/ c = b /\ x = b
  BY <1>1, NoneAssumption DEF Holders, RefStates, ImporterStates
<1>4. Holders(b)' = (Holders(b) \ {t}) \cup {b} /\ OthersSame(b)
  BY <1>2, <1>3 DEF OthersSame
<1> QED
  BY <1>1, <1>2, <1>4 DEF HolderMoved

(* Steps that leave references alone: a thread moves between positions of  *)
(* which both are, or neither is, backed by a reference to its buffer.     *)
LEMMA QuietHolders ==
  ASSUME IInv, NEW t \in Threads, NEW from \in States, NEW to \in States,
         Goto(t, from, to),
         UNCHANGED <<fcount, fdt, vma, lost>>,
         \A u \in Threads \ {t} : buf'[u] = buf[u],
         \/ buf'[t] = buf[t] /\ from \in RefStates /\ to \in RefStates
         \/ buf'[t] = buf[t] /\ from \notin RefStates /\ to \notin RefStates
         \/ buf[t] = None /\ buf'[t] = None
         \/ from \notin RefStates /\ to \notin RefStates
  PROVE  HoldersSame
BY NoneAssumption DEF IInv, TypeOK, Goto, HoldersSame, Holders

-----------------------------------------------------------------------------
(* The effect of a step on references and pages: one of seven kinds.       *)

pageVars == <<free, pages, npages>>

Quiet == HoldersSame /\ UNCHANGED pageVars

Filled(t) == HoldersSame /\ \E p \in Pages : AllocPage(t, p)

Unwound(t) == HoldersSame /\ IonAllocErr(t)

Exported(b, t) == HolderAdded(b, t) /\ b = buf[t] /\ DmaBufExport(t)

Acquired(b, h) ==
  HolderAdded(b, h) /\ (\E f \in Fds : fdt[f] = b) /\ UNCHANGED pageVars

Released(b, h) ==
  HolderDropped(b, h) /\ (h \in Threads => pc[h] = "put") /\ ion_release(b)

Passed(b, g, h) ==
  HolderMoved(b, g, h) /\ (g \in Threads => pc'[g] = "copy_to_user") /\ UNCHANGED pageVars

Effect ==
  \/ Quiet
  \/ \E t \in Threads : Filled(t) \/ Unwound(t)
  \/ \E b \in Buffers, t \in Threads : Exported(b, t)
  \/ \E b \in Buffers, h \in Threads \cup Fds \cup Vmas : Acquired(b, h) \/ Released(b, h)
  \/ \E b \in Buffers, g \in Threads, h \in Fds \cup Buffers : Passed(b, g, h)

(* The steps user code makes. *)
LEMMA UserEffect ==
  ASSUME IInv, NEW t \in Threads, UserStep(t)
  PROVE  Effect
<1>1. ASSUME NEW n \in 1..MaxPages, IonIoctl(t, n)
      PROVE  Quiet
  <2>1. /\ Goto(t, "user", "ion_alloc")
        /\ \A u \in Threads \ {t} : buf'[u] = buf[u]
        /\ UNCHANGED <<fcount, fdt, vma, lost>>
    BY <1>1 DEF IonIoctl, InUser, Goto, IInv, TypeOK
  <2> QED
    BY <1>1, <2>1, QuietHolders DEF Quiet, pageVars, IonIoctl, States, IonStates,
      RefStates, ImporterStates
<1>2. ASSUME IonIoctlFails(t)
      PROVE  Quiet
  <2>1. /\ Goto(t, "user", "alloc_failed")
        /\ \A u \in Threads : buf'[u] = buf[u]
        /\ UNCHANGED <<fcount, fdt, vma, lost>>
    BY <1>2 DEF IonIoctlFails, InUser, Goto
  <2> QED
    BY <1>2, <2>1, QuietHolders
    DEF Quiet, pageVars, ionVars, IonIoctlFails, States, IonStates, RefStates, ImporterStates
<1>3. ASSUME NEW f \in Fds, Import(t, f)
      PROVE  \E b \in Buffers : Acquired(b, t)
  BY <1>3, ImportHolders DEF Import, ImporterIoctl, Acquired, pageVars, ionVars
<1>4. ASSUME NEW f \in Fds, SyncKilled(t, f)
      PROVE  \E b \in Buffers : Acquired(b, t)
  BY <1>4, SyncHolders DEF SyncKilled, Acquired, pageVars, ionVars
<1>5. ASSUME NEW f \in Fds, Close(t, f)
      PROVE  \E b \in Buffers : Released(b, f)
  BY <1>5, CloseHolders, HolderAssumption DEF Close, Released
<1>6. ASSUME NEW f \in Fds, NEW v \in Vmas, Mmap(t, f, v)
      PROVE  \E b \in Buffers : Acquired(b, v)
  BY <1>6, MmapHolders DEF Mmap, Acquired, pageVars, ion_mmap, Grant, allocVars
<1>7. ASSUME NEW v \in Vmas, Munmap(t, v)
      PROVE  \E b \in Buffers : Released(b, v)
  BY <1>7, UnmapHolders, HolderAssumption DEF Munmap, Released
<1> QED
  BY <1>1, <1>2, <1>3, <1>4, <1>5, <1>6, <1>7 DEF UserStep, Effect

(* The steps of ion_ioctl. *)
LEMMA IonEffect ==
  ASSUME IInv, NEW t \in Threads, IonStep(t)
  PROVE  Effect
<1>1. ASSUME NEW p \in Pages, AllocPage(t, p)
      PROVE  Filled(t)
  BY <1>1 DEF AllocPage, dmaBufVars, Filled, HoldersSame, Holders
<1>2. ASSUME IonAllocErr(t)
      PROVE  Unwound(t)
  <2>1. /\ Goto(t, "ion_alloc", "alloc_failed")
        /\ \A u \in Threads \ {t} : buf'[u] = buf[u]
        /\ UNCHANGED <<fcount, fdt, vma, lost>>
    BY <1>2 DEF IonAllocErr, IInv, TypeOK
  <2> QED
    BY <1>2, <2>1, QuietHolders DEF Unwound, States, IonStates, RefStates, ImporterStates
<1>3. ASSUME DmaBufExport(t)
      PROVE  \E b \in Buffers : Exported(b, t)
  BY <1>3, ExportHolders DEF Exported
<1>4. ASSUME ErrPtrDereferenced(t)
      PROVE  Quiet
  <2>1. /\ Goto(t, "alloc_failed", "oops")
        /\ buf[t] = None
        /\ UNCHANGED <<buf, fcount, fdt, vma, lost>>
    BY <1>4 DEF ErrPtrDereferenced, Goto, IInv, Control
  <2> QED
    BY <1>4, <2>1, QuietHolders
    DEF Quiet, pageVars, ionVars, ErrPtrDereferenced, States, IonStates
<1>5. ASSUME NEW f \in Fds, DmaBufFd(t, f)
      PROVE  \E b \in Buffers : Passed(b, t, f)
  BY <1>5, FdHolders DEF DmaBufFd, Goto, Passed, pageVars, IInv, TypeOK
<1>6. ASSUME DmaBufFdFails(t)
      PROVE  \E b \in Buffers : Passed(b, t, b)
  BY <1>6, LostHolders DEF DmaBufFdFails, Goto, Passed, pageVars, ionVars, IInv, TypeOK
<1>7. ASSUME CopyToUser(t) \/ IonIoctlReturns(t)
      PROVE  Quiet
  <2>1. /\ \E from \in {"copy_to_user", "ioctl_ok"}, to \in {"ioctl_ok", "user"} : Goto(t, from, to)
        /\ UNCHANGED <<buf, fcount, fdt, vma, lost>>
    BY <1>7 DEF CopyToUser, IonIoctlReturns
  <2>2. HoldersSame
    BY <2>1, QuietHolders DEF States, IonStates, RefStates, ImporterStates
  <2> QED
    BY <1>7, <2>2 DEF Quiet, pageVars, ionVars, CopyToUser, IonIoctlReturns
<1> QED
  BY <1>1, <1>2, <1>3, <1>4, <1>5, <1>6, <1>7
  DEF IonStep, AllocPageFails, DmaBufExportFails, Effect

(* The steps of importer_ioctl. *)
LEMMA ImporterEffect ==
  ASSUME IInv, NEW t \in Threads, ImporterStep(t)
  PROVE  Effect
<1>1. ASSUME Put(t)
      PROVE  \E b \in Buffers : Released(b, t)
  BY <1>1, PutHolders DEF Put, Released, ImporterPut, Goto
<1>2. ASSUME ImporterStep(t), ~Put(t)
      PROVE  Quiet
  <2>1. /\ \E from, to \in ImporterStates \cup {"oops"} : Goto(t, from, to)
        /\ UNCHANGED <<buf, fcount, fdt, vma, lost>>
    BY <1>2 DEF ImporterStep, Kmap, Vmap, VmapFails, Vunmap, Attach, AttachFails, MapAttachment,
      UnmapAttachment, Detach, ImporterKmap, ImporterVmap, ImporterVmapFails, ImporterVunmap,
      ImporterAttach, ImporterAttachFails, ImporterMap, ImporterUnmap, ImporterDetach, Step,
      ImporterStates
  <2>2. HoldersSame
    BY <2>1, QuietHolders DEF States, RefStates
  <2>3. UNCHANGED pageVars
    BY <1>2 DEF ImporterStep, Kmap, Vmap, VmapFails, Vunmap, Attach, AttachFails, MapAttachment,
      UnmapAttachment, Detach, ion_kmap, ion_vmap, ion_vunmap, ion_map_dma_buf,
      ion_unmap_dma_buf, Grant, Revoke, allocVars, ionVars, pageVars
  <2> QED
    BY <2>2, <2>3 DEF Quiet
<1> QED
  BY <1>1, <1>2 DEF Effect

(* Every step. *)
LEMMA NextEffect ==
  ASSUME IInv, [Next]_vars
  PROVE  Effect
<1>1. ASSUME Exit \/ Rerun \/ UNCHANGED vars
      PROVE  Quiet
  BY <1>1 DEF Exit, Rerun, ExitBegin, ExitDone, vars, dmaBufVars, ionVars, pageVars, Quiet,
    HoldersSame, Holders
<1>2. ASSUME NEW f \in Fds, ReapFd(f)
      PROVE  \E b \in Buffers : Released(b, f)
  BY <1>2, CloseHolders, HolderAssumption DEF ReapFd, Released
<1>3. ASSUME NEW v \in Vmas, ReapVma(v)
      PROVE  \E b \in Buffers : Released(b, v)
  BY <1>3, UnmapHolders, HolderAssumption DEF ReapVma, Released
<1>4. ASSUME NEW t \in Threads, UserStep(t) \/ KernelStep(t)
      PROVE  Effect
  BY <1>4, UserEffect, IonEffect, ImporterEffect DEF KernelStep
<1> QED
  BY <1>1, <1>2, <1>3, <1>4 DEF Next, ReapStep, Effect

-----------------------------------------------------------------------------
(* Reference counts.                                                       *)

(* Counts stay exact under every kind of effect. *)
LEMMA RefcountStep ==
  ASSUME IInv, Effect
  PROVE  RefcountExact'
<1> USE DEF IInv, TypeOK, RefcountExact
<1>1. CASE HoldersSame
  BY <1>1 DEF HoldersSame
<1>2. ASSUME NEW b \in Buffers, NEW h, HolderAdded(b, h)
      PROVE  RefcountExact'
  <2>1. Cardinality(Holders(b)') = Cardinality(Holders(b)) + 1
    <3> HIDE DEF IInv, TypeOK, RefcountExact
    <3> QED
      BY <1>2, HoldersFinite, FS_AddElement DEF HolderAdded
  <2> QED
    BY <1>2, <2>1 DEF HolderAdded, OthersSame
<1>3. ASSUME NEW b \in Buffers, NEW h, HolderDropped(b, h)
      PROVE  RefcountExact'
  <2>1. Cardinality(Holders(b)') = Cardinality(Holders(b)) - 1
    BY <1>3, HoldersFinite, FS_RemoveElement DEF HolderDropped
  <2> QED
    BY <1>3, <2>1 DEF HolderDropped, OthersSame
<1>4. ASSUME NEW b \in Buffers, NEW g, NEW h, HolderMoved(b, g, h)
      PROVE  RefcountExact'
  <2>1. /\ IsFiniteSet(Holders(b) \ {g})
        /\ Cardinality(Holders(b) \ {g}) = Cardinality(Holders(b)) - 1
    BY <1>4, HoldersFinite, FS_RemoveElement DEF HolderMoved
  <2>2. Cardinality(Holders(b)') = (Cardinality(Holders(b)) - 1) + 1
    BY <1>4, <2>1, FS_AddElement DEF HolderMoved
  <2>3. Cardinality(Holders(b)') = Cardinality(Holders(b))
    BY <2>2, HoldersFinite, FS_CardinalityType
  <2> QED
    BY <1>4, <2>3 DEF HolderMoved, OthersSame
<1> QED
  BY <1>1, <1>2, <1>3, <1>4
  DEF Effect, Quiet, Filled, Unwound, Exported, Acquired, Released, Passed

(* A buffer has references exactly while it has holders. *)
LEMMA CountedIffHeld ==
  ASSUME TypeOK, RefcountExact, NEW b \in Buffers
  PROVE  /\ fcount[b] > 0 <=> Holders(b) # {}
         /\ \A h \in Holders(b) : fcount[b] = 1 <=> Holders(b) = {h}
<1>1. fcount[b] \in Nat /\ fcount[b] = Cardinality(Holders(b)) /\ IsFiniteSet(Holders(b))
  BY HoldersFinite DEF TypeOK, RefcountExact
<1>2. fcount[b] = 0 <=> Holders(b) = {}
  BY <1>1, FS_EmptySet
<1>3. \A h \in Holders(b) : fcount[b] = 1 <=> Holders(b) = {h}
  BY <1>1, FS_Singleton
<1> QED
  BY <1>1, <1>2, <1>3

-----------------------------------------------------------------------------
(* Pages.                                                                  *)

(* What the assignments to the page arrays do to the pages of each buffer. *)
LEMMA HeldAppend ==
  ASSUME TypeOK, NEW b \in Buffers, NEW p \in Pages,
         pages' = [pages EXCEPT ![b] = Append(@, p)]
  PROVE  /\ Held(b)' = Held(b) \cup {p}
         /\ \A c \in Buffers \ {b} : pages'[c] = pages[c] /\ Held(c)' = Held(c)
<1>1. pages[b] \in Seq(Pages) /\ pages'[b] = Append(pages[b], p)
  BY DEF TypeOK
<1>2. /\ Len(pages'[b]) = Len(pages[b]) + 1
      /\ \A i \in 1..Len(pages[b]) : pages'[b][i] = pages[b][i]
      /\ pages'[b][Len(pages[b]) + 1] = p
  BY <1>1
<1>3. 1..(Len(pages[b]) + 1) = 1..Len(pages[b]) \cup {Len(pages[b]) + 1}
  BY <1>1
<1> QED
  BY <1>2, <1>3 DEF Held, First, TypeOK

(* The first n entries of a page array are among its entries. *)
LEMMA FirstHeld ==
  ASSUME NEW b, NEW n \in Nat, Len(pages[b]) \in Nat, n <= Len(pages[b])
  PROVE  First(b, n) \subseteq Held(b)
<1>1. \A i \in 1..n : i \in 1..Len(pages[b])
  OBVIOUS
<1> QED
  BY <1>1 DEF First, Held

(* Emptying one page array leaves the pages of the other buffers alone.    *)
LEMMA HeldReset ==
  ASSUME TypeOK, NEW b \in Buffers, pages' = [pages EXCEPT ![b] = <<>>]
  PROVE  /\ Held(b)' = {}
         /\ \A c \in Buffers \ {b} : pages'[c] = pages[c] /\ Held(c)' = Held(c)
BY DEF Held, First, TypeOK

(* One buffer taking a page it did not have, or giving up all of its       *)
(* pages, keeps the pages conserved.                                       *)
LEMMA GatherConserves ==
  ASSUME TypeOK, PagesConserved, NEW b \in Buffers, NEW p \in free,
         free' = free \ {p}, pages' = [pages EXCEPT ![b] = Append(@, p)]
  PROVE  PagesConserved'
<1>1. p \in Pages
  BY DEF TypeOK
<1>2. /\ Held(b)' = Held(b) \cup {p}
      /\ \A c \in Buffers \ {b} : pages'[c] = pages[c] /\ Held(c)' = Held(c)
  BY <1>1, HeldAppend
<1>3. \A c \in Buffers : p \notin Held(c)
  BY DEF PagesConserved
<1>4. \A i, j \in DOMAIN pages'[b] : pages'[b][i] = pages'[b][j] => i = j
  <2>1. pages[b] \in Seq(Pages) /\ pages'[b] = Append(pages[b], p)
    BY DEF TypeOK
  <2>2. \A i \in 1..Len(pages[b]) : pages[b][i] # p
    BY <1>3 DEF Held, First
  <2> QED
    BY <2>1, <2>2 DEF PagesConserved
<1>5. free' \cup UNION {Held(c)' : c \in Buffers} = Pages
  BY <1>1, <1>2, <1>3 DEF PagesConserved
<1>6. \A c \in Buffers : Held(c)' \cap free' = {}
  BY <1>2, <1>3 DEF PagesConserved
<1>7. \A c, d \in Buffers : c # d => Held(c)' \cap Held(d)' = {}
  BY <1>2, <1>3 DEF PagesConserved
<1> QED
  BY <1>2, <1>4, <1>5, <1>6, <1>7 DEF PagesConserved

(* A buffer that puts all its pages back, and clears its array, keeps the  *)
(* pages conserved.                                                        *)
LEMMA GiveUpConserves ==
  ASSUME TypeOK, PagesConserved, NEW b \in Buffers,
         free' = free \cup Held(b), pages' = [pages EXCEPT ![b] = <<>>]
  PROVE  PagesConserved'
<1>1. /\ Held(b)' = {}
      /\ \A c \in Buffers \ {b} : pages'[c] = pages[c] /\ Held(c)' = Held(c)
  BY HeldReset
<1>2. pages'[b] = <<>>
  BY DEF TypeOK
<1>3. free' \cup UNION {Held(c)' : c \in Buffers} = Pages
  BY <1>1 DEF PagesConserved
<1> QED
  BY <1>1, <1>2, <1>3 DEF PagesConserved

(* The last drop of a reference puts all the pages of the buffer. *)
LEMMA ReleasePages ==
  ASSUME IInv, NEW b \in Buffers, NEW h, Released(b, h)
  PROVE  \/ /\ Holders(b) = {h}
            /\ free' = free \cup Held(b)
            /\ pages' = [pages EXCEPT ![b] = <<>>]
            /\ npages' = [npages EXCEPT ![b] = 0]
         \/ Holders(b) # {h} /\ fcount[b] > 1 /\ UNCHANGED pageVars
<1>1. /\ fcount[b] > 0
      /\ fcount[b] = 1 <=> Holders(b) = {h}
  BY CountedIffHeld DEF IInv, Released, HolderDropped
<1>2. npages[b] = Len(pages[b])
  BY <1>1 DEF IInv, ArraysMatch
<1> QED
  BY <1>1, <1>2 DEF Released, ion_release, Held, pageVars, IInv, TypeOK

(* Every step of the drivers conserves the pages.                          *)
LEMMA PagesStep ==
  ASSUME IInv, Effect
  PROVE  PagesConserved'
<1>1. CASE UNCHANGED <<free, pages>>
  <2>1. \A b \in Buffers : Held(b)' = Held(b)
    BY <1>1 DEF Held, First
  <2> QED
    BY <1>1, <2>1 DEF IInv, PagesConserved
<1>2. ASSUME NEW t \in Threads, Filled(t)
      PROVE  PagesConserved'
  BY <1>2, GatherConserves DEF IInv, Control, Filled, AllocPage
<1>3. ASSUME NEW t \in Threads, Unwound(t)
      PROVE  PagesConserved'
  BY <1>3, GiveUpConserves DEF IInv, Control, Unwound, IonAllocErr, Goto, Held
<1>4. ASSUME NEW b \in Buffers, NEW h, Released(b, h)
      PROVE  PagesConserved'
  BY <1>1, <1>4, ReleasePages, GiveUpConserves DEF IInv, pageVars
<1> QED
  BY <1>1, <1>2, <1>3, <1>4
  DEF Effect, Quiet, Exported, DmaBufExport, Acquired, Passed, pageVars

-----------------------------------------------------------------------------
(* Types.                                                                  *)

(* The state of the dma-buf core but the counts, and the locals of ion_alloc. *)
CoreType ==
  /\ pc \in [Threads -> States]
  /\ buf \in [Threads -> Buffers \cup {None}]
  /\ fdt \in [Fds -> Buffers \cup {None}]
  /\ vma \in [Vmas -> Buffers \cup {None}]
  /\ attachments \in [Buffers -> SUBSET Threads]
  /\ lost \subseteq Buffers
  /\ exiting \in BOOLEAN
  /\ want \in [Threads -> Nat]
  /\ fdret \in [Threads -> Fds \cup {None}]

(* Every step keeps the types of the state that is not counted or paged.   *)
LEMMA CoreTypeStep ==
  ASSUME IInv, [Next]_vars
  PROVE  CoreType'
<1> CoreType
  BY DEF IInv, TypeOK, CoreType
<1>1. ASSUME NEW t \in Threads, UserStep(t)
      PROVE  CoreType'
  <2>1. ASSUME NEW n \in 1..MaxPages, IonIoctl(t, n)
        PROVE  CoreType'
    BY <2>1, IonAssumption DEF CoreType, IonIoctl, States, IonStates
  <2>2. CASE IonIoctlFails(t)
    BY <2>2 DEF CoreType, IonIoctlFails, ionVars, States, IonStates
  <2>3. ASSUME NEW f \in Fds, Import(t, f) \/ SyncKilled(t, f)
        PROVE  CoreType'
    BY <2>3 DEF CoreType, Import, ImporterIoctl, SyncKilled, ionVars, States, ImporterStates
  <2>4. ASSUME NEW f \in Fds, Close(t, f)
        PROVE  CoreType'
    BY <2>4 DEF CoreType, Close, CloseFd, ion_release
  <2>5. ASSUME NEW f \in Fds, NEW v \in Vmas, Mmap(t, f, v)
        PROVE  CoreType'
    BY <2>5 DEF CoreType, Mmap, MapVma, ion_mmap, Grant, allocVars
  <2>6. ASSUME NEW v \in Vmas, Munmap(t, v)
        PROVE  CoreType'
    BY <2>6 DEF CoreType, Munmap, UnmapVma, ion_release
  <2> QED
    BY <1>1, <2>1, <2>2, <2>3, <2>4, <2>5, <2>6 DEF UserStep
<1>2. ASSUME NEW t \in Threads, IonStep(t)
      PROVE  CoreType'
  <2>1. CASE (\E p \in Pages : AllocPage(t, p)) \/ CopyToUser(t) \/ IonIoctlReturns(t)
    BY <2>1 DEF CoreType, AllocPage, CopyToUser, IonIoctlReturns, Goto, dmaBufVars, ionVars,
      States, IonStates
  <2>2. CASE IonAllocErr(t)
    BY <2>2 DEF CoreType, IonAllocErr, Goto, States, IonStates
  <2>3. CASE DmaBufExport(t) \/ ErrPtrDereferenced(t)
    BY <2>3 DEF CoreType, DmaBufExport, ErrPtrDereferenced, Goto, ionVars, States, IonStates
  <2>4. ASSUME NEW f \in Fds, DmaBufFd(t, f)
        PROVE  CoreType'
    BY <2>4 DEF CoreType, DmaBufFd, Goto, States, IonStates
  <2>5. CASE DmaBufFdFails(t)
    <3>1. pc[t] = "dma_buf_fd" => buf[t] \in Buffers
      BY DEF IInv, Control
    <3> QED
      BY <2>5, <3>1 DEF CoreType, DmaBufFdFails, Goto, ionVars, States, IonStates
  <2> QED
    BY <1>2, <2>1, <2>2, <2>3, <2>4, <2>5 DEF IonStep, AllocPageFails, DmaBufExportFails
<1>3. ASSUME NEW t \in Threads, ImporterStep(t)
      PROVE  CoreType'
  <2>1. CASE Put(t)
    BY <2>1 DEF CoreType, Put, ImporterPut, Goto, ion_release, States
  <2>2. CASE Attach(t) \/ Detach(t)
    BY <2>2 DEF CoreType, Attach, Detach, ImporterAttach, ImporterDetach, Goto, ionVars, States,
      ImporterStates
  <2>3. CASE ~Put(t) /\ ~Attach(t) /\ ~Detach(t)
    <3>1. /\ \E from, to \in States : Goto(t, from, to)
          /\ UNCHANGED <<buf, fdt, vma, attachments, lost, exiting>>
      BY <1>3, <2>3 DEF ImporterStep, Kmap, Vmap, VmapFails, Vunmap, AttachFails, MapAttachment,
        UnmapAttachment, ImporterKmap, ImporterVmap, ImporterVmapFails, ImporterVunmap,
        ImporterAttachFails, ImporterMap, ImporterUnmap, Step, States, ImporterStates
    <3>2. UNCHANGED <<want, fdret>>
      BY <1>3, <2>3 DEF ImporterStep, Kmap, Vmap, VmapFails, Vunmap, AttachFails, MapAttachment,
        UnmapAttachment, ion_kmap, ion_vmap, ion_vunmap, ion_map_dma_buf, ion_unmap_dma_buf,
        Grant, Revoke, allocVars, ionVars
    <3> QED
      BY <3>1, <3>2 DEF CoreType, Goto
  <2> QED
    BY <2>1, <2>2, <2>3
<1>4. ASSUME Exit \/ Rerun \/ UNCHANGED vars
      PROVE  CoreType'
  <2>1. /\ UNCHANGED <<pc, buf, fdt, vma, attachments, lost, want, fdret>>
        /\ exiting' \in {TRUE, FALSE, exiting}
    BY <1>4, Zenon DEF Exit, ExitBegin, Rerun, ExitDone, ionVars, vars, dmaBufVars
  <2> QED
    BY <2>1 DEF CoreType
<1>5. ASSUME NEW f \in Fds, ReapFd(f)
      PROVE  CoreType'
  BY <1>5 DEF CoreType, ReapFd, CloseFd, ion_release
<1>6. ASSUME NEW v \in Vmas, ReapVma(v)
      PROVE  CoreType'
  BY <1>6 DEF CoreType, ReapVma, UnmapVma, ion_release
<1> QED
  BY <1>1, <1>2, <1>3, <1>4, <1>5, <1>6 DEF Next, KernelStep, ReapStep

-----------------------------------------------------------------------------
(* Control: a step moves one thread.                                       *)

(* Nothing about thread u changes. *)
Idle(u) ==
  pc'[u] = pc[u] /\ buf'[u] = buf[u] /\ want'[u] = want[u] /\ access'[u] = access[u]

(* A step of one thread leaves the other threads alone. *)
LEMMA OthersIdle ==
  ASSUME IInv, NEW t \in Threads, UserStep(t) \/ KernelStep(t),
         NEW u \in Threads, u # t
  PROVE  Idle(u)
<1> USE DEF IInv, TypeOK, Idle, Accessors
<1>1. CASE UserStep(t)
  <2>1. ASSUME NEW n \in 1..MaxPages, IonIoctl(t, n)
        PROVE  Idle(u)
    BY <2>1 DEF IonIoctl
  <2>2. CASE IonIoctlFails(t)
    BY <2>2 DEF IonIoctlFails, ionVars
  <2>3. ASSUME NEW f \in Fds, Import(t, f) \/ SyncKilled(t, f) \/ Close(t, f)
        PROVE  Idle(u)
    BY <2>3 DEF Import, ImporterIoctl, SyncKilled, Close, CloseFd, ion_release, ionVars
  <2>4. ASSUME NEW f \in Fds, NEW v \in Vmas, Mmap(t, f, v)
        PROVE  Idle(u)
    BY <2>4, HolderAssumption DEF Mmap, MapVma, ion_mmap, Grant, allocVars
  <2>5. ASSUME NEW v \in Vmas, Munmap(t, v)
        PROVE  Idle(u)
    BY <2>5, HolderAssumption DEF Munmap, UnmapVma, ion_release, Zap
  <2> QED
    BY <1>1, <2>1, <2>2, <2>3, <2>4, <2>5 DEF UserStep
<1>2. CASE IonStep(t)
  <2>1. CASE IonAllocErr(t) \/ DmaBufExport(t)
    BY <2>1 DEF IonAllocErr, DmaBufExport, Goto
  <2>2. CASE (\E p \in Pages : AllocPage(t, p)) \/ ErrPtrDereferenced(t)
    BY <2>2 DEF AllocPage, ErrPtrDereferenced, Goto, dmaBufVars, ionVars
  <2>3. CASE \E f \in Fds : DmaBufFd(t, f)
    BY <2>3 DEF DmaBufFd, Goto
  <2>4. CASE DmaBufFdFails(t) \/ CopyToUser(t) \/ IonIoctlReturns(t)
    BY <2>4 DEF DmaBufFdFails, CopyToUser, IonIoctlReturns, Goto, ionVars
  <2> QED
    BY <1>2, <2>1, <2>2, <2>3, <2>4 DEF IonStep, AllocPageFails, DmaBufExportFails
<1>3. CASE ImporterStep(t)
  <2>1. CASE Put(t) \/ Attach(t) \/ Detach(t) \/ AttachFails(t)
    BY <2>1 DEF Put, ImporterPut, Attach, ImporterAttach, Detach, ImporterDetach, AttachFails,
      ImporterAttachFails, Step, Goto, ion_release, ionVars
  <2>2. CASE Kmap(t) \/ Vmap(t) \/ MapAttachment(t)
    BY <2>2 DEF Kmap, Vmap, MapAttachment, ImporterKmap, ImporterVmap, ImporterMap, Step, Goto,
      ion_kmap, ion_vmap, ion_map_dma_buf, Grant, allocVars
  <2>3. CASE VmapFails(t) \/ Vunmap(t) \/ UnmapAttachment(t)
    BY <2>3 DEF VmapFails, Vunmap, UnmapAttachment, ImporterVmapFails, ImporterVunmap,
      ImporterUnmap, Step, Goto, ion_vunmap, ion_unmap_dma_buf, Revoke, Zap, allocVars
  <2> QED
    BY <1>3, <2>1, <2>2, <2>3 DEF ImporterStep
<1> QED
  BY <1>1, <1>2, <1>3 DEF KernelStep

(* The exit of the process leaves all threads alone. *)
LEMMA ExitIdle ==
  ASSUME IInv, Exit \/ ReapStep \/ UNCHANGED vars, NEW u \in Threads
  PROVE  Idle(u)
<1> USE DEF IInv, TypeOK, Idle, Accessors
<1>1. CASE Exit \/ Rerun \/ UNCHANGED vars
  BY <1>1 DEF Exit, ExitBegin, Rerun, ExitDone, ionVars, vars, dmaBufVars
<1>2. CASE \E f \in Fds : ReapFd(f)
  BY <1>2 DEF ReapFd, CloseFd, ion_release
<1>3. ASSUME NEW v \in Vmas, ReapVma(v)
      PROVE  Idle(u)
  BY <1>3, HolderAssumption DEF ReapVma, UnmapVma, ion_release, Zap
<1> QED
  BY <1>1, <1>2, <1>3 DEF ReapStep

(* What can become of the position and the buffer of the thread that moves. *)
LEMMA ThreadMoves ==
  ASSUME IInv, NEW t \in Threads, UserStep(t) \/ KernelStep(t)
  PROVE  \/ Idle(t)
         \/ \E n \in 1..MaxPages : IonIoctl(t, n)
         \/ \E p \in Pages : AllocPage(t, p)
         \/ DmaBufExport(t)
         \/ /\ pc'[t] \in ImporterStates \cup {"oops"}
            /\ \E f \in Fds : buf'[t] = fdt[f] /\ fdt[f] # None
         \/ /\ pc[t] \in ImporterStates
            /\ pc'[t] \in ImporterStates \cup {"oops"}
            /\ buf'[t] = buf[t]
         \/ /\ pc'[t] \in {"user", "alloc_failed", "copy_to_user", "ioctl_ok", "oops"}
            /\ buf'[t] = None
<1> USE DEF IInv, TypeOK, Control
<1>1. CASE UserStep(t)
  <2>1. CASE IonIoctlFails(t)
    BY <2>1 DEF IonIoctlFails, InUser
  <2>2. ASSUME NEW f \in Fds, Import(t, f) \/ SyncKilled(t, f)
        PROVE  /\ pc'[t] \in ImporterStates \cup {"oops"}
               /\ buf'[t] = fdt[f] /\ fdt[f] # None
    BY <2>2 DEF Import, ImporterIoctl, SyncKilled, ImporterStates
  <2>3. ASSUME NEW f \in Fds, Close(t, f)
        PROVE  Idle(t)
    BY <2>3 DEF Close, CloseFd, ion_release, Idle
  <2>4. ASSUME NEW f \in Fds, NEW v \in Vmas, Mmap(t, f, v)
        PROVE  Idle(t)
    BY <2>4, HolderAssumption DEF Mmap, MapVma, ion_mmap, Grant, allocVars, Idle, Accessors
  <2>5. ASSUME NEW v \in Vmas, Munmap(t, v)
        PROVE  Idle(t)
    BY <2>5, HolderAssumption DEF Munmap, UnmapVma, ion_release, Zap, Idle, Accessors
  <2> QED
    BY <1>1, <2>1, <2>2, <2>3, <2>4, <2>5 DEF UserStep
<1>2. CASE IonStep(t)
  <2>1. CASE IonAllocErr(t) \/ ErrPtrDereferenced(t) \/ DmaBufFdFails(t)
    BY <2>1 DEF IonAllocErr, ErrPtrDereferenced, DmaBufFdFails, Goto
  <2>2. CASE CopyToUser(t) \/ IonIoctlReturns(t)
    BY <2>2 DEF CopyToUser, IonIoctlReturns, Goto
  <2>3. CASE \E f \in Fds : DmaBufFd(t, f)
    BY <2>3 DEF DmaBufFd, Goto
  <2> QED
    BY <1>2, <2>1, <2>2, <2>3 DEF IonStep, AllocPageFails, DmaBufExportFails
<1>3. CASE ImporterStep(t)
  <2>1. CASE Put(t)
    BY <2>1 DEF Put, ImporterPut, Goto
  <2>2. CASE ~Put(t)
    BY <1>3, <2>2 DEF ImporterStep, Kmap, Vmap, VmapFails, Vunmap, Attach, AttachFails,
      MapAttachment, UnmapAttachment, Detach, ImporterKmap, ImporterVmap, ImporterVmapFails,
      ImporterVunmap, ImporterAttach, ImporterAttachFails, ImporterMap, ImporterUnmap,
      ImporterDetach, Step, Goto, ImporterStates
  <2> QED
    BY <2>1, <2>2
<1> QED
  BY <1>1, <1>2, <1>3 DEF KernelStep

(* The threads that do not move keep their part of an invariant. *)
LEMMA OneMoves ==
  ASSUME IInv, [Next]_vars
  PROVE  \/ \A u \in Threads : Idle(u)
         \/ \E t \in Threads :
              (UserStep(t) \/ KernelStep(t)) /\ \A u \in Threads : u # t => Idle(u)
<1>1. ASSUME NEW t \in Threads, UserStep(t) \/ KernelStep(t)
      PROVE  \A u \in Threads : u # t => Idle(u)
  BY <1>1, OthersIdle
<1>2. ASSUME Exit \/ ReapStep \/ UNCHANGED vars
      PROVE  \A u \in Threads : Idle(u)
  BY <1>2, ExitIdle
<1> QED
  BY <1>1, <1>2 DEF Next

(* Every step keeps a thread's position and its buffer consistent.         *)
LEMMA ControlStep ==
  ASSUME IInv, [Next]_vars
  PROVE  Control'
<1> DEFINE Ctl(u) ==
      /\ pc[u] \in ImporterStates \cup {"ion_alloc", "dma_buf_fd"} => buf[u] \in Buffers
      /\ pc[u] \in {"user", "alloc_failed", "copy_to_user", "ioctl_ok"} => buf[u] = None
<1>1. \A u \in Threads : Ctl(u)
  BY DEF IInv, Control
<1>2. ASSUME NEW u \in Threads, Idle(u)
      PROVE  Ctl(u)'
  BY <1>1, <1>2 DEF Idle
<1>3. ASSUME NEW t \in Threads, UserStep(t) \/ KernelStep(t)
      PROVE  Ctl(t)'
  <2>1. ASSUME NEW n \in 1..MaxPages, IonIoctl(t, n)
        PROVE  Ctl(t)'
    BY <2>1 DEF IonIoctl, IInv, TypeOK, ImporterStates
  <2>2. ASSUME NEW p \in Pages, AllocPage(t, p)
        PROVE  Ctl(t)'
    BY <1>1, <2>2 DEF AllocPage, dmaBufVars
  <2>3. CASE DmaBufExport(t)
    BY <1>1, <2>3 DEF DmaBufExport, Goto, IInv, TypeOK, ImporterStates
  <2>4. CASE /\ pc'[t] \in ImporterStates \cup {"oops"}
             /\ \E f \in Fds : buf'[t] = fdt[f] /\ fdt[f] # None
    BY <2>4 DEF IInv, TypeOK, ImporterStates
  <2>5. CASE /\ pc[t] \in ImporterStates
             /\ pc'[t] \in ImporterStates \cup {"oops"}
             /\ buf'[t] = buf[t]
    BY <1>1, <2>5 DEF ImporterStates
  <2>6. CASE /\ pc'[t] \in {"user", "alloc_failed", "copy_to_user", "ioctl_ok", "oops"}
             /\ buf'[t] = None
    BY <2>6 DEF ImporterStates
  <2> QED
    BY <1>2, <1>3, <2>1, <2>2, <2>3, <2>4, <2>5, <2>6, ThreadMoves
<1>4. \A u \in Threads : Ctl(u)'
  BY <1>2, <1>3, OneMoves
<1> QED
  BY <1>4 DEF Control

(* Where a buffer that a thread works on after a step comes from. *)
LEMMA BufferSource ==
  ASSUME IInv, [Next]_vars, NEW u \in Threads, buf'[u] # None
  PROVE  \/ buf'[u] = buf[u]
         \/ \E f \in Fds : fdt[f] = buf'[u]
         \/ buf'[u] \in Buffers /\ Unused(buf'[u]) /\ \E n \in 1..MaxPages : IonIoctl(u, n)
<1>1. CASE Idle(u)
  BY <1>1 DEF Idle
<1>2. CASE UserStep(u) \/ KernelStep(u)
  <2>1. ASSUME NEW n \in 1..MaxPages, IonIoctl(u, n)
        PROVE  buf'[u] \in Buffers /\ Unused(buf'[u])
    BY <2>1 DEF IonIoctl, IInv, TypeOK
  <2> QED
    BY <1>2, <2>1, ThreadMoves DEF Idle, AllocPage, DmaBufExport, dmaBufVars
<1> QED
  BY <1>1, <1>2, OneMoves

(* A thread that fills an ion_data after a step entered or continued it. *)
LEMMA FillingSource ==
  ASSUME IInv, [Next]_vars, NEW u \in Threads, pc'[u] = "ion_alloc"
  PROVE  \/ \E n \in 1..MaxPages : IonIoctl(u, n)
         \/ pc[u] = "ion_alloc" /\ buf'[u] = buf[u] /\ want'[u] = want[u]
<1>1. CASE Idle(u)
  BY <1>1 DEF Idle
<1>2. CASE UserStep(u) \/ KernelStep(u)
  BY <1>2, ThreadMoves DEF Idle, AllocPage, DmaBufExport, Goto, dmaBufVars,
      ImporterStates, IInv, TypeOK
<1> QED
  BY <1>1, <1>2, OneMoves

(* A thread is in front of dma_buf_fd only by having exported the buffer.  *)
LEMMA FreshSource ==
  ASSUME IInv, [Next]_vars, NEW u \in Threads, pc'[u] = "dma_buf_fd"
  PROVE  \/ DmaBufExport(u)
         \/ pc[u] = "dma_buf_fd" /\ buf'[u] = buf[u]
<1>1. CASE Idle(u)
  BY <1>1 DEF Idle
<1>2. CASE UserStep(u) \/ KernelStep(u)
  BY <1>2, ThreadMoves DEF Idle, IonIoctl, AllocPage, dmaBufVars, ImporterStates, IInv, TypeOK
<1> QED
  BY <1>1, <1>2, OneMoves

(* A buffer that is being filled is out of reach of the other threads. *)
LEMMA FillingStep ==
  ASSUME IInv, [Next]_vars, Effect
  PROVE  Filling'
<1> SUFFICES ASSUME NEW u \in Threads, pc'[u] = "ion_alloc"
             PROVE  /\ fcount'[buf'[u]] = 0
                    /\ Len(pages'[buf'[u]]) <= want'[u] /\ want'[u] > 0
                    /\ \A v \in Threads : buf'[v] = buf'[u] => v = u
  BY DEF Filling
<1>1. ASSUME NEW n \in 1..MaxPages, IonIoctl(u, n)
      PROVE  /\ fcount'[buf'[u]] = 0
             /\ Len(pages'[buf'[u]]) <= want'[u] /\ want'[u] > 0
             /\ \A v \in Threads : buf'[v] = buf'[u] => v = u
  <2>1. PICK b \in Buffers : Unused(b) /\ buf' = [buf EXCEPT ![u] = b]
    BY <1>1 DEF IonIoctl
  <2>2. buf'[u] = b /\ want'[u] = n /\ n > 0 /\ UNCHANGED <<fcount, pages>>
    BY <1>1, <2>1, IonAssumption DEF IonIoctl, IInv, TypeOK
  <2>3. pages[b] = <<>> /\ fcount[b] = 0
    BY <2>1 DEF Unused, IInv, ArraysMatch
  <2>4. \A v \in Threads : buf'[v] = b => v = u
    BY <2>1 DEF Unused, IInv, TypeOK
  <2> QED
    BY <2>2, <2>3, <2>4, IonAssumption
<1>2. ASSUME pc[u] = "ion_alloc", buf'[u] = buf[u], want'[u] = want[u]
      PROVE  /\ fcount'[buf'[u]] = 0
             /\ Len(pages'[buf'[u]]) <= want'[u] /\ want'[u] > 0
             /\ \A v \in Threads : buf'[v] = buf'[u] => v = u
  <2> DEFINE b == buf[u]
  <2>1. /\ b \in Buffers /\ fcount[b] = 0
        /\ Len(pages[b]) <= want[u] /\ want[u] > 0
        /\ \A v \in Threads : buf[v] = b => v = u
    BY <1>2 DEF IInv, Control, Filling
  <2>2. Holders(b) = {}
    BY <2>1, CountedIffHeld DEF IInv
  <2>3. \A f \in Fds : fdt[f] # b
    BY <2>2 DEF Holders
  <2>4. \A v \in Threads : buf'[v] = b => v = u
    BY <1>2, <2>1, <2>3, BufferSource, NoneAssumption DEF Unused
  <2>5. ~DmaBufExport(u)
    BY <1>2, pc'[u] = "ion_alloc" DEF DmaBufExport, Goto, IInv, TypeOK
  <2>6. fcount'[b] = 0 /\ (pages'[b] = pages[b] \/ \E p \in Pages : AllocPage(u, p))
    <3>1. CASE Quiet
      BY <2>1, <3>1 DEF Quiet, HoldersSame, pageVars
    <3>2. ASSUME NEW t \in Threads, Filled(t)
          PROVE  fcount'[b] = 0 /\ (pages'[b] = pages[b] \/ \E p \in Pages : AllocPage(u, p))
      BY <2>1, <3>2 DEF Filled, HoldersSame, AllocPage, IInv, TypeOK
    <3>3. ASSUME NEW t \in Threads, Unwound(t)
          PROVE  fcount'[b] = 0 /\ pages'[b] = pages[b]
      <4>1. t # u
        BY <3>3, pc'[u] = "ion_alloc" DEF Unwound, IonAllocErr, Goto, IInv, TypeOK
      <4> QED
        BY <2>1, <3>3, <4>1 DEF Unwound, HoldersSame, IonAllocErr, IInv, TypeOK
    <3>4. ASSUME NEW c \in Buffers, NEW t \in Threads, Exported(c, t)
          PROVE  fcount'[b] = 0 /\ pages'[b] = pages[b]
      <4>1. c # b
        BY <2>1, <2>5, <3>4 DEF Exported
      <4> QED
        BY <2>1, <3>4, <4>1 DEF Exported, HolderAdded, DmaBufExport, IInv, TypeOK
    <3>5. ASSUME NEW c \in Buffers, NEW h, Acquired(c, h)
          PROVE  fcount'[b] = 0 /\ pages'[b] = pages[b]
      BY <2>1, <2>3, <3>5 DEF Acquired, HolderAdded, pageVars, IInv, TypeOK
    <3>6. ASSUME NEW c \in Buffers, NEW h, Released(c, h)
          PROVE  fcount'[b] = 0 /\ pages'[b] = pages[b]
      BY <2>1, <2>2, <3>6 DEF Released, HolderDropped, ion_release, IInv, TypeOK
    <3>7. ASSUME NEW c \in Buffers, NEW g, NEW h, Passed(c, g, h)
          PROVE  fcount'[b] = 0 /\ pages'[b] = pages[b]
      BY <2>1, <3>7 DEF Passed, HolderMoved, pageVars
    <3> QED
      BY <3>1, <3>2, <3>3, <3>4, <3>5, <3>6, <3>7 DEF Effect
  <2>7. Len(pages'[b]) <= want[u]
    <3>1. ASSUME NEW p \in Pages, AllocPage(u, p)
          PROVE  Len(pages'[b]) <= want[u]
      BY <2>1, <3>1 DEF AllocPage, IInv, TypeOK
    <3> QED
      BY <2>1, <2>6, <3>1
  <2> QED
    BY <1>2, <2>1, <2>4, <2>6, <2>7
<1> QED
  BY <1>1, <1>2, FillingSource

(* Nobody but the allocating thread comes to hold a new dma_buf. *)
LEMMA FreshStep ==
  ASSUME IInv, [Next]_vars, Effect
  PROVE  FreshPrivate'
<1> SUFFICES ASSUME NEW u \in Threads, pc'[u] = "dma_buf_fd", NEW b, b = buf'[u]
             PROVE  Holders(b)' = {u}
  BY DEF FreshPrivate
<1>1. ASSUME DmaBufExport(u)
      PROVE  Holders(b)' = {u}
  <2>1. b = buf[u] /\ fcount[b] = 0
    BY <1>1 DEF DmaBufExport, Goto, IInv, Filling
  <2>2. b \in Buffers /\ HolderAdded(b, u)
    BY <1>1, <2>1, ExportHolders
  <2>3. Holders(b) = {}
    BY <2>1, <2>2, CountedIffHeld DEF IInv
  <2> QED
    BY <2>2, <2>3 DEF HolderAdded
<1>2. ASSUME pc[u] = "dma_buf_fd", b = buf[u]
      PROVE  Holders(b)' = {u}
  <2>1. b \in Buffers /\ Holders(b) = {u}
    BY <1>2 DEF IInv, Control, FreshPrivate
  <2>2. \A f \in Fds : fdt[f] # b
    BY <2>1, HolderAssumption DEF Holders
  <2>3. CASE HoldersSame
    BY <2>1, <2>3 DEF HoldersSame
  <2>4. ASSUME NEW c \in Buffers, NEW t \in Threads, Exported(c, t)
        PROVE  Holders(b)' = {u}
    <3>1. c # b
      BY <2>1, <1>2, <2>4, CountedIffHeld DEF Exported, DmaBufExport, Goto, IInv, Filling
    <3> QED
      BY <2>1, <2>4, <3>1 DEF Exported, HolderAdded, OthersSame
  <2>5. ASSUME NEW c \in Buffers, NEW h, Acquired(c, h)
        PROVE  Holders(b)' = {u}
    BY <2>1, <2>2, <2>5 DEF Acquired, HolderAdded, OthersSame
  <2>6. ASSUME NEW c \in Buffers, NEW h, Released(c, h)
        PROVE  Holders(b)' = {u}
    BY <1>2, <2>1, <2>6 DEF Released, HolderDropped, OthersSame
  <2>7. ASSUME NEW c \in Buffers, NEW g, NEW h, Passed(c, g, h)
        PROVE  Holders(b)' = {u}
    BY <2>1, <2>7, pc'[u] = "dma_buf_fd" DEF Passed, HolderMoved, OthersSame
  <2> QED
    BY <2>3, <2>4, <2>5, <2>6, <2>7 DEF Effect, Quiet, Filled, Unwound
<1> QED
  BY <1>1, <1>2, FreshSource

-----------------------------------------------------------------------------
(* The page arrays and what is reached through them.                       *)

(* A thread stops filling an ion_data only by giving up or by exporting it. *)
LEMMA FillingEnds ==
  ASSUME IInv, [Next]_vars, NEW u \in Threads, pc[u] = "ion_alloc"
  PROVE  \/ pc'[u] = "ion_alloc" /\ buf'[u] = buf[u]
         \/ IonAllocErr(u)
         \/ DmaBufExport(u)
<1>1. CASE Idle(u)
  BY <1>1 DEF Idle
<1>2. CASE UserStep(u)
  <2>1. \/ InUser(u)
        \/ Idle(u)
    <3>1. ASSUME NEW f \in Fds, Import(u, f) \/ SyncKilled(u, f) \/ Close(u, f)
          PROVE  InUser(u)
      BY <3>1 DEF Import, ImporterIoctl, SyncKilled, Close
    <3>2. ASSUME NEW v \in Vmas, Munmap(u, v) \/ \E f \in Fds : Mmap(u, f, v)
          PROVE  InUser(u)
      BY <3>2 DEF Munmap, Mmap
    <3>3. ASSUME IonIoctlFails(u) \/ \E n \in 1..MaxPages : IonIoctl(u, n)
          PROVE  InUser(u)
      BY <3>3 DEF IonIoctl, IonIoctlFails
    <3> QED
      BY <1>2, <3>1, <3>2, <3>3 DEF UserStep
  <2> QED
    BY <1>1, <2>1 DEF InUser
<1>3. CASE IonStep(u)
  BY <1>3 DEF IonStep, AllocPage, AllocPageFails, DmaBufExportFails, ErrPtrDereferenced, DmaBufFd,
    DmaBufFdFails, CopyToUser, IonIoctlReturns, Goto, dmaBufVars
<1>4. CASE ImporterStep(u)
  BY <1>4 DEF ImporterStep, Kmap, Vmap, VmapFails, Vunmap, Attach, AttachFails, MapAttachment,
    UnmapAttachment, Detach, Put, ImporterKmap, ImporterVmap, ImporterVmapFails, ImporterVunmap,
    ImporterAttach, ImporterAttachFails, ImporterMap, ImporterUnmap, ImporterDetach, ImporterPut,
    Step, Goto
<1> QED
  BY <1>1, <1>2, <1>3, <1>4, OneMoves DEF KernelStep

(* Every step keeps data->npages equal to the length of the page array.    *)
LEMMA ArraysStep ==
  ASSUME IInv, [Next]_vars, Effect
  PROVE  ArraysMatch'
<1> USE DEF IInv, TypeOK
<1> SUFFICES ASSUME NEW b \in Buffers
             PROVE  /\ fcount'[b] > 0 => npages'[b] = Len(pages'[b]) /\ npages'[b] > 0
                    /\ fcount'[b] = 0 => npages'[b] = 0
                    /\ (fcount'[b] = 0 /\ \A t \in Threads : pc'[t] = "ion_alloc" => buf'[t] # b)
                         => pages'[b] = <<>>
  BY DEF ArraysMatch
<1> DEFINE Goal ==
      /\ fcount'[b] > 0 => npages'[b] = Len(pages'[b]) /\ npages'[b] > 0
      /\ fcount'[b] = 0 => npages'[b] = 0
      /\ (fcount'[b] = 0 /\ \A t \in Threads : pc'[t] = "ion_alloc" => buf'[t] # b)
           => pages'[b] = <<>>
<1>1. /\ fcount[b] > 0 => npages[b] = Len(pages[b]) /\ npages[b] > 0
      /\ fcount[b] = 0 => npages[b] = 0
      /\ (fcount[b] = 0 /\ \A t \in Threads : pc[t] = "ion_alloc" => buf[t] # b)
           => pages[b] = <<>>
  BY DEF ArraysMatch
<1>2. ASSUME NEW u \in Threads, pc[u] = "ion_alloc", buf[u] = b,
             fcount'[b] = 0, \A t \in Threads : pc'[t] = "ion_alloc" => buf'[t] # b
      PROVE  pages'[b] = <<>>
  <2>1. IonAllocErr(u) \/ DmaBufExport(u)
    BY <1>2, FillingEnds
  <2>2. ~DmaBufExport(u)
    BY <1>2 DEF DmaBufExport
  <2> QED
    BY <1>2, <2>1, <2>2 DEF IonAllocErr
<1>3. ASSUME fcount'[b] = fcount[b], npages'[b] = npages[b], pages'[b] = pages[b]
      PROVE  Goal
  BY <1>1, <1>2, <1>3
<1>4. CASE Quiet
  BY <1>3, <1>4 DEF Quiet, HoldersSame, pageVars
<1>5. ASSUME NEW t \in Threads, Filled(t)
      PROVE  Goal
  <2>1. CASE buf[t] = b
    BY <1>1, <1>5, <2>1 DEF Filled, HoldersSame, AllocPage, Filling, dmaBufVars
  <2>2. CASE buf[t] # b
    BY <1>3, <1>5, <2>2 DEF Filled, HoldersSame, AllocPage, Control
  <2> QED
    BY <2>1, <2>2
<1>6. ASSUME NEW t \in Threads, Unwound(t)
      PROVE  Goal
  <2>1. CASE buf[t] = b
    BY <1>6, <2>1 DEF Unwound, HoldersSame, IonAllocErr, Goto, Filling
  <2>2. CASE buf[t] # b
    BY <1>3, <1>6, <2>2 DEF Unwound, HoldersSame, IonAllocErr, Goto, Control
  <2> QED
    BY <2>1, <2>2
<1>7. ASSUME NEW c \in Buffers, NEW t \in Threads, Exported(c, t)
      PROVE  Goal
  <2>1. CASE c = b
    BY <1>7, <2>1 DEF Exported, DmaBufExport, Goto, Filling
  <2>2. CASE c # b
    BY <1>3, <1>7, <2>2 DEF Exported, DmaBufExport
  <2> QED
    BY <2>1, <2>2
<1>8. ASSUME NEW c \in Buffers, NEW h, Acquired(c, h)
      PROVE  Goal
  <2>1. CASE c = b
    <3>1. fcount[b] > 0
      <4>1. Holders(b) # {}
        BY <1>8, <2>1 DEF Acquired, Holders
      <4> QED
        BY <4>1, CountedIffHeld
    <3> QED
      BY <1>1, <1>8, <2>1, <3>1 DEF Acquired, HolderAdded, pageVars
  <2>2. CASE c # b
    BY <1>3, <1>8, <2>2 DEF Acquired, HolderAdded, pageVars
  <2> QED
    BY <2>1, <2>2
<1>9. ASSUME NEW c \in Buffers, NEW h, Released(c, h)
      PROVE  Goal
  <2>1. CASE c # b
    BY <1>3, <1>9, <2>1 DEF Released, HolderDropped, ion_release
  <2>2. CASE c = b /\ Holders(b) = {h}
    <3>1. fcount[b] = 1
      BY <1>9, <2>2, CountedIffHeld DEF Released, HolderDropped
    <3>2. fcount'[b] = 0 /\ pages'[b] = <<>> /\ npages'[b] = 0
      BY <1>9, <2>2, <3>1 DEF Released, HolderDropped, ion_release
    <3> QED
      BY <3>2
  <2>3. CASE c = b /\ Holders(b) # {h}
    <3>1. fcount[b] > 1 /\ UNCHANGED pageVars
      BY <1>9, <2>3, ReleasePages
    <3>2. fcount'[b] = fcount[b] - 1
      BY <1>9, <2>3 DEF Released, HolderDropped
    <3> QED
      BY <1>1, <3>1, <3>2 DEF pageVars
  <2> QED
    BY <2>1, <2>2, <2>3
<1>10. ASSUME NEW c \in Buffers, NEW g, NEW h, Passed(c, g, h)
       PROVE  Goal
  BY <1>3, <1>10 DEF Passed, HolderMoved, pageVars
<1> QED
  BY <1>4, <1>5, <1>6, <1>7, <1>8, <1>9, <1>10 DEF Effect

(* Who holds a buffer before and after a step finds all its pages there. *)
LEMMA HeldKept ==
  ASSUME IInv, Effect, NEW b \in Buffers, NEW x, x \in Holders(b), x \in Holders(b)'
  PROVE  fcount'[b] > 0 /\ Held(b) \subseteq Held(b)'
<1> USE DEF IInv, TypeOK
<1>1. fcount[b] > 0
  BY CountedIffHeld
<1>2. pages' = pages => Held(b)' = Held(b)
  BY DEF Held, First
<1>3. CASE Quiet
  BY <1>1, <1>2, <1>3 DEF Quiet, HoldersSame, pageVars
<1>4. ASSUME NEW t \in Threads, Filled(t) \/ Unwound(t)
      PROVE  fcount'[b] > 0 /\ Held(b) \subseteq Held(b)'
  <2>1. pc[t] = "ion_alloc" /\ buf[t] \in Buffers /\ buf[t] # b
    BY <1>1, <1>4 DEF Filled, AllocPage, Unwound, IonAllocErr, Goto, Filling, Control
  <2>2. fcount'[b] = fcount[b] /\ pages'[b] = pages[b]
    BY <1>4, <2>1 DEF Filled, AllocPage, Unwound, IonAllocErr, HoldersSame
  <2> QED
    BY <1>1, <2>2 DEF Held, First
<1>5. ASSUME NEW c \in Buffers, NEW t \in Threads, Exported(c, t)
      PROVE  fcount'[b] > 0 /\ Held(b) \subseteq Held(b)'
  BY <1>1, <1>2, <1>5 DEF Exported, HolderAdded, DmaBufExport
<1>6. ASSUME NEW c \in Buffers, NEW h, Acquired(c, h)
      PROVE  fcount'[b] > 0 /\ Held(b) \subseteq Held(b)'
  BY <1>1, <1>2, <1>6 DEF Acquired, HolderAdded, pageVars
<1>7. ASSUME NEW c \in Buffers, NEW h, Released(c, h)
      PROVE  fcount'[b] > 0 /\ Held(b) \subseteq Held(b)'
  <2>1. CASE c = b
    <3>1. Holders(b) # {h}
      BY <1>7, <2>1 DEF Released, HolderDropped
    <3>2. fcount[b] > 1 /\ UNCHANGED pageVars
      BY <1>7, <2>1, <3>1, ReleasePages
    <3> QED
      BY <1>2, <1>7, <2>1, <3>2 DEF Released, HolderDropped, pageVars
  <2>2. CASE c # b
    <3>1. fcount'[b] = fcount[b] /\ pages'[b] = pages[b]
      BY <1>7, <2>2 DEF Released, HolderDropped, ion_release
    <3> QED
      BY <1>1, <3>1 DEF Held, First
  <2> QED
    BY <2>1, <2>2
<1>8. ASSUME NEW c \in Buffers, NEW g, NEW h, Passed(c, g, h)
      PROVE  fcount'[b] > 0 /\ Held(b) \subseteq Held(b)'
  BY <1>1, <1>2, <1>8 DEF Passed, HolderMoved, pageVars
<1> QED
  BY <1>3, <1>4, <1>5, <1>6, <1>7, <1>8 DEF Effect

(* A thread with access to a buffer holds it. *)
LEMMA ImporterHolds ==
  ASSUME IInv, NEW t \in Threads, pc[t] \in ImporterStates
  PROVE  /\ buf[t] \in Buffers /\ t \in Holders(buf[t])
         /\ npages[buf[t]] = Len(pages[buf[t]]) /\ npages[buf[t]] > 0
<1>1. buf[t] \in Buffers /\ t \in Holders(buf[t])
  BY DEF IInv, Control, Holders, RefStates
<1>2. fcount[buf[t]] > 0
  BY <1>1, CountedIffHeld DEF IInv
<1> QED
  BY <1>1, <1>2 DEF IInv, ArraysMatch

(* The access of the thread that moves. *)
LEMMA MoverAccess ==
  ASSUME IInv, NEW t \in Threads, UserStep(t) \/ KernelStep(t)
  PROVE  \/ pc'[t] \notin Importing /\ access'[t] = {}
         \/ /\ pc[t] \in ImporterStates /\ pc'[t] \in Importing
            /\ buf'[t] = buf[t] /\ pages' = pages
            /\ access'[t] \subseteq Held(buf[t])
<1> USE DEF IInv, TypeOK, Accessors
<1>1. pc[t] \notin Importing => access[t] = {}
  BY DEF AccessInv
<1>2. CASE UserStep(t)
  <2>1. ASSUME NEW n \in 1..MaxPages, IonIoctl(t, n)
        PROVE  pc'[t] \notin Importing /\ access'[t] = {}
    BY <1>1, <2>1 DEF IonIoctl, InUser, Importing
  <2>2. CASE IonIoctlFails(t)
    BY <1>1, <2>2 DEF IonIoctlFails, InUser, Importing, ionVars
  <2>3. ASSUME NEW f \in Fds, Import(t, f) \/ SyncKilled(t, f) \/ Close(t, f)
        PROVE  pc'[t] \notin Importing /\ access'[t] = {}
    BY <1>1, <2>3 DEF Import, ImporterIoctl, SyncKilled, Close, CloseFd, InUser, Importing,
      ion_release, ionVars
  <2>4. ASSUME NEW v \in Vmas, Munmap(t, v)
        PROVE  pc'[t] \notin Importing /\ access'[t] = {}
    BY <1>1, <2>4, HolderAssumption DEF Munmap, UnmapVma, Zap, InUser, Importing
  <2>5. ASSUME NEW v \in Vmas, NEW f \in Fds, Mmap(t, f, v)
        PROVE  pc'[t] \notin Importing /\ access'[t] = {}
    BY <1>1, <2>5, HolderAssumption DEF Mmap, MapVma, ion_mmap, Grant, InUser, Importing
  <2> QED
    BY <1>2, <2>1, <2>2, <2>3, <2>4, <2>5 DEF UserStep
<1>3. CASE IonStep(t)
  <2>1. CASE (\E p \in Pages : AllocPage(t, p)) \/ IonAllocErr(t) \/ DmaBufExport(t)
    BY <1>1, <2>1 DEF AllocPage, IonAllocErr, DmaBufExport, Goto, Importing, dmaBufVars
  <2>2. CASE ErrPtrDereferenced(t) \/ (\E f \in Fds : DmaBufFd(t, f)) \/ DmaBufFdFails(t)
    BY <1>1, <2>2 DEF ErrPtrDereferenced, DmaBufFd, DmaBufFdFails, Goto, Importing, ionVars
  <2>3. CASE CopyToUser(t) \/ IonIoctlReturns(t)
    BY <1>1, <2>3 DEF CopyToUser, IonIoctlReturns, Goto, Importing, ionVars
  <2> QED
    BY <1>3, <2>1, <2>2, <2>3 DEF IonStep, AllocPageFails, DmaBufExportFails
<1>4. CASE ImporterStep(t)
  <2>1. CASE Put(t) \/ Attach(t) \/ Detach(t) \/ AttachFails(t)
    BY <1>1, <2>1 DEF Put, ImporterPut, Attach, ImporterAttach, Detach, ImporterDetach, AttachFails,
      ImporterAttachFails, Step, Goto, Importing, ion_release, ionVars
  <2>2. CASE VmapFails(t) \/ Vunmap(t) \/ UnmapAttachment(t)
    BY <2>2 DEF VmapFails, Vunmap, UnmapAttachment, ImporterVmapFails, ImporterVunmap,
      ImporterUnmap, Step, Goto, ion_vunmap, ion_unmap_dma_buf, Revoke, Zap, Importing
  <2>3. CASE Kmap(t) \/ Vmap(t) \/ MapAttachment(t)
    <3>1. /\ pc[t] \in ImporterStates /\ pc'[t] \in Importing
          /\ buf'[t] = buf[t]
      BY <2>3 DEF Kmap, Vmap, MapAttachment, ImporterKmap, ImporterVmap, ImporterMap, Step, Goto,
        ImporterStates, Importing
    <3>2. /\ pages' = pages
          /\ \/ access'[t] = First(buf[t], 1)
             \/ access'[t] = First(buf[t], npages[buf[t]])
      BY <2>3 DEF Kmap, Vmap, MapAttachment, ion_kmap, ion_vmap, ion_map_dma_buf, Grant, allocVars
    <3>3. access'[t] \subseteq Held(buf[t])
      <4>1. /\ buf[t] \in Buffers /\ npages[buf[t]] \in Nat
            /\ npages[buf[t]] = Len(pages[buf[t]]) /\ npages[buf[t]] > 0
        BY <3>1, ImporterHolds
      <4> HIDE DEF IInv, TypeOK
      <4>2. First(buf[t], 1) \subseteq Held(buf[t])
        BY <4>1, FirstHeld
      <4>3. First(buf[t], npages[buf[t]]) \subseteq Held(buf[t])
        BY <4>1, FirstHeld
      <4> QED
        BY <3>2, <4>2, <4>3
    <3> QED
      BY <3>1, <3>2, <3>3
  <2> QED
    BY <1>4, <2>1, <2>2, <2>3 DEF ImporterStep
<1> QED
  BY <1>2, <1>3, <1>4 DEF KernelStep

(* The access through a mapping changes with mmap, munmap and exit only. *)
LEMMA VmaAccess ==
  ASSUME IInv, [Next]_vars, NEW v \in Vmas
  PROVE  \/ vma'[v] = vma[v] /\ access'[v] = access[v]
         \/ vma'[v] = None /\ access'[v] = {}
         \/ /\ vma'[v] \in Buffers /\ pages' = pages
            /\ access'[v] \subseteq Held(vma'[v])
<1> USE DEF IInv, TypeOK, Accessors
<1> DEFINE Same == vma'[v] = vma[v] /\ access'[v] = access[v]
<1>1. ASSUME NEW t \in Threads, UserStep(t)
      PROVE  \/ Same
             \/ vma'[v] = None /\ access'[v] = {}
             \/ /\ vma'[v] \in Buffers /\ pages' = pages
                /\ access'[v] \subseteq Held(vma'[v])
  <2>1. ASSUME NEW n \in 1..MaxPages, IonIoctl(t, n)
        PROVE  Same
    BY <2>1 DEF IonIoctl
  <2>2. CASE IonIoctlFails(t)
    BY <2>2 DEF IonIoctlFails, ionVars
  <2>3. ASSUME NEW f \in Fds, Import(t, f) \/ SyncKilled(t, f) \/ Close(t, f)
        PROVE  Same
    BY <2>3 DEF Import, ImporterIoctl, SyncKilled, Close, CloseFd, ion_release, ionVars
  <2>4. ASSUME NEW w \in Vmas, Munmap(t, w)
        PROVE  Same \/ (vma'[v] = None /\ access'[v] = {})
    BY <2>4 DEF Munmap, UnmapVma, Zap
  <2>5. ASSUME NEW f \in Fds, NEW w \in Vmas, Mmap(t, f, w)
        PROVE  \/ Same
               \/ /\ vma'[v] \in Buffers /\ pages' = pages
                  /\ access'[v] \subseteq Held(vma'[v])
    <3>1. CASE w # v
      BY <2>5, <3>1 DEF Mmap, MapVma, ion_mmap, Grant
    <3>2. CASE w = v
      <4>1. /\ vma'[v] = fdt[f] /\ fdt[f] \in Buffers /\ pages' = pages
            /\ access'[v] = First(fdt[f], npages[fdt[f]])
        BY <2>5, <3>2 DEF Mmap, MapVma, ion_mmap, Grant, allocVars
      <4>2. fcount[fdt[f]] > 0
        <5>1. f \in Holders(fdt[f])
          BY DEF Holders
        <5> QED
          BY <4>1, <5>1, CountedIffHeld
      <4>3. npages[fdt[f]] = Len(pages[fdt[f]])
        BY <4>1, <4>2 DEF ArraysMatch
      <4>4. First(fdt[f], npages[fdt[f]]) \subseteq Held(fdt[f])
        BY <4>3 DEF First, Held
      <4> QED
        BY <4>1, <4>4
    <3> QED
      BY <3>1, <3>2
  <2> QED
    BY <1>1, <2>1, <2>2, <2>3, <2>4, <2>5 DEF UserStep
<1>2. ASSUME NEW t \in Threads, IonStep(t)
      PROVE  Same
  BY <1>2 DEF IonStep, AllocPage, AllocPageFails, IonAllocErr, DmaBufExport, DmaBufExportFails,
    ErrPtrDereferenced, DmaBufFd, DmaBufFdFails, CopyToUser, IonIoctlReturns, dmaBufVars, ionVars
<1>3. ASSUME NEW t \in Threads, ImporterStep(t)
      PROVE  Same
  <2>1. CASE Put(t) \/ Attach(t) \/ Detach(t) \/ AttachFails(t)
    BY <2>1 DEF Put, ImporterPut, Attach, ImporterAttach, Detach, ImporterDetach, AttachFails,
      ImporterAttachFails, Step, ion_release, ionVars
  <2>2. CASE Kmap(t) \/ Vmap(t) \/ MapAttachment(t)
    BY <2>2, HolderAssumption DEF Kmap, Vmap, MapAttachment, ImporterKmap, ImporterVmap,
      ImporterMap, Step, ion_kmap, ion_vmap, ion_map_dma_buf, Grant, allocVars
  <2>3. CASE VmapFails(t) \/ Vunmap(t) \/ UnmapAttachment(t)
    BY <2>3, HolderAssumption DEF VmapFails, Vunmap, UnmapAttachment, ImporterVmapFails,
      ImporterVunmap, ImporterUnmap, Step, ion_vunmap, ion_unmap_dma_buf, Revoke, Zap, allocVars
  <2> QED
    BY <1>3, <2>1, <2>2, <2>3 DEF ImporterStep
<1>4. ASSUME Exit \/ Rerun \/ UNCHANGED vars
      PROVE  Same
  BY <1>4 DEF Exit, ExitBegin, Rerun, ExitDone, ionVars, vars, dmaBufVars
<1>5. ASSUME NEW f \in Fds, ReapFd(f)
      PROVE  Same
  BY <1>5 DEF ReapFd, CloseFd, ion_release
<1>6. ASSUME NEW w \in Vmas, ReapVma(w)
      PROVE  Same \/ (vma'[v] = None /\ access'[v] = {})
  BY <1>6 DEF ReapVma, UnmapVma, Zap
<1> QED
  BY <1>1, <1>2, <1>3, <1>4, <1>5, <1>6 DEF Next, KernelStep, ReapStep

(* Every step keeps accesses inside the buffers they were granted for.     *)
LEMMA AccessStep ==
  ASSUME IInv, [Next]_vars, Effect
  PROVE  AccessInv'
<1>1. ASSUME NEW u \in Threads
      PROVE  IF pc'[u] \in Importing THEN access'[u] \subseteq Held(buf[u])' ELSE access'[u] = {}
  <2>1. CASE Idle(u)
    <3>1. CASE pc[u] \in Importing
      <4>1. PICK b \in Buffers : b = buf[u]
        BY <3>1, ImporterHolds DEF Importing, ImporterStates
      <4>2. u \in Holders(b) /\ u \in Holders(b)'
        BY <2>1, <3>1, <4>1 DEF Idle, Holders, RefStates, ImporterStates, Importing
      <4>3. Held(b) \subseteq Held(b)'
        BY <4>2, HeldKept
      <4>4. access[u] \subseteq Held(b)
        BY <3>1, <4>1 DEF IInv, AccessInv
      <4>5. Held(b)' = Held(buf[u])'
        BY <2>1, <4>1 DEF Idle, Held, First
      <4>6. access'[u] \subseteq Held(buf[u])'
        BY <2>1, <4>3, <4>4, <4>5 DEF Idle
      <4> QED
        BY <2>1, <3>1, <4>6 DEF Idle
    <3>2. CASE pc[u] \notin Importing
      BY <2>1, <3>2 DEF Idle, IInv, AccessInv
    <3> QED
      BY <3>1, <3>2
  <2>2. CASE UserStep(u) \/ KernelStep(u)
    BY <2>2, MoverAccess DEF Held, First
  <2> QED
    BY <2>1, <2>2, OneMoves
<1>2. ASSUME NEW v \in Vmas
      PROVE  IF vma'[v] = None THEN access'[v] = {} ELSE access'[v] \subseteq Held(vma[v])'
  <2>1. CASE vma'[v] = vma[v] /\ access'[v] = access[v] /\ vma[v] # None
    <3>1. PICK b \in Buffers : b = vma[v]
      BY <2>1 DEF IInv, TypeOK
    <3>2. v \in Holders(b) /\ v \in Holders(b)'
      BY <2>1, <3>1 DEF Holders
    <3>3. Held(b) \subseteq Held(b)'
      BY <3>2, HeldKept
    <3>4. access[v] \subseteq Held(b)
      BY <2>1, <3>1 DEF IInv, AccessInv
    <3>5. Held(b)' = Held(vma[v])'
      BY <2>1, <3>1 DEF Held, First
    <3> QED
      BY <2>1, <3>3, <3>4, <3>5
  <2>2. CASE vma'[v] = None /\ access'[v] = {}
    BY <2>2
  <2>3. CASE vma'[v] = vma[v] /\ access'[v] = access[v] /\ vma[v] = None
    BY <2>3 DEF IInv, AccessInv
  <2>4. CASE vma'[v] \in Buffers /\ pages' = pages /\ access'[v] \subseteq Held(vma'[v])
    BY <2>4, NoneAssumption DEF Held, First
  <2> QED
    BY <2>1, <2>2, <2>3, <2>4, VmaAccess
<1> QED
  BY <1>1, <1>2 DEF AccessInv

-----------------------------------------------------------------------------
(* Attachments.                                                            *)

(* The list of attachments changes with attach and detach only. *)
LEMMA AttachmentMoves ==
  ASSUME IInv, [Next]_vars
  PROVE  \/ attachments' = attachments
         \/ \E t \in Threads : Attach(t) \/ Detach(t)
<1>1. ASSUME NEW t \in Threads, UserStep(t)
      PROVE  attachments' = attachments
  <2>1. ASSUME NEW f \in Fds, Import(t, f) \/ SyncKilled(t, f) \/ Close(t, f)
        PROVE  attachments' = attachments
    BY <2>1 DEF Import, ImporterIoctl, SyncKilled, Close, CloseFd
  <2>2. ASSUME NEW v \in Vmas, Munmap(t, v) \/ \E f \in Fds : Mmap(t, f, v)
        PROVE  attachments' = attachments
    BY <2>2 DEF Munmap, UnmapVma, Mmap, MapVma
  <2> QED
    BY <1>1, <2>1, <2>2 DEF UserStep, IonIoctl, IonIoctlFails
<1>2. ASSUME NEW t \in Threads, IonStep(t)
      PROVE  attachments' = attachments
  BY <1>2 DEF IonStep, AllocPage, AllocPageFails, IonAllocErr, DmaBufExport, DmaBufExportFails,
    ErrPtrDereferenced, DmaBufFd, DmaBufFdFails, CopyToUser, IonIoctlReturns, dmaBufVars
<1>3. ASSUME NEW t \in Threads, ImporterStep(t)
      PROVE  attachments' = attachments \/ Attach(t) \/ Detach(t)
  BY <1>3 DEF ImporterStep, Kmap, Vmap, VmapFails, Vunmap, AttachFails, MapAttachment,
    UnmapAttachment, Put, ImporterKmap, ImporterVmap, ImporterVmapFails, ImporterVunmap,
    ImporterAttachFails, ImporterMap, ImporterUnmap, ImporterPut, Step
<1>4. ASSUME Exit \/ ReapStep \/ UNCHANGED vars
      PROVE  attachments' = attachments
  BY <1>4 DEF Exit, ExitBegin, ReapStep, ReapVma, UnmapVma, ReapFd, CloseFd, Rerun, ExitDone,
    vars, dmaBufVars
<1> QED
  BY <1>1, <1>2, <1>3, <1>4 DEF Next, KernelStep

(* An attached thread goes on holding its buffer until it detaches. *)
LEMMA AttachedMoves ==
  ASSUME IInv, NEW t \in Threads, UserStep(t) \/ KernelStep(t),
         pc[t] \in {"attached", "mapped", "unmapped"}
  PROVE  \/ pc'[t] \in {"attached", "mapped", "unmapped"} /\ buf'[t] = buf[t]
         \/ Detach(t)
<1> USE DEF IInv, TypeOK
<1>1. ~UserStep(t)
  BY DEF UserStep, IonIoctl, IonIoctlFails, Import, ImporterIoctl, SyncKilled, Close, Mmap, Munmap,
    InUser
<1>2. ~IonStep(t)
  BY DEF IonStep, AllocPage, AllocPageFails, IonAllocErr, DmaBufExport, DmaBufExportFails,
    ErrPtrDereferenced, DmaBufFd, DmaBufFdFails, CopyToUser, IonIoctlReturns, Goto
<1>3. CASE ImporterStep(t)
  BY <1>3 DEF ImporterStep, Kmap, Vmap, VmapFails, Vunmap, Attach, AttachFails, MapAttachment,
    UnmapAttachment, Put, ImporterKmap, ImporterVmap, ImporterVmapFails, ImporterVunmap,
    ImporterAttach, ImporterAttachFails, ImporterMap, ImporterUnmap, ImporterPut, Step, Goto
<1> QED
  BY <1>1, <1>2, <1>3 DEF KernelStep

(* Every step keeps attachments to threads that work on a live buffer.     *)
LEMMA AttachmentsStep ==
  ASSUME IInv, [Next]_vars, Effect
  PROVE  AttachmentsOfUsers'
<1> USE DEF IInv, TypeOK
<1> SUFFICES ASSUME NEW b \in Buffers, NEW u \in attachments'[b]
             PROVE  /\ buf'[u] = b /\ fcount'[b] > 0
                    /\ pc'[u] \in {"attached", "mapped", "unmapped"}
  BY DEF AttachmentsOfUsers
<1>1. u \in Threads /\ \/ u \in attachments[b] /\ ~Detach(u)
                       \/ Attach(u) /\ b = buf[u]
  <2>1. CASE attachments' = attachments
    <3>1. u \in attachments[b]
      BY <2>1
    <3>2. ~Detach(u)
      BY <2>1, <3>1 DEF Detach, ImporterDetach, AttachmentsOfUsers
    <3> QED
      BY <3>1, <3>2
  <2>2. ASSUME NEW t \in Threads, Attach(t)
        PROVE  u \in Threads /\ \/ u \in attachments[b] /\ ~Detach(u)
                                \/ Attach(u) /\ b = buf[u]
    <3>1. buf[t] \in Buffers
      BY <2>2 DEF Attach, ImporterAttach, Goto, Control, ImporterStates
    <3>2. ~Detach(u)
      BY <2>2 DEF Attach, ImporterAttach, Detach, ImporterDetach, Goto
    <3> QED
      BY <2>2, <3>1, <3>2 DEF Attach, ImporterAttach
  <2>3. ASSUME NEW t \in Threads, Detach(t)
        PROVE  u \in attachments[b] /\ ~Detach(u)
    <3>1. buf[t] \in Buffers
      BY <2>3 DEF Detach, ImporterDetach, Goto, Control, ImporterStates
    <3>2. u \in attachments[b] /\ ~(u = t /\ b = buf[t])
      BY <2>3, <3>1 DEF Detach, ImporterDetach
    <3>3. u # t
      BY <3>2 DEF AttachmentsOfUsers
    <3>4. ~Detach(u)
      BY <2>3, <3>3 DEF Detach, ImporterDetach, Goto
    <3> QED
      BY <3>2, <3>4
  <2> QED
    BY <2>1, <2>2, <2>3, AttachmentMoves
<1>2. buf[u] = b /\ pc[u] \in {"test2", "attached", "mapped", "unmapped"}
  BY <1>1 DEF AttachmentsOfUsers, Attach, ImporterAttach, Goto
<1>3. buf'[u] = b /\ pc'[u] \in {"attached", "mapped", "unmapped"}
  <2>1. CASE Attach(u)
    BY <1>1, <1>2, <2>1 DEF Attach, ImporterAttach, Goto
  <2>2. CASE u \in attachments[b] /\ ~Detach(u)
    <3>1. pc[u] \in {"attached", "mapped", "unmapped"}
      BY <2>2 DEF AttachmentsOfUsers
    <3> QED
      BY <1>1, <1>2, <2>2, <3>1, AttachedMoves, OneMoves DEF Idle
  <2> QED
    BY <1>1, <2>1, <2>2
<1>4. u \in Holders(b) /\ u \in Holders(b)'
  BY <1>1, <1>2, <1>3 DEF Holders, RefStates, ImporterStates
<1> QED
  BY <1>3, <1>4, HeldKept

-----------------------------------------------------------------------------
(* The inductive invariant.                                                *)

(* Every step keeps the types of the counts and of the page arrays.        *)
LEMMA PageTypeStep ==
  ASSUME IInv, Effect
  PROVE  /\ fcount' \in [Buffers -> Nat]
         /\ free' \subseteq Pages
         /\ pages' \in [Buffers -> Seq(Pages)]
         /\ npages' \in [Buffers -> Nat]
<1> USE DEF IInv, TypeOK
<1> DEFINE Goal ==
      /\ fcount' \in [Buffers -> Nat]
      /\ free' \subseteq Pages
      /\ pages' \in [Buffers -> Seq(Pages)]
      /\ npages' \in [Buffers -> Nat]
<1>0. \A b \in Buffers, s \in Seq(Pages) :
        pages' = [pages EXCEPT ![b] = s] => pages' \in [Buffers -> Seq(Pages)]
  OBVIOUS
<1>1. CASE Quiet
  BY <1>1 DEF Quiet, HoldersSame, pageVars
<1>2. ASSUME NEW t \in Threads, Filled(t)
      PROVE  Goal
  <2>1. buf[t] \in Buffers /\ pc[t] = "ion_alloc"
    BY <1>2 DEF Filled, AllocPage, Control
  <2>2. PICK p \in Pages : AllocPage(t, p)
    BY <1>2 DEF Filled
  <2>3. Append(pages[buf[t]], p) \in Seq(Pages)
    BY <2>1, <2>2
  <2>4. pages' \in [Buffers -> Seq(Pages)]
    BY <1>0, <2>1, <2>2, <2>3 DEF AllocPage
  <2> QED
    BY <1>2, <2>2, <2>4 DEF Filled, HoldersSame, AllocPage
<1>3. ASSUME NEW t \in Threads, Unwound(t)
      PROVE  Goal
  <2>1. buf[t] \in Buffers
    BY <1>3 DEF Unwound, IonAllocErr, Goto, Control
  <2>2. First(buf[t], Len(pages[buf[t]])) \subseteq Pages
    BY <2>1 DEF First
  <2>3. pages' \in [Buffers -> Seq(Pages)]
    BY <1>0, <1>3, <2>1, <<>> \in Seq(Pages) DEF Unwound, IonAllocErr
  <2> QED
    BY <1>3, <2>2, <2>3 DEF Unwound, HoldersSame, IonAllocErr
<1>4. ASSUME NEW b \in Buffers, NEW t \in Threads, Exported(b, t)
      PROVE  Goal
  BY <1>4 DEF Exported, HolderAdded, DmaBufExport
<1>5. ASSUME NEW b \in Buffers, NEW h, Acquired(b, h)
      PROVE  Goal
  BY <1>5 DEF Acquired, HolderAdded, pageVars
<1>6. ASSUME NEW b \in Buffers, NEW h, Released(b, h)
      PROVE  Goal
  <2>1. fcount[b] > 0 /\ npages[b] = Len(pages[b])
    <3>1. fcount[b] > 0
      BY <1>6, CountedIffHeld DEF Released, HolderDropped
    <3> QED
      BY <3>1 DEF ArraysMatch
  <2>2. fcount' \in [Buffers -> Nat]
    BY <1>6, <2>1 DEF Released, HolderDropped
  <2>3. First(b, npages[b]) \subseteq Pages
    BY <2>1 DEF First
  <2>4. pages' \in [Buffers -> Seq(Pages)]
    BY <1>0, <1>6, <<>> \in Seq(Pages) DEF Released, ion_release
  <2> QED
    BY <1>6, <2>2, <2>3, <2>4 DEF Released, ion_release
<1>7. ASSUME NEW b \in Buffers, NEW g, NEW h, Passed(b, g, h)
      PROVE  Goal
  BY <1>7 DEF Passed, HolderMoved, pageVars
<1> QED
  BY <1>1, <1>2, <1>3, <1>4, <1>5, <1>6, <1>7 DEF Effect

(* A step updates access at one place at most. *)
LEMMA AccessUpdate ==
  ASSUME [Next]_vars
  PROVE  access' = access \/ \E x, S : access' = [access EXCEPT ![x] = S]
<1>1. ASSUME NEW t \in Threads, UserStep(t)
      PROVE  access' = access \/ \E x, S : access' = [access EXCEPT ![x] = S]
  BY <1>1 DEF UserStep, IonIoctl, IonIoctlFails, Import, SyncKilled, Close, Mmap, Munmap, ion_mmap,
    Grant, Zap, ionVars
<1>2. ASSUME NEW t \in Threads, IonStep(t)
      PROVE  access' = access
  BY <1>2 DEF IonStep, AllocPage, AllocPageFails, IonAllocErr, DmaBufExport, DmaBufExportFails,
    ErrPtrDereferenced, DmaBufFd, DmaBufFdFails, CopyToUser, IonIoctlReturns, dmaBufVars, ionVars
<1>3. ASSUME NEW t \in Threads, ImporterStep(t)
      PROVE  access' = access \/ \E x, S : access' = [access EXCEPT ![x] = S]
  BY <1>3 DEF ImporterStep, Kmap, Vmap, VmapFails, Vunmap, Attach, AttachFails, MapAttachment,
    UnmapAttachment, Detach, Put, ion_kmap, ion_vmap, ion_vunmap, ion_map_dma_buf,
    ion_unmap_dma_buf, Grant, Revoke, Zap, ionVars
<1>4. ASSUME Exit \/ ReapStep \/ UNCHANGED vars
      PROVE  access' = access \/ \E x, S : access' = [access EXCEPT ![x] = S]
  BY <1>4 DEF Exit, ReapStep, ReapVma, ReapFd, Rerun, Zap, vars, ionVars
<1> QED
  BY <1>1, <1>2, <1>3, <1>4 DEF Next, KernelStep

(* Every step keeps the type of the accesses.                              *)
LEMMA AccessTypeStep ==
  ASSUME IInv, [Next]_vars, CoreType', AccessInv', PagesConserved'
  PROVE  access' \in [Accessors -> SUBSET Pages]
<1>1. access' = [x \in Accessors |-> access'[x]]
  BY AccessUpdate DEF IInv, TypeOK
<1>2. \A b \in Buffers : Held(b)' \subseteq Pages
  BY DEF PagesConserved
<1>3. ASSUME NEW u \in Threads
      PROVE  access'[u] \subseteq Pages
  <2>1. CASE pc'[u] \in Importing
    <3>1. buf'[u] \in Buffers
      BY <2>1, ControlStep DEF Control, Importing, ImporterStates
    <3>2. PICK b \in Buffers : b = buf'[u]
      BY <3>1
    <3>3. Held(b)' = Held(buf[u])'
      BY <3>2 DEF Held, First
    <3> QED
      BY <1>2, <2>1, <3>3 DEF AccessInv
  <2> QED
    BY <2>1 DEF AccessInv
<1>4. ASSUME NEW v \in Vmas
      PROVE  access'[v] \subseteq Pages
  <2>1. CASE vma'[v] # None
    <3>1. PICK b \in Buffers : b = vma'[v]
      BY <2>1 DEF CoreType
    <3>2. Held(b)' = Held(vma[v])'
      BY <3>1 DEF Held, First
    <3> QED
      BY <1>2, <2>1, <3>2 DEF AccessInv
  <2> QED
    BY <2>1 DEF AccessInv
<1> QED
  BY <1>1, <1>3, <1>4 DEF Accessors

(* The inductive invariant holds when the drivers are loaded.              *)
LEMMA InitInv ==
  ASSUME Init
  PROVE  IInv
<1> USE DEF Init, DmaBufInit, IonInit
<1>1. TypeOK
  <2>1. pages \in [Buffers -> Seq(Pages)]
    BY <<>> \in Seq(Pages)
  <2>2. exiting \in BOOLEAN
    OBVIOUS
  <2>3. access \in [Accessors -> SUBSET Pages]
    OBVIOUS
  <2> QED
    BY <2>1, <2>2, <2>3 DEF TypeOK, States
<1>2. \A b \in Buffers : Holders(b) = {} /\ Held(b) = {}
  BY NoneAssumption DEF Holders, Held, First
<1>3. RefcountExact
  BY <1>2, FS_EmptySet DEF RefcountExact
<1>4. PagesConserved
  BY <1>2 DEF PagesConserved
<1>5. Control /\ Filling /\ FreshPrivate /\ ArraysMatch /\ AttachmentsOfUsers
  BY DEF Control, Filling, FreshPrivate, ArraysMatch, AttachmentsOfUsers, ImporterStates
<1>6. AccessInv
  BY DEF AccessInv, Accessors, Importing
<1> QED
  BY <1>1, <1>3, <1>4, <1>5, <1>6 DEF IInv

(* Every step keeps the inductive invariant.                               *)
LEMMA NextInv ==
  ASSUME IInv, [Next]_vars
  PROVE  IInv'
<1>1. Effect
  BY NextEffect
<1>2. PagesConserved' /\ AccessInv' /\ CoreType'
  BY <1>1, PagesStep, AccessStep, CoreTypeStep
<1>3. TypeOK'
  BY <1>1, <1>2, PageTypeStep, AccessTypeStep DEF TypeOK, CoreType
<1> QED
  BY <1>1, <1>2, <1>3, ControlStep, FillingStep, RefcountStep, FreshStep, ArraysStep,
    AttachmentsStep DEF IInv

(* The inductive invariant holds in every reachable state: the thread      *)
(* positions, the reference counts, the page arrays and the accesses of    *)
(* exporter and importer fit together at every step of their calls.        *)
THEOREM Invariance == Spec => []IInv
<1>1. Init => IInv
  BY InitInv
<1>2. IInv /\ [Next]_vars => IInv'
  BY NextInv
<1> QED
  BY <1>1, <1>2, PTL DEF Spec

(* The state always has its declared types. *)
THEOREM TypeCorrect == Spec => []TypeOK
<1>1. IInv => TypeOK
  BY DEF IInv
<1> QED
  BY <1>1, Invariance, PTL

(* No interleaving of allocations, imports, mappings, closes and exits     *)
(* makes the file count of a dma_buf differ from the number of its holders. *)
THEOREM RefcountsAreExact == Spec => []RefcountExact
<1>1. IInv => RefcountExact
  BY DEF IInv
<1> QED
  BY <1>1, Invariance, PTL

(* Every page is always free or in one page array, once: ion_alloc, its    *)
(* error path and ion_release neither leak a page nor put one twice.       *)
THEOREM PagesAreConserved == Spec => []PagesConserved
<1>1. IInv => PagesConserved
  BY DEF IInv
<1> QED
  BY <1>1, Invariance, PTL

(* No thread and no mapping ever reaches a page that is not, or no longer, *)
(* a page of the buffer it obtained access through.                        *)
THEOREM AccessIsSafe == Spec => []AccessWithinBuffer
<1>1. IInv => AccessWithinBuffer
  <2> SUFFICES ASSUME IInv PROVE AccessWithinBuffer
    OBVIOUS
  <2>1. \A t \in Threads : access[t] # {} => pc[t] \in Importing
    BY DEF IInv, AccessInv
  <2>2. \A t \in Threads : pc[t] \in Importing => buf[t] \in Buffers
    BY DEF IInv, Control, Importing, ImporterStates
  <2>3. \A v \in Vmas : access[v] # {} => vma[v] \in Buffers
    BY DEF IInv, AccessInv, TypeOK
  <2> QED
    BY <2>1, <2>2, <2>3 DEF IInv, AccessInv, AccessWithinBuffer
<1> QED
  BY <1>1, Invariance, PTL

(* No buffer is released while an importer is attached to it. *)
THEOREM AttachmentsAreOfUsers == Spec => []AttachmentsOfUsers
<1>1. IInv => AttachmentsOfUsers
  BY DEF IInv
<1> QED
  BY <1>1, Invariance, PTL

-----------------------------------------------------------------------------
(* The drivers implement SharedBuffers.                                    *)

(* A dma_buf whose count is zero has no holder.                            *)
LEMMA UncountedUnheld ==
  ASSUME IInv, NEW b \in Buffers, fcount[b] = 0
  PROVE  Holders(b) = {}
BY CountedIffHeld DEF IInv

(* Initial states of the drivers are initial states of SharedBuffers.      *)
LEMMA InitRefines ==
  ASSUME Init
  PROVE  Shared!Init
BY NoneAssumption DEF Init, DmaBufInit, IonInit, Shared!Init, Holders, Held, First

(* Every step of the drivers is a step of SharedBuffers or a stutter.      *)
LEMMA NextRefines ==
  ASSUME IInv, Effect
  PROVE  [Shared!Next]_(Shared!vars)
<1> DEFINE Parties == Threads \cup Fds \cup Vmas \cup Buffers
           held == [b \in Buffers |-> Held(b)]
           holders == [b \in Buffers |-> Holders(b)]
<1> USE DEF IInv, TypeOK
<1>1. pages' = pages => held' = held
  BY DEF Held, First
<1>2. CASE Quiet
  <2>1. holders' = holders
    BY <1>2 DEF Quiet, HoldersSame
  <2> QED
    BY <1>1, <1>2, <2>1 DEF Quiet, pageVars, Shared!vars
<1>3. ASSUME NEW t \in Threads, Filled(t)
      PROVE  Shared!Next
  <2>1. PICK p \in Pages : AllocPage(t, p)
    BY <1>3 DEF Filled
  <2>2. PICK b \in Buffers : b = buf[t]
    BY <2>1 DEF AllocPage, Control
  <2>3. Holders(b) = {}
    <3>1. fcount[b] = 0
      BY <2>1, <2>2 DEF AllocPage, Filling
    <3> QED
      BY <3>1, UncountedUnheld
  <2>4. /\ Held(b)' = Held(b) \cup {p}
        /\ \A c \in Buffers \ {b} : Held(c)' = Held(c)
    BY <2>1, <2>2, HeldAppend DEF AllocPage
  <2>5. held' = [held EXCEPT ![b] = @ \cup {p}]
    BY <2>4
  <2>6. holders' = holders
    BY <1>3 DEF Filled, HoldersSame
  <2>7. Shared!Gather(b, p)
    BY <2>1, <2>3, <2>5, <2>6 DEF AllocPage, Shared!Gather
  <2> QED
    BY <2>7 DEF Shared!Next
<1>4. ASSUME NEW t \in Threads, Unwound(t)
      PROVE  Shared!Next
  <2>1. PICK b \in Buffers : b = buf[t]
    BY <1>4 DEF Unwound, IonAllocErr, Goto, Control
  <2>2. Holders(b) = {}
    <3>1. fcount[b] = 0
      BY <1>4, <2>1 DEF Unwound, IonAllocErr, Goto, Filling
    <3> QED
      BY <3>1, UncountedUnheld
  <2>3. /\ Held(b)' = {}
        /\ \A c \in Buffers \ {b} : Held(c)' = Held(c)
    BY <1>4, <2>1, HeldReset DEF Unwound, IonAllocErr
  <2>4. held' = [held EXCEPT ![b] = {}]
    BY <2>3
  <2>5. holders' = holders
    BY <1>4 DEF Unwound, HoldersSame
  <2>6. free' = free \cup Held(b)
    BY <1>4, <2>1 DEF Unwound, IonAllocErr, Held
  <2>7. Shared!Abandon(b)
    BY <2>2, <2>4, <2>5, <2>6 DEF Shared!Abandon, Shared!GiveUp
  <2> QED
    BY <2>7 DEF Shared!Next
<1>5. ASSUME NEW b \in Buffers, NEW t \in Threads, Exported(b, t)
      PROVE  Shared!Next
  <2>1. fcount[b] = 0 /\ Len(pages[b]) > 0
    BY <1>5 DEF Exported, DmaBufExport, Goto, Filling
  <2>2. Holders(b) = {}
    BY <2>1, UncountedUnheld
  <2>3. Held(b) # {}
    <3>1. 1 \in 1..Len(pages[b])
      BY <2>1
    <3>2. pages[b][1] \in Held(b)
      <4> HIDE DEF IInv, TypeOK
      <4> QED
        BY <3>1 DEF Held, First
    <3> QED
      BY <3>2
  <2>4. holders' = [holders EXCEPT ![b] = {t}]
    <3>1. Holders(b)' = {t}
      BY <1>5, <2>2 DEF Exported, HolderAdded
    <3>2. \A c \in Buffers \ {b} : Holders(c)' = Holders(c)
      BY <1>5 DEF Exported, HolderAdded, OthersSame
    <3> QED
      BY <3>1, <3>2
  <2>5. Shared!Create(b, t)
    BY <1>1, <1>5, <2>2, <2>3, <2>4 DEF Exported, DmaBufExport, Shared!Create
  <2> QED
    BY <2>5 DEF Shared!Next
<1>6. ASSUME NEW b \in Buffers, NEW h \in Threads \cup Fds \cup Vmas, Acquired(b, h)
      PROVE  Shared!Next
  <2>1. holders' = [holders EXCEPT ![b] = @ \cup {h}]
    BY <1>6 DEF Acquired, HolderAdded, OthersSame
  <2>2. Holders(b) # {} /\ h \notin Holders(b)
    BY <1>6 DEF Acquired, HolderAdded, Holders
  <2>3. Shared!Acquire(b, h)
    BY <1>1, <1>6, <2>1, <2>2 DEF Acquired, pageVars, Shared!Acquire
  <2> QED
    BY <2>3 DEF Shared!Next
<1>7. ASSUME NEW b \in Buffers, NEW h \in Threads \cup Fds \cup Vmas, Released(b, h)
      PROVE  Shared!Next
  <2>1. holders' = [holders EXCEPT ![b] = @ \ {h}] /\ h \in Holders(b)
    BY <1>7 DEF Released, HolderDropped, OthersSame
  <2>2. CASE Holders(b) = {h}
    <3>1. free' = free \cup Held(b) /\ pages' = [pages EXCEPT ![b] = <<>>]
      BY <1>7, <2>2, ReleasePages
    <3>2. held' = [held EXCEPT ![b] = {}]
      BY <3>1, HeldReset
    <3>3. Shared!GiveUp(b)
      BY <3>1, <3>2 DEF Shared!GiveUp
    <3>4. Shared!Drop(b, h)
      BY <2>1, <2>2, <3>3 DEF Shared!Drop
    <3> QED
      BY <3>4 DEF Shared!Next
  <2>3. CASE Holders(b) # {h}
    <3>1. UNCHANGED pageVars
      BY <1>7, <2>3, ReleasePages
    <3>2. UNCHANGED <<free, held>>
      BY <1>1, <3>1 DEF pageVars
    <3>3. Shared!Drop(b, h)
      BY <2>1, <2>3, <3>2 DEF Shared!Drop
    <3> QED
      BY <3>3 DEF Shared!Next
  <2> QED
    BY <2>2, <2>3
<1>8. ASSUME NEW b \in Buffers, NEW g \in Threads, NEW h \in Fds \cup Buffers, Passed(b, g, h)
      PROVE  Shared!Next
  <2>1. holders' = [holders EXCEPT ![b] = (@ \ {g}) \cup {h}]
    BY <1>8 DEF Passed, HolderMoved, OthersSame
  <2>2. Shared!Pass(b, g, h)
    BY <1>1, <1>8, <2>1 DEF Passed, HolderMoved, pageVars, Shared!Pass
  <2> QED
    BY <2>2 DEF Shared!Next
<1> QED
  BY <1>2, <1>3, <1>4, <1>5, <1>6, <1>7, <1>8 DEF Effect

(* The two drivers over the dma-buf core implement SharedBuffers: who      *)
(* holds a buffer and when its pages go back is as promised there.         *)
THEOREM Refinement == Spec => ImplementsSharedBuffers
<1>1. Init => Shared!Init
  BY InitRefines
<1>2. IInv /\ [Next]_vars => [Shared!Next]_(Shared!vars)
  BY NextEffect, NextRefines
<1> QED
  BY <1>1, <1>2, Invariance, PTL DEF Spec, Shared!Spec, ImplementsSharedBuffers

=============================================================================
