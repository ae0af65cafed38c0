------------------------- MODULE PageExporterProofs -------------------------
(* Theorems about PageExporter, for every value of its constants. *)
EXTENDS PageExporter, FiniteSetTheorems, TLAPS

-----------------------------------------------------------------------------
(* Who refers to a buffer.                                                 *)

(* The thread has a reference to the buffer it works on, if any. *)
Holding(t) == pc[t] # "ioctl" /\ t \notin borrowed

(* x refers to b: descriptor, mapping, or thread with a reference. *)
Refers(x, b) ==
  \/ x \in Fds /\ fdt[x] = b
  \/ x \in Vmas /\ vma[x] = b
  \/ x \in Threads /\ buf[x] = b /\ Holding(x)

ReferrersRefer == \A b \in Buffers : \A x : x \in Referrers(b) <=> Refers(x, b)

LEMMA ReferrersAre ==
  TypeOK /\ Control => ReferrersRefer
BY HolderAssumption, NoneAssumption
DEF TypeOK, Control, ReferrersRefer, Refers, Referrers, Holders, RefStates, Holding,
    ImporterStates

LEMMA ReferrersAreNext ==
  TypeOK' /\ Control' => ReferrersRefer'
BY HolderAssumption, NoneAssumption
DEF TypeOK, Control, ReferrersRefer, Refers, Referrers, Holders, RefStates, Holding,
    ImporterStates

(* They are finitely many. *)
LEMMA ReferrersFinite ==
  ASSUME TypeOK, Control, NEW b \in Buffers
  PROVE  IsFiniteSet(Referrers(b))
<1>1. IsFiniteSet(Fds \cup Vmas \cup Threads)
  BY HolderAssumption, FS_Union
<1>2. Referrers(b) \subseteq Fds \cup Vmas \cup Threads
  BY ReferrersAre DEF ReferrersRefer, Refers
<1> QED
  BY <1>1, <1>2, FS_Subset

(* Nobody refers to a lost buffer, nor is it exported. *)
LEMMA KnownNotLost ==
  ASSUME IInv, ReferrersRefer, NEW b \in Buffers,
         NEW x, Refers(x, b) \/ b = exported
  PROVE  b \notin lost
BY DEF IInv, LostInv, ReferrersRefer

-----------------------------------------------------------------------------
(* Types and control.                                                      *)

(* A step of an importer's test moves its thread and attachments only. *)
LEMMA TestMoves ==
  ASSUME IInv, NEW t \in Threads, TestStep(t)
  PROVE  /\ \E to \in ImporterStates \cup {"oops"} :
              (to = "oops" => stage = 8) /\ pc' = [pc EXCEPT ![t] = to]
         /\ pc[t] \in ImporterStates
         /\ attachments' \in [Buffers -> SUBSET Threads]
         /\ UNCHANGED <<buf, fcount, fdt, vma, lost, exiting, exporterVars>>
<1>1. attachments \in [Buffers -> SUBSET Threads] /\ pc[t] \in ImporterStates
  BY DEF IInv, TypeOK, TestStep
<1>2. UNCHANGED exporterVars
  BY DEF TestStep
<1>3. ASSUME NEW from, NEW to \in ImporterStates \cup {"oops"}, Step(t, from, to),
             to = "oops" => stage = 8
      PROVE  /\ \E x \in ImporterStates \cup {"oops"} :
                  (x = "oops" => stage = 8) /\ pc' = [pc EXCEPT ![t] = x]
             /\ attachments' \in [Buffers -> SUBSET Threads]
             /\ UNCHANGED <<buf, fcount, fdt, vma, lost, exiting>>
  BY <1>1, <1>3 DEF Step, Goto
<1>4. CASE ImporterAttach(t) \/ ImporterDetach(t)
  <2>1. \E to \in ImporterStates : to # "oops" /\ pc' = [pc EXCEPT ![t] = to]
    BY <1>4 DEF ImporterAttach, ImporterDetach, Goto, ImporterStates
  <2>2. attachments' \in [Buffers -> SUBSET Threads]
    BY <1>1, <1>4 DEF ImporterAttach, ImporterDetach
  <2> QED
    BY <1>1, <1>2, <1>4, <2>1, <2>2 DEF ImporterAttach, ImporterDetach
<1>5. CASE ImporterKmap(t) \/ ImporterVmap(t) \/ ImporterVunmap(t) \/ ImporterAttachFails(t)
           \/ ImporterMap(t) \/ ImporterUnmap(t)
  <2>1. \E from, to \in ImporterStates : to # "oops" /\ Step(t, from, to)
    BY <1>5 DEF ImporterKmap, ImporterVmap, ImporterVunmap, ImporterAttachFails, ImporterMap,
      ImporterUnmap, ImporterStates
  <2> QED
    BY <1>1, <1>2, <1>3, <2>1
<1>6. CASE stage = 8 /\ ImporterVmapFails(t)
  BY <1>1, <1>2, <1>3, <1>6 DEF ImporterVmapFails
<1> QED
  BY <1>4, <1>5, <1>6 DEF TestStep

(* A reference is dropped from a live buffer. *)
LEMMA DropType ==
  ASSUME TypeOK, NEW t \in Threads, NEW b \in Buffers, Live(b), PutFile(b), Fput(t, b)
  PROVE  /\ fcount' \in [Buffers -> Nat]
         /\ dying' \subseteq Buffers
         /\ closer' \in [Buffers -> Threads \cup {None}]
         /\ UNCHANGED <<stage, loaded, exported, handed, undef>>
BY DEF TypeOK, Live, PutFile, Fput

LEMMA TypeStep ==
  ASSUME IInv, [Next]_vars
  PROVE  TypeOK'
<1> TypeOK /\ Control /\ PointerInv
  BY DEF IInv
<1>1. CASE exporter_init \/ ExporterInitFails \/ exporter_exit
  <2>1. ASSUME NEW b \in Buffers, exporter_alloc_page(b)
        PROVE  /\ fcount' \in [Buffers -> Nat] /\ handed' \in [Buffers -> Nat]
               /\ closer' \in [Buffers -> Threads \cup {None}]
    BY <2>1 DEF exporter_alloc_page, TypeOK
  <2>2. CASE exporter_init
    BY <2>1, <2>2 DEF exporter_init, TypeOK
  <2>3. CASE ExporterInitFails
    BY <2>1, <2>3 DEF ExporterInitFails, TypeOK
  <2>4. CASE exporter_exit
    BY <2>4 DEF exporter_exit, dmaBufVars, TypeOK
  <2> QED
    BY <1>1, <2>2, <2>3, <2>4
<1>2. ASSUME NEW t \in Threads, NEW f \in Fds, DropFd(t, f)
      PROVE  TypeOK'
  <2>1. fdt[f] \in Buffers
    BY <1>2 DEF DropFd, TypeOK
  <2> QED
    BY <1>2, <2>1, DropType DEF DropFd, CloseFd, TypeOK
<1>3. ASSUME NEW t \in Threads, NEW v \in Vmas, DropVma(t, v)
      PROVE  TypeOK'
  <2>1. vma[v] \in Buffers
    BY <1>3 DEF DropVma, TypeOK
  <2> QED
    BY <1>3, <2>1, DropType DEF DropVma, UnmapVma, TypeOK
<1>4. ASSUME NEW t \in Threads, UserStep(t)
      PROVE  TypeOK'
  <2>1. ASSUME exporter_ioctl(t) \/ DmaBufFdFails(t)
        PROVE  TypeOK'
    BY <2>1 DEF exporter_ioctl, DmaBufFdFails, Goto, exporterVars, TypeOK
  <2>7. ASSUME NEW f \in Fds, dma_buf_fd(t, f)
        PROVE  TypeOK'
    BY <2>7 DEF dma_buf_fd, Goto, TypeOK, Control
  <2>2. ASSUME NEW v \in Vmas, exporter_misc_mmap(t, v)
        PROVE  TypeOK'
    BY <2>2 DEF exporter_misc_mmap, GetFile, exporterVars, MapsDevice, PointerInv, TypeOK
  <2>3. ASSUME NEW f \in Fds, NEW v \in Vmas, Mmap(t, f, v)
        PROVE  TypeOK'
    BY <2>3 DEF Mmap, MapVma, GetFile, exporterVars, TypeOK
  <2>4. ASSUME NEW f \in Fds, Import(t, f)
        PROVE  TypeOK'
    BY <2>4 DEF Import, ImporterIoctl, GetFile, exporterVars, TypeOK, ImporterStates
  <2>5. ASSUME NEW f \in Fds, SyncKilled(t, f)
        PROVE  TypeOK'
    BY <2>5 DEF SyncKilled, GetFile, exporterVars, TypeOK
  <2>6. ASSUME importer_init(t)
        PROVE  TypeOK'
    BY <2>6 DEF importer_init, TypeOK, ImporterStates
  <2> QED
    BY <1>2, <1>3, <1>4, <2>1, <2>2, <2>3, <2>4, <2>5, <2>6, <2>7 DEF UserStep
<1>5. ASSUME NEW t \in Threads, TestStep(t)
      PROVE  TypeOK'
  <2>1. PICK to \in ImporterStates \cup {"oops"} : pc' = [pc EXCEPT ![t] = to]
    BY <1>5, TestMoves
  <2> QED
    BY <1>5, <2>1, TestMoves DEF TypeOK, exporterVars
<1>6. ASSUME NEW t \in Threads, Put(t)
      PROVE  TypeOK'
  <2>1. buf[t] \in Buffers
    BY <1>6 DEF Put, ImporterPut, Goto, Control
  <2> QED
    BY <1>6, <2>1, DropType DEF Put, ImporterPut, Goto, TypeOK
<1>7. ASSUME NEW t \in Threads, InitReturns(t)
      PROVE  TypeOK'
  BY <1>7 DEF InitReturns, Goto, TypeOK
<1>8. CASE HolderUses \/ IoctlUses \/ ModuleUses
  BY <1>8 DEF HolderUses, IoctlUses, ModuleUses, Undefined, dmaBufVars, TypeOK
<1>9. CASE Exit \/ Rerun \/ UNCHANGED vars
  BY <1>9 DEF Exit, ExitBegin, Rerun, ExitDone, vars, dmaBufVars, exporterVars, TypeOK
<1>10. ASSUME NEW b \in Buffers, exporter_release(b)
       PROVE  TypeOK'
  BY <1>10 DEF exporter_release, dmaBufVars, TypeOK
<1> QED
  BY <1>1, <1>2, <1>3, <1>4, <1>5, <1>6, <1>7, <1>8, <1>9, <1>10 DEF Next, Reap

(* No thread inside an importer module is in user code. *)
LEMMA ControlStep ==
  ASSUME IInv, [Next]_vars
  PROVE  Control'
<1> TypeOK /\ Control /\ PointerInv /\ DyingInv
  BY DEF IInv
<1> ReferrersRefer
  BY ReferrersAre
<1>1. CASE exporter_init \/ ExporterInitFails \/ exporter_exit
  <2>1. UNCHANGED <<pc, buf, stage, borrowed>>
    BY <1>1 DEF exporter_init, ExporterInitFails, exporter_exit, dmaBufVars
  <2>2. borrowed # {} /\ stage # 7 => loaded' = loaded /\ exported' = exported
    <3>1. borrowed # {} /\ stage # 7 => loaded
      BY DEF Control
    <3> QED
      BY <1>1, <3>1 DEF exporter_init, exporter_alloc_page, ExporterInitFails, exporter_exit
  <2>3. \A t \in Threads : buf[t] \notin lost'
    BY <1>1
    DEF exporter_init, exporter_alloc_page, ExporterInitFails, exporter_exit, dmaBufVars, Unused,
        Control
  <2> QED
    BY <2>1, <2>2, <2>3 DEF Control, SymbolImporter, HandsOutFds
<1>2. ASSUME NEW t \in Threads, NEW f \in Fds, DropFd(t, f)
      PROVE  Control'
  BY <1>2 DEF DropFd, CloseFd, Fput, Control, SymbolImporter, HandsOutFds
<1>3. ASSUME NEW t \in Threads, NEW v \in Vmas, DropVma(t, v)
      PROVE  Control'
  BY <1>3 DEF DropVma, UnmapVma, Fput, Control, SymbolImporter, HandsOutFds
<1>4. ASSUME NEW t \in Threads, UserStep(t)
      PROVE  Control'
  <2>1. ASSUME exporter_ioctl(t)
        PROVE  Control'
    <3>1. /\ t \notin borrowed /\ exported \in Buffers \ lost /\ HandsOutFds
          /\ buf' = [buf EXCEPT ![t] = exported]
          /\ pc' = [pc EXCEPT ![t] = "ioctl"]
          /\ UNCHANGED <<stage, loaded, exported, borrowed, lost>>
      BY <2>1, KnownNotLost
      DEF exporter_ioctl, Ready, InUser, exporterVars, TypeOK, Control, ImporterStates
    <3> QED
      BY <3>1 DEF Control, TypeOK, SymbolImporter, HandsOutFds
  <2>2. ASSUME NEW v \in Vmas, exporter_misc_mmap(t, v)
        PROVE  Control'
    BY <2>2 DEF exporter_misc_mmap, exporterVars, Control, SymbolImporter, HandsOutFds
  <2>3. ASSUME NEW f \in Fds, NEW v \in Vmas, Mmap(t, f, v)
        PROVE  Control'
    BY <2>3 DEF Mmap, MapVma, exporterVars, Control, SymbolImporter, HandsOutFds
  <2>4. ASSUME NEW f \in Fds, Import(t, f) \/ SyncKilled(t, f)
        PROVE  Control'
    <3>1. /\ pc[t] = "user" /\ t \notin borrowed /\ fdt[f] \in Buffers
          /\ buf' = [buf EXCEPT ![t] = fdt[f]]
          /\ pc' = [pc EXCEPT ![t] = "test1"] \/ pc' = [pc EXCEPT ![t] = "oops"]
          /\ UNCHANGED <<stage, loaded, exported, borrowed, lost>>
      BY <2>4
      DEF Import, ImporterIoctl, SyncKilled, Ready, InUser, exporterVars, TypeOK, Control,
          ImporterStates
    <3>2. fdt[f] \notin lost
      BY <3>1, KnownNotLost DEF Refers
    <3> QED
      BY <3>1, <3>2 DEF Control, TypeOK, SymbolImporter, HandsOutFds
  <2>5. ASSUME importer_init(t)
        PROVE  Control'
    <3>1. /\ exported \in Buffers /\ SymbolImporter /\ loaded /\ exported \notin lost
          /\ buf' = [buf EXCEPT ![t] = exported]
          /\ pc' = [pc EXCEPT ![t] = "test1"] \/ pc' = [pc EXCEPT ![t] = "test2"]
          /\ borrowed' = borrowed \cup {t}
          /\ UNCHANGED <<stage, loaded, exported, lost>>
      BY <2>5, KnownNotLost DEF importer_init, TypeOK
    <3>2. \A u \in Threads : /\ buf'[u] = IF u = t THEN exported ELSE buf[u]
                             /\ pc'[u] \in IF u = t THEN {"test1", "test2"} ELSE {pc[u]}
      BY <3>1 DEF TypeOK
    <3>3. borrowed' \subseteq Threads /\ SymbolImporter'
      BY <3>1 DEF TypeOK, SymbolImporter
    <3> QED
      <4>1. \A u \in Threads : IF pc'[u] = "user" THEN buf'[u] = None ELSE buf'[u] \in Buffers
        BY <3>1, <3>2 DEF Control
      <4>3. \A u \in Threads : (pc'[u] = "ioctl" => HandsOutFds') /\ buf'[u] \notin lost'
        <5>1. ASSUME NEW u \in Threads
              PROVE  (pc'[u] = "ioctl" => HandsOutFds') /\ buf'[u] \notin lost'
          <6>3. (HandsOutFds' <=> HandsOutFds) /\ lost' = lost
            BY <3>1 DEF HandsOutFds
          <6>1. CASE u = t
            BY <3>1, <3>2, <6>1, <6>3
          <6>2. CASE u # t
            <7>1. pc'[u] = pc[u] /\ buf'[u] = buf[u]
              BY <3>2, <6>2
            <7> QED
              BY <6>3, <7>1 DEF Control
          <6> QED
            BY <6>1, <6>2
        <5> QED
          BY <5>1
      <4>2. ASSUME NEW u \in borrowed'
            PROVE  pc'[u] \in ImporterStates /\ (stage' # 7 => loaded' /\ buf'[u] = exported')
        BY <3>1, <3>2, <3>3 DEF Control, ImporterStates
      <4> QED
        BY <3>3, <4>1, <4>2, <4>3 DEF Control
  <2>6. ASSUME \/ DmaBufFdFails(t)
               \/ \E f \in Fds : dma_buf_fd(t, f)
        PROVE  Control'
    <3>1. /\ pc[t] = "ioctl" /\ t \notin borrowed
          /\ buf' = [buf EXCEPT ![t] = None]
          /\ pc' = [pc EXCEPT ![t] = "user"]
          /\ UNCHANGED <<stage, loaded, exported, borrowed, lost>>
      BY <2>6
      DEF DmaBufFdFails, dma_buf_fd, Goto, exporterVars, Control, ImporterStates
    <3> QED
      BY <3>1, NoneAssumption DEF Control, TypeOK, SymbolImporter, HandsOutFds
  <2> QED
    BY <1>2, <1>3, <1>4, <2>1, <2>2, <2>3, <2>4, <2>5, <2>6 DEF UserStep
<1>5. ASSUME NEW t \in Threads, TestStep(t)
      PROVE  Control'
  <2>1. PICK to \in ImporterStates \cup {"oops"} :
          (to = "oops" => stage = 8) /\ pc' = [pc EXCEPT ![t] = to]
    BY <1>5, TestMoves
  <2>2. pc[t] \in ImporterStates /\ t \in Threads
    BY <1>5, TestMoves
  <2>3. to # "user" /\ pc[t] # "user" /\ to # "ioctl"
    BY <2>1, <2>2 DEF ImporterStates
  <2>4. to = "oops" => t \notin borrowed
    BY <2>1 DEF Control, SymbolImporter
  <2>5. /\ UNCHANGED <<buf, stage, loaded, exported, borrowed, lost>>
        /\ \A u \in Threads : pc'[u] = IF u = t THEN to ELSE pc[u]
    BY <1>5, <2>1, TestMoves DEF exporterVars, TypeOK
  <2> QED
    BY <2>3, <2>4, <2>5 DEF Control, TypeOK, SymbolImporter, HandsOutFds
<1>6. ASSUME NEW t \in Threads, Put(t) \/ InitReturns(t)
      PROVE  Control'
  <2>1. /\ pc[t] = "put" /\ borrowed' \subseteq borrowed \ {t}
        /\ buf' = [buf EXCEPT ![t] = None]
        /\ pc' = [pc EXCEPT ![t] = "user"]
        /\ UNCHANGED <<stage, loaded, exported, lost>>
    BY <1>6 DEF Put, ImporterPut, InitReturns, Goto, Fput
  <2> QED
    BY <2>1, NoneAssumption DEF Control, TypeOK, SymbolImporter, HandsOutFds
<1>7. ASSUME NEW b \in Buffers, exporter_release(b)
      PROVE  Control'
  <2>1. stage \in {4, 6, 7, 8} /\ UNCHANGED <<pc, buf, lost, stage, borrowed, loaded>>
    BY <1>7 DEF exporter_release, dmaBufVars, DyingInv, HandsOutFds
  <2> QED
    BY <2>1 DEF Control, SymbolImporter, HandsOutFds
<1>8. CASE HolderUses \/ IoctlUses \/ ModuleUses
  BY <1>8
  DEF HolderUses, IoctlUses, ModuleUses, Undefined, dmaBufVars, Control, SymbolImporter,
      HandsOutFds
<1>9. CASE Exit \/ Rerun \/ UNCHANGED vars
  BY <1>9 DEF Exit, ExitBegin, Rerun, ExitDone, vars, dmaBufVars, exporterVars, Control,
    SymbolImporter, HandsOutFds
<1> QED
  BY <1>1, <1>2, <1>3, <1>4, <1>5, <1>6, <1>7, <1>8, <1>9 DEF Next, Reap

-----------------------------------------------------------------------------
(* The effect of a step on references, counts and the pointer.             *)

countVars == <<stage, loaded, exported, handed, dying, lost, undef>>

OthersSame(b) == \A c \in Buffers \ {b} : Referrers(c)' = Referrers(c)
AllSame == \A c \in Buffers : Referrers(c)' = Referrers(c)

Quiet == AllSame /\ UNCHANGED <<fcount, closer, countVars>>

Joins(b, h) ==
  /\ h \notin Referrers(b) /\ Referrers(b)' = Referrers(b) \cup {h}
  /\ OthersSame(b)

(* A reference is taken. *)
Acquired(b, h) ==
  /\ Live(b) /\ b \notin lost /\ Joins(b, h)
  /\ GetFile(b) /\ UNCHANGED <<closer, countVars>>

(* A descriptor is installed that takes no reference. *)
HandedOut(b, f) ==
  /\ HandsOutFds
  /\ Live(b) /\ b \notin lost /\ Joins(b, f)
  /\ handed' = [handed EXCEPT ![b] = @ + 1]
  /\ UNCHANGED <<fcount, stage, loaded, exported, dying, closer, lost, undef>>

Released(b, h) ==
  /\ Live(b)
  /\ h \in Referrers(b) /\ Referrers(b)' = Referrers(b) \ {h}
  /\ OthersSame(b)
  /\ PutFile(b) /\ \E t \in Threads : Fput(t, b)
  /\ lost' = lost

(* Modules are loaded or unloaded, the release runs, or undefined behaviour *)
(* begins.                                                                  *)
ModuleStep ==
  /\ AllSame /\ Defined
  /\ \/ exporter_init \/ ExporterInitFails \/ exporter_exit
     \/ \E b \in Buffers : exporter_release(b)
     \/ HolderUses \/ IoctlUses \/ ModuleUses

Effect ==
  \/ Quiet
  \/ \E b \in Buffers, h \in Fds \cup Vmas \cup Threads : Acquired(b, h) \/ Released(b, h)
  \/ \E b \in Buffers, f \in Fds : HandedOut(b, f)
  \/ ModuleStep

(* The effect on the referrers, from the effect on tables and threads. *)
LEMMA RefersSame ==
  ASSUME ReferrersRefer, ReferrersRefer',
         \A b \in Buffers, x \in Fds \cup Vmas \cup Threads : Refers(x, b)' <=> Refers(x, b)
  PROVE  AllSame
BY DEF ReferrersRefer, AllSame, Refers

LEMMA RefersJoins ==
  ASSUME ReferrersRefer, ReferrersRefer',
         NEW b \in Buffers, NEW h \in Fds \cup Vmas \cup Threads, ~Refers(h, b),
         \A c \in Buffers, x \in Fds \cup Vmas \cup Threads :
           Refers(x, c)' <=> (Refers(x, c) \/ (c = b /\ x = h))
  PROVE  Joins(b, h)
BY DEF ReferrersRefer, Joins, OthersSame, Refers

LEMMA RefersLeaves ==
  ASSUME ReferrersRefer, ReferrersRefer',
         NEW b \in Buffers, NEW h \in Fds \cup Vmas \cup Threads, Refers(h, b),
         \A c \in Buffers, x \in Fds \cup Vmas \cup Threads :
           Refers(x, c)' <=> (Refers(x, c) /\ ~(c = b /\ x = h))
  PROVE  /\ h \in Referrers(b) /\ Referrers(b)' = Referrers(b) \ {h}
         /\ OthersSame(b)
<1>1. \A c \in Buffers : \A x :
        x \in Referrers(c)' <=> (x \in Referrers(c) /\ ~(c = b /\ x = h))
  BY DEF ReferrersRefer, Refers
<1> QED
  BY <1>1 DEF ReferrersRefer, OthersSame

(* The calls of user code that drop a reference, or exit. *)
LEMMA FdDropped ==
  ASSUME IInv, ReferrersRefer, ReferrersRefer', NEW t \in Threads, NEW f \in Fds,
         DropFd(t, f)
  PROVE  Effect
<1>1. PICK b \in Buffers : b = fdt[f] /\ Live(b) /\ PutFile(b) /\ Fput(t, b)
  BY DEF DropFd, CloseFd, IInv, TypeOK
<1>2. /\ \A x \in Fds : fdt'[x] = IF x = f THEN None ELSE fdt[x]
      /\ UNCHANGED <<pc, buf, vma, lost, borrowed>>
  BY DEF DropFd, CloseFd, IInv, TypeOK
<1>3. Released(b, f)
  BY <1>1, <1>2, HolderAssumption, NoneAssumption, RefersLeaves DEF Released, Refers, Holding
<1> QED
  BY <1>3 DEF Effect

LEMMA VmaDropped ==
  ASSUME IInv, ReferrersRefer, ReferrersRefer', NEW t \in Threads, NEW v \in Vmas,
         DropVma(t, v)
  PROVE  Effect
<1>1. PICK b \in Buffers : b = vma[v] /\ Live(b) /\ PutFile(b) /\ Fput(t, b)
  BY DEF DropVma, UnmapVma, IInv, TypeOK
<1>2. /\ \A x \in Vmas : vma'[x] = IF x = v THEN None ELSE vma[x]
      /\ UNCHANGED <<pc, buf, fdt, lost, borrowed>>
  BY DEF DropVma, UnmapVma, IInv, TypeOK
<1>3. Released(b, v)
  BY <1>1, <1>2, HolderAssumption, NoneAssumption, RefersLeaves DEF Released, Refers, Holding
<1> QED
  BY <1>3 DEF Effect

(* A thread that takes up work on a buffer gets a reference to it. *)
LEMMA ThreadEnters ==
  ASSUME IInv, ReferrersRefer, ReferrersRefer', NEW t \in Threads, NEW b \in Buffers,
         Live(b), b \notin lost, pc[t] = "user", buf' = [buf EXCEPT ![t] = b], GetFile(b),
         NEW to \in {"test1", "oops"}, pc' = [pc EXCEPT ![t] = to],
         UNCHANGED <<fdt, vma, borrowed, closer, countVars>>
  PROVE  Effect
<1>1. t \notin borrowed /\ buf[t] = None
  BY DEF IInv, Control, ImporterStates
<1>2. \A x \in Threads : /\ buf'[x] = IF x = t THEN b ELSE buf[x]
                         /\ pc'[x] = IF x = t THEN to ELSE pc[x]
  BY DEF IInv, TypeOK
<1>3. Acquired(b, t)
  BY <1>1, <1>2, HolderAssumption, NoneAssumption, RefersJoins
    DEF Acquired, Refers, Holding
<1> QED
  BY <1>3 DEF Effect

LEMMA UserEffect ==
  ASSUME IInv, ReferrersRefer, ReferrersRefer', NEW t \in Threads, UserStep(t)
  PROVE  Effect
<1> TypeOK /\ Control /\ PointerInv /\ DyingInv
  BY DEF IInv
<1>1. ASSUME NEW f \in Fds, dma_buf_fd(t, f)
      PROVE  Effect
  <2>1. PICK b \in Buffers :
          /\ b = buf[t] /\ b \notin lost /\ Live(b) /\ HandsOutFds
          /\ handed' = [handed EXCEPT ![b] = @ + 1]
    BY <1>1 DEF dma_buf_fd, Goto, Control
  <2>2. /\ \A x \in Fds : fdt'[x] = IF x = f THEN b ELSE fdt[x]
        /\ \A x \in Threads : /\ pc'[x] = IF x = t THEN "user" ELSE pc[x]
                              /\ buf'[x] = IF x = t THEN None ELSE buf[x]
        /\ fdt[f] = None /\ pc[t] = "ioctl"
        /\ UNCHANGED <<vma, borrowed, fcount, stage, loaded, exported, dying, closer, lost, undef>>
    BY <1>1, <2>1 DEF dma_buf_fd, Goto, TypeOK
  <2>3. HandedOut(b, f)
    BY <2>1, <2>2, HolderAssumption, NoneAssumption, RefersJoins
    DEF HandedOut, Refers, Holding
  <2> QED
    BY <2>3 DEF Effect
<1>7. ASSUME exporter_ioctl(t) \/ DmaBufFdFails(t)
      PROVE  Effect
  <2>1. /\ pc[t] = "ioctl" \/ buf[t] = None
        /\ pc'[t] = "ioctl" \/ buf'[t] = None
        /\ \A x \in Threads \ {t} : pc'[x] = pc[x] /\ buf'[x] = buf[x]
        /\ UNCHANGED <<borrowed, fcount, fdt, vma, closer, countVars>>
    BY <1>7
    DEF exporter_ioctl, DmaBufFdFails, Ready, InUser, Goto, Control, TypeOK, exporterVars,
        countVars
  <2>2. AllSame
    BY <2>1, HolderAssumption, NoneAssumption, RefersSame DEF Refers, Holding
  <2> QED
    BY <2>1, <2>2 DEF Effect, Quiet
<1>2. ASSUME NEW v \in Vmas, NEW b \in Buffers, Live(b), b \notin lost,
             vma[v] = None, vma' = [vma EXCEPT ![v] = b], GetFile(b),
             UNCHANGED <<fdt, pc, buf, borrowed, closer, countVars>>
      PROVE  Effect
  <2>1. \A x \in Vmas : vma'[x] = IF x = v THEN b ELSE vma[x]
    BY <1>2 DEF TypeOK
  <2>2. Acquired(b, v)
    BY <1>2, <2>1, HolderAssumption, NoneAssumption, RefersJoins
    DEF Acquired, Refers, Holding
  <2> QED
    BY <2>2 DEF Effect
<1>3. ASSUME NEW v \in Vmas, exporter_misc_mmap(t, v)
      PROVE  Effect
  <2>1. exported \in Buffers /\ Live(exported) /\ exported \notin lost
    BY <1>3, KnownNotLost
    DEF exporter_misc_mmap, MapsDevice, PointerInv, DyingInv, HandsOutFds, TypeOK
  <2> QED
    BY <1>2, <1>3, <2>1 DEF exporter_misc_mmap, exporterVars, countVars
<1>4. ASSUME NEW f \in Fds, NEW v \in Vmas, Mmap(t, f, v)
      PROVE  Effect
  <2>1. fdt[f] \in Buffers /\ fdt[f] \notin lost
    BY <1>4, KnownNotLost DEF Mmap, TypeOK, Refers
  <2> QED
    BY <1>2, <1>4, <2>1 DEF Mmap, MapVma, exporterVars, countVars
<1>5. ASSUME NEW f \in Fds, Import(t, f) \/ SyncKilled(t, f)
      PROVE  Effect
  <2>1. fdt[f] \in Buffers /\ Live(fdt[f]) /\ fdt[f] \notin lost /\ pc[t] = "user"
    BY <1>5, KnownNotLost DEF Refers, Import, ImporterIoctl, SyncKilled, Ready, InUser, TypeOK
  <2> QED
    BY <1>5, <2>1, ThreadEnters DEF Import, ImporterIoctl, SyncKilled, exporterVars, countVars
<1>6. ASSUME importer_init(t)
      PROVE  Effect
  <2>1. pc[t] = "user" /\ t \notin borrowed /\ buf[t] = None /\ borrowed' = borrowed \cup {t}
    BY <1>6 DEF importer_init, Ready, InUser, Control, ImporterStates
  <2>2. /\ \A x \in Threads : x # t => buf'[x] = buf[x] /\ pc'[x] = pc[x]
        /\ UNCHANGED <<fcount, fdt, vma, closer, countVars>>
    BY <1>6 DEF importer_init, TypeOK, countVars
  <2>3. AllSame
    BY <2>1, <2>2, HolderAssumption, NoneAssumption, RefersSame DEF Refers, Holding
  <2> QED
    BY <2>2, <2>3 DEF Effect, Quiet
<1> QED
  BY <1>1, <1>3, <1>4, <1>5, <1>6, <1>7, FdDropped, VmaDropped DEF UserStep

(* The effect of every step. *)
LEMMA NextEffect ==
  ASSUME IInv, [Next]_vars
  PROVE  Effect
<1> ReferrersRefer /\ ReferrersRefer'
  BY TypeStep, ControlStep, ReferrersAre, ReferrersAreNext DEF IInv
<1> TypeOK /\ Control
  BY DEF IInv
<1>1. ASSUME UNCHANGED <<fdt, vma, pc, buf, borrowed>>
      PROVE  AllSame
  BY <1>1, RefersSame DEF Refers, Holding
<1>2. ASSUME Defined,
             \/ exporter_init \/ ExporterInitFails \/ exporter_exit
             \/ \E b \in Buffers : exporter_release(b)
             \/ HolderUses \/ IoctlUses \/ ModuleUses
      PROVE  Effect
  <2>1. UNCHANGED <<fdt, vma, pc, buf, borrowed>>
    BY <1>2 DEF exporter_init, ExporterInitFails, exporter_exit, exporter_release, HolderUses,
      IoctlUses, ModuleUses, Undefined, dmaBufVars
  <2> QED
    BY <1>1, <1>2, <2>1 DEF Effect, ModuleStep
<1>3. ASSUME NEW t \in Threads, TestStep(t)
      PROVE  Effect
  <2>1. PICK to \in ImporterStates \cup {"oops"} : pc' = [pc EXCEPT ![t] = to]
    BY <1>3, TestMoves
  <2>2. /\ pc[t] # "ioctl" /\ UNCHANGED <<buf, fcount, fdt, vma, lost, borrowed, closer, countVars>>
        /\ \A x \in Threads : pc'[x] = IF x = t THEN to ELSE pc[x]
    BY <1>3, <2>1, TestMoves DEF ImporterStates, exporterVars, countVars, TypeOK
  <2>3. to # "ioctl"
    BY DEF ImporterStates
  <2>4. AllSame
    BY <2>2, <2>3, RefersSame DEF Refers, Holding
  <2> QED
    BY <2>2, <2>4 DEF Effect, Quiet
<1>4. CASE Exit \/ Rerun \/ UNCHANGED vars
  BY <1>1, <1>4
  DEF Exit, ExitBegin, Rerun, ExitDone, vars, dmaBufVars, exporterVars, Effect, Quiet, countVars
<1>5. ASSUME NEW t \in Threads, Put(t)
      PROVE  Effect
  <2>1. PICK b \in Buffers : b = buf[t] /\ Live(b) /\ PutFile(b) /\ Fput(t, b)
    BY <1>5 DEF Put, ImporterPut, Goto, Control
  <2>2. /\ \A x \in Threads : /\ buf'[x] = IF x = t THEN None ELSE buf[x]
                              /\ pc'[x] = IF x = t THEN "user" ELSE pc[x]
        /\ t \notin borrowed /\ pc[t] = "put" /\ UNCHANGED <<fdt, vma, lost, borrowed>>
    BY <1>5 DEF Put, ImporterPut, Goto, TypeOK
  <2>3. Released(b, t)
    BY <2>1, <2>2, HolderAssumption, NoneAssumption, RefersLeaves DEF Released, Refers, Holding
  <2> QED
    BY <2>3 DEF Effect
<1>6. ASSUME NEW t \in Threads, InitReturns(t)
      PROVE  Effect
  <2>1. /\ \A x \in Threads : /\ buf'[x] = IF x = t THEN None ELSE buf[x]
                              /\ pc'[x] = IF x = t THEN "user" ELSE pc[x]
        /\ t \in borrowed /\ borrowed' = borrowed \ {t}
        /\ UNCHANGED <<fcount, fdt, vma, closer, countVars>>
    BY <1>6 DEF InitReturns, Goto, TypeOK, countVars
  <2>2. AllSame
    BY <2>1, HolderAssumption, NoneAssumption, RefersSame DEF Refers, Holding
  <2> QED
    BY <2>1, <2>2 DEF Effect, Quiet
<1> QED
  BY <1>2, <1>3, <1>4, <1>5, <1>6, UserEffect, FdDropped, VmaDropped DEF Next, Reap

-----------------------------------------------------------------------------
(* The counts, the pointer, and what is left of a released buffer.         *)

LEMMA JoinsCounted ==
  ASSUME TypeOK, Control, NEW b \in Buffers, NEW h, Joins(b, h)
  PROVE  /\ Cardinality(Referrers(b)) \in Nat
         /\ Cardinality(Referrers(b))' = Cardinality(Referrers(b)) + 1
BY ReferrersFinite, FS_AddElement, FS_CardinalityType DEF Joins

LEMMA ReleasedCounted ==
  ASSUME TypeOK, Control, NEW b \in Buffers, NEW h, Released(b, h)
  PROVE  /\ Cardinality(Referrers(b)) \in Nat \ {0}
         /\ Cardinality(Referrers(b))' = Cardinality(Referrers(b)) - 1
         /\ Cardinality(Referrers(b)) = 1 <=> Referrers(b)' = {}
<1>1. IsFiniteSet(Referrers(b)) /\ IsFiniteSet(Referrers(b)')
  BY ReferrersFinite, FS_RemoveElement DEF Released
<1> QED
  BY <1>1, FS_RemoveElement, FS_CardinalityType, FS_EmptySet DEF Released

(* A count changes with the set of referrers. *)
LEMMA AcquiredStep ==
  ASSUME IInv, NEW b \in Buffers, NEW h, Acquired(b, h)
  PROVE  (CountsShort /\ LostInv /\ PointerInv /\ DyingInv /\ LeftOver)'
<1> DEFINE few == Cardinality(Referrers(b))
<1>1. few \in Nat /\ few' = few + 1
  BY JoinsCounted DEF IInv, Acquired
<1>2. /\ \A c \in Buffers \ {b} : fcount'[c] = fcount[c] /\ Referrers(c)' = Referrers(c)
      /\ fcount'[b] = fcount[b] + 1 /\ fcount[b] \in Nat /\ fcount[b] > 0 /\ b \notin lost
      /\ handed[b] \in Nat
      /\ UNCHANGED <<closer, countVars>>
  BY DEF IInv, TypeOK, Acquired, Joins, OthersSame, GetFile, Live
<1>3. CountsShort'
  <2>1. fcount[b] + handed[b] = few + 1
    BY <1>2 DEF IInv, CountsShort, Live
  <2>2. fcount'[b] + handed'[b] = few' + 1
    BY <1>1, <1>2, <2>1 DEF countVars
  <2> QED
    BY <1>2, <2>2 DEF IInv, CountsShort, Live, countVars
<1>4. LostInv'
  BY <1>2 DEF IInv, TypeOK, LostInv, countVars
<1>5. PointerInv' /\ DyingInv' /\ LeftOver'
  BY <1>2 DEF IInv, TypeOK, PointerInv, DyingInv, LeftOver, Live, HandsOutFds, countVars
<1> QED
  BY <1>3, <1>4, <1>5

LEMMA HandedOutStep ==
  ASSUME IInv, NEW b \in Buffers, NEW f \in Fds, HandedOut(b, f)
  PROVE  (CountsShort /\ LostInv /\ PointerInv /\ DyingInv /\ LeftOver)'
<1> DEFINE few == Cardinality(Referrers(b))
<1>1. few \in Nat /\ few' = few + 1
  BY JoinsCounted DEF IInv, HandedOut
<1>2. /\ \A c \in Buffers \ {b} : handed'[c] = handed[c] /\ Referrers(c)' = Referrers(c)
      /\ handed'[b] = handed[b] + 1 /\ handed[b] \in Nat
      /\ fcount[b] > 0 /\ fcount[b] \in Nat /\ b \notin lost /\ stage \in {4, 6, 7, 8}
      /\ UNCHANGED <<fcount, stage, loaded, exported, dying, closer, lost, undef>>
  BY DEF IInv, TypeOK, HandedOut, Joins, OthersSame, Live, HandsOutFds
<1>3. CountsShort'
  <2>1. fcount[b] + handed[b] = few + 1
    BY <1>2 DEF IInv, CountsShort, Live
  <2>2. fcount'[b] + handed'[b] = few' + 1
    BY <1>1, <1>2, <2>1
  <2> QED
    BY <1>2, <2>2 DEF IInv, CountsShort, Live
<1>4. LostInv'
  BY <1>2 DEF IInv, TypeOK, LostInv
<1>5. PointerInv' /\ DyingInv' /\ LeftOver'
  BY <1>2 DEF IInv, TypeOK, PointerInv, DyingInv, LeftOver, Live, HandsOutFds
<1> QED
  BY <1>3, <1>4, <1>5

(* Whoever drops the last reference is remembered. *)
LEMMA LastPut ==
  ASSUME TypeOK, NEW b \in Buffers, NEW t \in Threads, Fput(t, b)
  PROVE  /\ fcount[b] = 1 => closer'[b] = t /\ closer'[b] # None
         /\ \A c \in Buffers : fcount[b] # 1 \/ c # b => closer'[c] = closer[c]
BY NoneAssumption DEF Fput, TypeOK

LEMMA ReleasedStep ==
  ASSUME IInv, NEW b \in Buffers, NEW h, Released(b, h)
  PROVE  (CountsShort /\ LostInv /\ PointerInv /\ DyingInv /\ LeftOver)'
<1> DEFINE few == Cardinality(Referrers(b))
<1>1. few \in Nat \ {0} /\ few' = few - 1 /\ (few = 1 <=> Referrers(b)' = {})
  BY ReleasedCounted DEF IInv
<1>2. b \notin lost
  BY DEF IInv, LostInv, Released
<1>3. /\ \A c \in Buffers \ {b} : fcount'[c] = fcount[c] /\ Referrers(c)' = Referrers(c)
      /\ fcount'[b] = fcount[b] - 1 /\ fcount[b] \in Nat /\ fcount[b] > 0
      /\ handed[b] \in Nat
      /\ UNCHANGED <<stage, loaded, exported, handed, lost, undef>>
  BY DEF IInv, TypeOK, Released, OthersSame, PutFile, Live, Fput
<1>4. fcount[b] + handed[b] = few + 1 /\ exported = b
  BY <1>2, <1>3 DEF IInv, CountsShort, PointerInv, Live
<1>5. /\ dying' = IF fcount'[b] = 0 THEN dying \cup {b} ELSE dying
      /\ fcount'[b] = 0 => closer'[b] # None
      /\ \A c \in Buffers \ {b} : closer'[c] = closer[c]
  <2>1. PICK t \in Threads : Fput(t, b)
    BY DEF Released
  <2> QED
    BY <1>3, <2>1, LastPut DEF Fput, IInv
<1>6. /\ loaded
      /\ stage \in {2, 3, 5} => fcount'[b] > 0
  <2>1. loaded
    BY <1>4, NoneAssumption DEF IInv, PointerInv
  <2> QED
    BY <1>1, <1>3, <1>4, <2>1 DEF IInv, PointerInv
<1>7. CountsShort'
  <2>1. fcount'[b] + handed'[b] = few' + 1
    BY <1>1, <1>3, <1>4
  <2> QED
    BY <1>3, <2>1 DEF IInv, CountsShort, Live
<1>8. LostInv'
  <2>1. \A c \in lost : c \in Buffers \ {b}
    BY <1>2 DEF IInv, TypeOK
  <2> QED
    BY <1>3, <1>4, <2>1 DEF IInv, LostInv
<1>9. PointerInv'
  BY <1>3, <1>4, <1>5, <1>6 DEF IInv, PointerInv, Live
<1>11. DyingInv'
  <2>1. fcount'[b] = 0 => stage \in {4, 6, 7, 8}
    BY <1>6, StageAssumption DEF IInv, TypeOK
  <2>2. dying \subseteq Buffers \ {b}
    BY <1>3 DEF IInv, TypeOK, DyingInv, Live
  <2> QED
    BY <1>3, <1>4, <1>5, <2>1, <2>2 DEF IInv, DyingInv, HandsOutFds, Live
<1>10. LeftOver'
  <2>1. fcount'[b] = 0 /\ Referrers(b)' # {} => handed'[b] > 1
    BY <1>1, <1>3, <1>4
  <2> QED
    BY <1>3, <2>1 DEF IInv, LeftOver, Live
<1> QED
  BY <1>7, <1>8, <1>9, <1>10, <1>11

(* A new buffer for the module: before, no buffer but lost ones is live. *)
LEMMA LoadStep ==
  ASSUME IInv, AllSame, Defined, NEW b \in Buffers, exporter_alloc_page(b),
         stage' = stage, dying' = dying,
         \/ exported' = b /\ loaded' /\ lost' = lost
         \/ exported' = exported /\ loaded' = loaded /\ lost' = lost \cup {b}
  PROVE  (CountsShort /\ LostInv /\ PointerInv /\ DyingInv /\ LeftOver)'
<1>1. /\ \A c \in Buffers \ {b} : fcount'[c] = fcount[c] /\ handed'[c] = handed[c]
      /\ \A c \in Buffers : Referrers(c)' = Referrers(c)
      /\ fcount'[b] = 1 /\ handed'[b] = 0
      /\ fcount[b] = 0 /\ Referrers(b) = {} /\ ~loaded
  BY DEF IInv, TypeOK, AllSame, exporter_alloc_page, Unused
<1>2. /\ exported = None /\ b \notin lost /\ lost \subseteq Buffers
      /\ \A c \in Buffers : c \in lost \/ ~Live(c)
      /\ dying = {}
  BY <1>1, NoneAssumption DEF IInv, TypeOK, PointerInv, LostInv, DyingInv
<1>3. CountsShort'
  <2>1. \A c \in Buffers : Live(c)' /\ c \notin lost' => c = b
    BY <1>1, <1>2 DEF Live
  <2>2. fcount'[b] + handed'[b] = Cardinality(Referrers(b))' + 1
    BY <1>1, FS_EmptySet
  <2> QED
    BY <2>1, <2>2 DEF CountsShort
<1>4. LostInv'
  BY <1>1, <1>2, NoneAssumption DEF IInv, LostInv
<1>5. PointerInv'
  BY <1>1, <1>2, NoneAssumption DEF IInv, PointerInv, Live
<1>6. LeftOver'
  BY <1>1 DEF IInv, LeftOver, Live
<1>7. DyingInv'
  BY <1>2 DEF DyingInv
<1> QED
  BY <1>3, <1>4, <1>5, <1>6, <1>7

(* Counts, pointer and referrers stay as they are. *)
LEMMA QuietKept ==
  ASSUME IInv, AllSame, UNCHANGED <<fcount, stage, handed, lost>>
  PROVE  /\ CountsShort' /\ LeftOver'
         /\ \/ exported' = exported
            \/ exported' = None
            => LostInv'
<1>1. lost \subseteq Buffers
  BY DEF IInv, TypeOK
<1>2. CountsShort' /\ LeftOver'
  BY DEF IInv, CountsShort, LeftOver, Live, AllSame
<1>3. ASSUME exported' = exported \/ exported' = None
      PROVE  LostInv'
  BY <1>1, <1>3, NoneAssumption DEF IInv, LostInv, AllSame
<1> QED
  BY <1>2, <1>3

LEMMA ModuleStepKept ==
  ASSUME IInv, ModuleStep
  PROVE  (CountsShort /\ LostInv /\ PointerInv /\ DyingInv /\ LeftOver)'
<1>1. CASE exporter_init \/ ExporterInitFails
  BY <1>1, LoadStep DEF ModuleStep, exporter_init, ExporterInitFails
<1>2. CASE exporter_exit
  <2>1. /\ UNCHANGED <<fcount, stage, handed, dying, lost>> /\ exported' = None /\ ~loaded'
        /\ dying = {}
    BY <1>2 DEF exporter_exit, dmaBufVars
  <2>2. PointerInv' /\ DyingInv'
    BY <1>2, <2>1 DEF exporter_exit, PointerInv, DyingInv, Live
  <2> QED
    BY <2>1, <2>2, QuietKept DEF ModuleStep
<1>3. CASE HolderUses \/ IoctlUses \/ ModuleUses
  <2>1. UNCHANGED <<fcount, stage, handed, dying, closer, lost, loaded, exported>>
    BY <1>3 DEF HolderUses, IoctlUses, ModuleUses, Undefined, dmaBufVars
  <2>2. PointerInv' /\ DyingInv'
    BY <2>1 DEF IInv, PointerInv, DyingInv, Live, HandsOutFds
  <2> QED
    BY <2>1, <2>2, QuietKept DEF ModuleStep
<1>4. ASSUME NEW b \in Buffers, exporter_release(b)
      PROVE  (CountsShort /\ LostInv /\ PointerInv /\ DyingInv /\ LeftOver)'
  <2>1. /\ UNCHANGED <<fcount, stage, handed, closer, lost, loaded>>
        /\ exported' = IF stage \in 4..7 THEN None ELSE exported
        /\ b \in dying /\ dying' = dying \ {b}
    BY <1>4 DEF exporter_release, dmaBufVars, ClearsPointer
  <2>2. b = exported /\ ~Live(b) /\ stage \in {4, 6, 7, 8} /\ dying = {b}
    BY <2>1 DEF IInv, DyingInv, HandsOutFds
  <2>3. PointerInv'
    BY <2>1, <2>2 DEF IInv, PointerInv, LostInv, Live
  <2>4. DyingInv'
    BY <2>1, <2>2 DEF DyingInv
  <2> QED
    BY <2>1, <2>3, <2>4, QuietKept DEF ModuleStep
<1> QED
  BY <1>1, <1>2, <1>3, <1>4 DEF ModuleStep

-----------------------------------------------------------------------------
(* Races with the last put.                                                *)

(* Nobody new works without a reference and no buffer dies. *)
LEMMA RacedKept ==
  ASSUME IInv, stage' = stage,
         \A t \in Threads : pc'[t] = "ioctl" => pc[t] = "ioctl" /\ buf'[t] = buf[t],
         \A t \in borrowed' : t \in borrowed /\ buf'[t] = buf[t],
         \A b \in Buffers : ~Live(b)' => ~Live(b) /\ closer'[b] = closer[b]
  PROVE  Raced'
<1>1. ASSUME NEW t \in Threads, pc'[t] = "ioctl", ~Live(buf[t])'
      PROVE  stage' = 8 \/ ClosedByOther(t)'
  <2>1. pc[t] = "ioctl" /\ buf'[t] = buf[t] /\ buf[t] \in Buffers
    BY <1>1 DEF IInv, Control
  <2> QED
    BY <1>1, <2>1 DEF IInv, Raced, ClosedByOther, Live
<1>2. ASSUME NEW t \in borrowed', ~Live(buf[t])'
      PROVE  stage' = 7 /\ ClosedByOther(t)'
  <2>1. t \in borrowed /\ buf'[t] = buf[t] /\ buf[t] \in Buffers
    BY <1>2 DEF IInv, TypeOK, Control, ImporterStates
  <2> QED
    BY <1>2, <2>1 DEF IInv, Raced, ClosedByOther, Live
<1> QED
  BY <1>1, <1>2 DEF Raced

(* A thread with a reference drops it. *)
LEMMA RacedDrop ==
  ASSUME IInv, DyingInv', NEW t \in Threads, NEW b \in Buffers,
         pc[t] # "ioctl", t \notin borrowed, pc'[t] # "ioctl", borrowed' = borrowed,
         \A u \in Threads \ {t} : pc'[u] = pc[u] /\ buf'[u] = buf[u],
         PutFile(b), Fput(t, b)
  PROVE  Raced'
<1>1. /\ \A c \in Buffers \ {b} : fcount'[c] = fcount[c] /\ closer'[c] = closer[c]
      /\ fcount[b] = 1 => closer'[b] = t /\ b \in dying'
      /\ fcount[b] # 1 => closer'[b] = closer[b] /\ (~Live(b)' => ~Live(b))
      /\ stage' = stage
  BY DEF IInv, TypeOK, PutFile, Fput, Live
<1>2. fcount[b] = 1 => stage \in {4, 6, 7, 8}
  BY <1>1 DEF DyingInv, HandsOutFds
<1>3. ASSUME NEW u \in Threads \ {t}, buf[u] \in Buffers, ~Live(buf[u])'
      PROVE  (~Live(buf[u]) /\ closer'[buf[u]] = closer[buf[u]])
               \/ (ClosedByOther(u)' /\ stage \in {4, 6, 7, 8})
  <2>1. buf'[u] = buf[u]
    OBVIOUS
  <2> QED
    BY <1>1, <1>2, <1>3, <2>1, NoneAssumption DEF Live, ClosedByOther
<1>4. ASSUME NEW u \in Threads, pc'[u] = "ioctl", ~Live(buf[u])'
      PROVE  stage' = 8 \/ ClosedByOther(u)'
  <2>1. u # t /\ pc[u] = "ioctl" /\ buf'[u] = buf[u] /\ buf[u] \in Buffers
    BY <1>4 DEF IInv, Control
  <2> QED
    BY <1>1, <1>3, <1>4, <2>1 DEF IInv, Raced, ClosedByOther
<1>5. ASSUME NEW u \in borrowed', ~Live(buf[u])'
      PROVE  stage' = 7 /\ ClosedByOther(u)'
  <2>1. u \in Threads \ {t} /\ u \in borrowed /\ buf'[u] = buf[u] /\ buf[u] \in Buffers
    BY <1>5 DEF IInv, TypeOK, Control, ImporterStates
  <2>2. stage \in {2, 3, 7}
    BY <2>1 DEF IInv, Control, SymbolImporter
  <2> QED
    BY <1>1, <1>3, <1>5, <2>1, <2>2 DEF IInv, Raced, ClosedByOther
<1> QED
  BY <1>4, <1>5 DEF Raced

(* A thread reads the exporter's pointer: if its release is pending it is  *)
(* another thread's, as this one has returned from its calls.              *)
LEMMA RacedEnter ==
  ASSUME IInv, NEW t \in Threads, Ready(t), exported # None, loaded,
         buf' = [buf EXCEPT ![t] = exported],
         \A u \in Threads \ {t} : pc'[u] = pc[u] /\ (u \in borrowed' => u \in borrowed),
         \/ HandsOutFds /\ borrowed' = borrowed
         \/ SymbolImporter /\ pc'[t] # "ioctl",
         borrowed' \subseteq Threads,
         UNCHANGED <<fcount, closer, stage>>
  PROVE  Raced'
<1>1. pc[t] = "user" /\ t \notin borrowed
  BY DEF Ready, InUser, IInv, Control, ImporterStates
<1>2. /\ \A u \in Threads : buf'[u] = IF u = t THEN exported ELSE buf[u]
      /\ exported \in Buffers
  BY DEF IInv, TypeOK
<1>3. ~Live(exported) => stage = 8 \/ (HandsOutFds /\ ClosedByOther(t)')
  <2>1. ~Live(exported) /\ stage # 8 => exported \in dying
    BY DEF IInv, PointerInv
  <2> QED
    BY <1>2, <2>1 DEF IInv, DyingInv, Ready, ClosedByOther
<1>4. ASSUME NEW u \in Threads, pc'[u] = "ioctl", ~Live(buf[u])'
      PROVE  stage' = 8 \/ ClosedByOther(u)'
  <2>1. CASE u = t
    BY <1>2, <1>3, <1>4, <2>1 DEF Live
  <2>2. CASE u # t
    BY <1>2, <1>4, <2>2 DEF IInv, Raced, ClosedByOther, Live
  <2> QED
    BY <2>1, <2>2
<1>5. ASSUME NEW u \in borrowed', ~Live(buf[u])'
      PROVE  stage' = 7 /\ ClosedByOther(u)'
  <2>1. CASE u = t
    <3>1. stage \in {2, 3, 7}
      BY <1>1, <1>5, <2>1 DEF SymbolImporter
    <3> QED
      BY <1>2, <1>3, <1>5, <2>1, <3>1 DEF Live, HandsOutFds
  <2>2. CASE u # t
    BY <1>2, <1>5, <2>2 DEF IInv, Raced, ClosedByOther, Live
  <2> QED
    BY <2>1, <2>2
<1> QED
  BY <1>4, <1>5 DEF Raced

LEMMA RacedStep ==
  ASSUME IInv, TypeOK', DyingInv', [Next]_vars
  PROVE  Raced'
<1> TypeOK /\ Control
  BY DEF IInv
<1>1. CASE exporter_init \/ ExporterInitFails \/ exporter_exit
  <2>1. ASSUME NEW b \in Buffers, exporter_alloc_page(b)
        PROVE  \A c \in Buffers : ~Live(c)' => ~Live(c) /\ closer'[c] = closer[c]
    BY <2>1 DEF exporter_alloc_page, TypeOK, Live
  <2> QED
    BY <1>1, <2>1, RacedKept DEF exporter_init, ExporterInitFails, exporter_exit, dmaBufVars, Live
<1>2. ASSUME NEW t \in Threads, NEW f \in Fds, DropFd(t, f), pc[t] \in {"user", "oops"}
      PROVE  Raced'
  <2>1. /\ fdt[f] \in Buffers /\ PutFile(fdt[f]) /\ Fput(t, fdt[f])
        /\ t \notin borrowed /\ UNCHANGED <<pc, buf, borrowed>>
    BY <1>2 DEF DropFd, CloseFd, TypeOK, Control, ImporterStates, SymbolImporter
  <2> QED
    BY <1>2, <2>1, RacedDrop
<1>3. ASSUME NEW t \in Threads, NEW v \in Vmas, DropVma(t, v), pc[t] \in {"user", "oops"}
      PROVE  Raced'
  <2>1. /\ vma[v] \in Buffers /\ PutFile(vma[v]) /\ Fput(t, vma[v])
        /\ t \notin borrowed /\ UNCHANGED <<pc, buf, borrowed>>
    BY <1>3 DEF DropVma, UnmapVma, TypeOK, Control, ImporterStates, SymbolImporter
  <2> QED
    BY <1>3, <2>1, RacedDrop
<1>4. ASSUME NEW t \in Threads, UserStep(t)
      PROVE  Raced'
  <2>1. CASE exporter_ioctl(t)
    BY <2>1, RacedEnter DEF exporter_ioctl, exporterVars, TypeOK
  <2>2. CASE importer_init(t)
    <3>1. pc' = [pc EXCEPT ![t] = "test1"] \/ pc' = [pc EXCEPT ![t] = "test2"]
      BY <2>2 DEF importer_init
    <3> QED
      BY <2>2, <3>1, RacedEnter DEF importer_init, TypeOK
  <2>3. ASSUME \/ DmaBufFdFails(t)
               \/ \E f \in Fds : dma_buf_fd(t, f)
        PROVE  Raced'
    <3>1. /\ pc[t] = "ioctl" /\ t \notin borrowed
          /\ \A u \in Threads \ {t} : pc'[u] = pc[u] /\ buf'[u] = buf[u]
          /\ pc'[t] = "user" /\ UNCHANGED <<fcount, stage, borrowed, closer>>
      BY <2>3 DEF DmaBufFdFails, dma_buf_fd, Goto, exporterVars, TypeOK, Control, ImporterStates
    <3> QED
      BY <3>1, RacedKept DEF Live, TypeOK
  <2>4. ASSUME NEW f \in Fds, Import(t, f) \/ SyncKilled(t, f)
        PROVE  Raced'
    <3>1. /\ pc[t] = "user" /\ t \notin borrowed
          /\ \A u \in Threads \ {t} : pc'[u] = pc[u] /\ buf'[u] = buf[u]
          /\ pc'[t] # "ioctl" /\ UNCHANGED <<stage, borrowed, closer>>
          /\ \A b \in Buffers : ~Live(b)' => ~Live(b)
      BY <2>4
      DEF Import, ImporterIoctl, SyncKilled, GetFile, Live, Ready, InUser, exporterVars, TypeOK,
          Control, ImporterStates
    <3> QED
      BY <3>1, RacedKept DEF TypeOK
  <2>5. ASSUME \/ \E v \in Vmas : exporter_misc_mmap(t, v)
               \/ \E f \in Fds, v \in Vmas : Mmap(t, f, v)
        PROVE  Raced'
    <3>1. /\ UNCHANGED <<pc, buf, stage, borrowed, closer>>
          /\ \A b \in Buffers : ~Live(b)' => ~Live(b)
      BY <2>5 DEF exporter_misc_mmap, Mmap, MapVma, GetFile, Live, exporterVars, TypeOK
    <3> QED
      BY <3>1, RacedKept
  <2> QED
    BY <1>2, <1>3, <1>4, <2>1, <2>2, <2>3, <2>4, <2>5 DEF UserStep, Ready, InUser
<1>5. ASSUME NEW t \in Threads, TestStep(t)
      PROVE  Raced'
  <2>1. PICK to \in ImporterStates \cup {"oops"} : pc' = [pc EXCEPT ![t] = to]
    BY <1>5, TestMoves
  <2>2. \A u \in Threads : pc'[u] = "ioctl" => pc[u] = "ioctl"
    BY <2>1 DEF TypeOK, ImporterStates
  <2> QED
    BY <1>5, <2>2, TestMoves, RacedKept DEF exporterVars, Live
<1>6. ASSUME NEW t \in Threads, Put(t)
      PROVE  Raced'
  <2>1. /\ buf[t] \in Buffers /\ PutFile(buf[t]) /\ Fput(t, buf[t])
        /\ t \notin borrowed /\ pc[t] = "put" /\ pc'[t] = "user" /\ borrowed' = borrowed
        /\ \A u \in Threads \ {t} : pc'[u] = pc[u] /\ buf'[u] = buf[u]
    BY <1>6 DEF Put, ImporterPut, Goto, TypeOK, Control
  <2> QED
    BY <2>1, RacedDrop
<1>7. ASSUME NEW t \in Threads, InitReturns(t)
      PROVE  Raced'
  <2>1. /\ t \notin borrowed' /\ borrowed' \subseteq borrowed /\ pc'[t] = "user"
        /\ \A u \in Threads \ {t} : pc'[u] = pc[u] /\ buf'[u] = buf[u]
        /\ UNCHANGED <<fcount, stage, closer>>
    BY <1>7 DEF InitReturns, Goto, TypeOK
  <2> QED
    BY <2>1, RacedKept DEF Live, TypeOK
<1>8. CASE \/ HolderUses \/ IoctlUses \/ ModuleUses \/ Exit \/ Rerun \/ UNCHANGED vars
           \/ \E b \in Buffers : exporter_release(b)
  <2>1. UNCHANGED <<pc, buf, fcount, stage, borrowed, closer>>
    BY <1>8
    DEF HolderUses, IoctlUses, ModuleUses, Undefined, Exit, ExitBegin, Rerun, ExitDone,
        exporter_release, vars, dmaBufVars, exporterVars
  <2> QED
    BY <2>1, RacedKept DEF Live
<1> QED
  BY <1>1, <1>2, <1>3, <1>4, <1>5, <1>6, <1>7, <1>8 DEF Next, Reap

(* The use of a released buffer is explained by what led up to it. *)
LEMMA UndefStep ==
  ASSUME IInv, [Next]_vars
  PROVE  UndefinedOnlyIf'
<1>1. CASE UNCHANGED vars
  BY <1>1
  DEF IInv, UndefinedOnlyIf, ClosedByOther, vars, dmaBufVars, exporterVars
<1>2. CASE Next
  <2>1. Defined
    BY <1>2 DEF Next
  <2>2. ASSUME Undefined("holder") \/ Undefined("exporter_ioctl") \/ Undefined("importer_init")
        PROVE  UNCHANGED <<pc, buf, stage, handed, borrowed, closer>>
    BY <2>2 DEF Undefined, dmaBufVars
  <2>3. CASE HolderUses
    BY <2>2, <2>3 DEF HolderUses, Undefined, IInv, LeftOver, UndefinedOnlyIf
  <2>4. CASE IoctlUses
    BY <2>2, <2>4 DEF IoctlUses, Undefined, IInv, Raced, UndefinedOnlyIf, ClosedByOther
  <2>5. CASE ModuleUses
    BY <2>2, <2>5 DEF ModuleUses, Undefined, IInv, Raced, UndefinedOnlyIf, ClosedByOther
  <2>6. undef' = undef \/ HolderUses \/ IoctlUses \/ ModuleUses
    <3>1. Effect
      BY NextEffect
    <3> QED
      BY <3>1
      DEF Effect, Quiet, Acquired, HandedOut, Released, ModuleStep, Fput, countVars,
          exporter_init, ExporterInitFails, exporter_exit, exporter_release
  <2> QED
    BY <2>1, <2>3, <2>4, <2>5, <2>6 DEF Defined, UndefinedOnlyIf
<1> QED
  BY <1>1, <1>2

-----------------------------------------------------------------------------
(* Theorems.                                                               *)

(* The inductive invariant. *)
THEOREM Invariance == Spec => []IInv
<1>1. Init => IInv
  <2> SUFFICES ASSUME Init PROVE IInv
    OBVIOUS
  <2>1. TypeOK
    BY DEF Init, DmaBufInit, TypeOK
  <2>2. Control /\ LostInv /\ PointerInv /\ DyingInv /\ Raced /\ CountsShort /\ UndefinedOnlyIf
    BY NoneAssumption
    DEF Init, DmaBufInit, Control, LostInv, PointerInv, DyingInv, Raced, CountsShort,
        UndefinedOnlyIf, Live
  <2>3. \A b \in Buffers : Referrers(b) = {}
    BY NoneAssumption DEF Init, DmaBufInit, Referrers, Holders
  <2> QED
    BY <2>1, <2>2, <2>3 DEF IInv, LeftOver
<1>2. IInv /\ [Next]_vars => IInv'
  <2> SUFFICES ASSUME IInv, [Next]_vars PROVE IInv'
    OBVIOUS
  <2>1. ASSUME Quiet
        PROVE  (CountsShort /\ LostInv /\ PointerInv /\ DyingInv /\ LeftOver)'
    <3>1. PointerInv' /\ DyingInv'
      BY <2>1 DEF IInv, PointerInv, DyingInv, HandsOutFds, Live, Quiet, countVars
    <3> QED
      BY <2>1, <3>1, QuietKept DEF Quiet, countVars
  <2>2. (CountsShort /\ LostInv /\ PointerInv /\ DyingInv /\ LeftOver)'
    BY <2>1, NextEffect, AcquiredStep, HandedOutStep, ReleasedStep, ModuleStepKept DEF Effect
  <2> QED
    BY <2>2, TypeStep, ControlStep, RacedStep, UndefStep DEF IInv
<1> QED
  BY <1>1, <1>2, PTL DEF Spec

(* The types of exporter, importer and dma-buf core are kept. *)
THEOREM TypeCorrect == Spec => []TypeOK
<1>1. IInv => TypeOK
  BY DEF IInv
<1> QED
  BY <1>1, Invariance, PTL

(* Every exporter_ioctl but the first makes the count of the buffer one    *)
(* too small, and nothing else does.                                       *)
THEOREM CountsAreShort == Spec => []CountsShort
<1>1. IInv => CountsShort
  BY DEF IInv
<1> QED
  BY <1>1, Invariance, PTL

(* A released buffer is used only by a holder that got there by a second   *)
(* descriptor, by exporter_ioctl in stage 8 or in a race with the thread   *)
(* that drops the last reference, or by an importer module in such a race. *)
THEOREM UndefinedIsExplained == Spec => []UndefinedOnlyIf
<1>1. IInv => UndefinedOnlyIf
  BY DEF IInv
<1> QED
  BY <1>1, Invariance, PTL

(* Where no descriptor is handed out the buffer is kept for good. *)
THEOREM BufferIsKept == Spec => KeptForGood
<1>1. IInv /\ IInv' /\ [Next]_vars =>
        [(stage \in {2, 3, 5} /\ loaded) =>
           loaded' /\ exported' = exported /\ fcount'[exported] > 0]_vars
  <2> SUFFICES ASSUME IInv, IInv', [Next]_vars, stage \in {2, 3, 5}, loaded
               PROVE  loaded' /\ exported' = exported /\ fcount'[exported] > 0
    OBVIOUS
  <2>1. exported \in Buffers /\ fcount[exported] > 0 /\ exported \notin lost
    BY DEF IInv, TypeOK, PointerInv, DyingInv, LostInv, HandsOutFds, Live
  <2>2. stage' = stage /\ loaded'
    <3>1. ASSUME exporter_exit PROVE FALSE
      BY <2>1, <3>1 DEF exporter_exit, Live
    <3>2. stage' = stage /\ (loaded' \/ exporter_exit)
      BY NextEffect DEF Effect, Quiet, Acquired, HandedOut, Released, ModuleStep, countVars,
        Fput, exporter_release, exporter_init, ExporterInitFails, exporter_exit, HolderUses,
      IoctlUses,
        ModuleUses, Undefined, exporter_alloc_page
    <3> QED
      BY <3>1, <3>2
  <2>3. exported' \in Buffers /\ fcount'[exported'] > 0
    BY <2>2 DEF IInv, TypeOK, PointerInv, DyingInv, HandsOutFds, Live
  <2>4. exported' = exported \/ exported' = None
    BY NextEffect DEF Effect, Quiet, Acquired, HandedOut, Released, ModuleStep, countVars,
      Fput, exporter_release, exporter_init, ExporterInitFails, exporter_exit, HolderUses,
      IoctlUses,
      ModuleUses, Undefined, exporter_alloc_page
  <2> QED
    BY <2>2, <2>3, <2>4, NoneAssumption
<1> QED
  BY <1>1, Invariance, PTL DEF Spec, KeptForGood

=============================================================================
