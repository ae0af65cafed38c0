------------------------------- MODULE DmaBuf -------------------------------
(***************************************************************************)
(* The part of the Linux dma-buf core and of the file layer that the       *)
(* drivers of dma-buf/ rely on: the reference count of the file behind a   *)
(* dma_buf, the descriptors and mappings of one multi-threaded process,    *)
(* the list of attachments, and the position of each thread inside the     *)
(* driver call it makes.  None of this code is in the repository; it is    *)
(* modelled from the calls the drivers and the test programs make.         *)
(*                                                                         *)
(* The sub-actions below speak of the dma-buf core only.  A module that    *)
(* composes them with an exporter conjoins what its callbacks do.          *)
(***************************************************************************)
EXTENDS Naturals, FiniteSets

CONSTANTS
  Threads,   \* threads of the process that uses the devices
  Fds,       \* its descriptor table
  Vmas,      \* its memory mappings
  Buffers,   \* identities of dma_buf objects
  None

VARIABLES
  pc,          \* pc[t]: where thread t is inside a driver call, or "user"
  buf,         \* buf[t]: the dma_buf the call of t works on
  fcount,      \* fcount[b]: references to the file of b; 0 when there is none
  fdt,         \* fdt[f]: the buffer descriptor f refers to
  vma,         \* vma[v]: the buffer mapping v shows
  attachments, \* attachments[b]: threads with an entry in dmabuf->attachments
  lost,        \* buffers with a reference that nobody is left to drop
  exiting      \* the process has called exit and is being torn down

dmaBufVars == <<pc, buf, fcount, fdt, vma, attachments, lost, exiting>>

(* A holder of a reference is a member of exactly one of these sets. *)
ASSUME HolderAssumption ==
  /\ IsFiniteSet(Threads) /\ IsFiniteSet(Fds) /\ IsFiniteSet(Vmas)
  /\ Threads \cap Fds = {} /\ Threads \cap Vmas = {} /\ Threads \cap Buffers = {}
  /\ Fds \cap Vmas = {} /\ Fds \cap Buffers = {} /\ Vmas \cap Buffers = {}

ASSUME NoneAssumption == None \notin Buffers \cup Fds \cup Threads

(* Positions inside importer_ioctl: the thread holds a reference. *)
ImporterStates ==
  {"test1", "kmapped", "vmapped", "test2", "attached", "mapped", "unmapped", "put"}

(* Positions inside ion_ioctl. *)
IonStates == {"ion_alloc", "alloc_failed", "dma_buf_fd", "copy_to_user", "ioctl_ok"}

(* "oops": the kernel killed the thread inside the call. *)
States == {"user", "oops"} \cup IonStates \cup ImporterStates

(* Positions in which buf[t], unless None, is backed by a reference of t. *)
RefStates == ImporterStates \cup {"dma_buf_fd", "oops"}

(***************************************************************************)
(* Everything that holds a reference to the file of b: descriptors,        *)
(* mappings, threads inside a call, and b itself when a reference to it    *)
(* was dropped on the floor.                                               *)
(***************************************************************************)
Holders(b) ==
  {f \in Fds : fdt[f] = b}
    \cup {v \in Vmas : vma[v] = b}
    \cup {t \in Threads : buf[t] = b /\ pc[t] \in RefStates}
    \cup {c \in {b} : c \in lost}

DmaBufInit ==
  /\ pc = [t \in Threads |-> "user"]
  /\ buf = [t \in Threads |-> None]
  /\ fcount = [b \in Buffers |-> 0]
  /\ fdt = [f \in Fds |-> None]
  /\ vma = [v \in Vmas |-> None]
  /\ attachments = [b \in Buffers |-> {}]
  /\ lost = {}
  /\ exiting = FALSE

-----------------------------------------------------------------------------

Goto(t, from, to) == pc[t] = from /\ pc' = [pc EXCEPT ![t] = to]

(* Thread t runs user code and may make a system call. *)
InUser(t) == pc[t] = "user" /\ ~exiting

GetFile(b) == fcount' = [fcount EXCEPT ![b] = @ + 1]
PutFile(b) == fcount' = [fcount EXCEPT ![b] = @ - 1]

(* close(f): the descriptor goes, and its reference with it. *)
CloseFd(f) ==
  /\ fdt[f] # None
  /\ fdt' = [fdt EXCEPT ![f] = None]
  /\ PutFile(fdt[f])
  /\ UNCHANGED <<pc, buf, vma, attachments, lost, exiting>>

(* mmap(f): the new mapping holds a reference of its own. *)
MapVma(f, v) ==
  /\ fdt[f] # None /\ vma[v] = None
  /\ vma' = [vma EXCEPT ![v] = fdt[f]]
  /\ GetFile(fdt[f])
  /\ UNCHANGED <<pc, buf, fdt, attachments, lost, exiting>>

UnmapVma(v) ==
  /\ vma[v] # None
  /\ vma' = [vma EXCEPT ![v] = None]
  /\ PutFile(vma[v])
  /\ UNCHANGED <<pc, buf, fdt, attachments, lost, exiting>>

(***************************************************************************)
(* exit: no thread of the process is inside a call any more (a thread the  *)
(* kernel killed never leaves its call); the mappings and descriptors are  *)
(* then dropped one by one, and the program may be run again.              *)
(***************************************************************************)
ExitBegin ==
  /\ ~exiting
  /\ \A t \in Threads : pc[t] \in {"user", "oops"}
  /\ exiting' = TRUE
  /\ UNCHANGED <<pc, buf, fcount, fdt, vma, attachments, lost>>

ExitDone ==
  /\ exiting
  /\ \A f \in Fds : fdt[f] = None
  /\ \A v \in Vmas : vma[v] = None
  /\ exiting' = FALSE
  /\ UNCHANGED <<pc, buf, fcount, fdt, vma, attachments, lost>>

=============================================================================
