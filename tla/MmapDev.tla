------------------------------ MODULE MmapDev -------------------------------
(***************************************************************************)
(* The four drivers mmap/mmap1.c to mmap/mmap4.c behind /dev/my_dev and    *)
(* what the memory management does around their handlers.  mmap1 maps its  *)
(* pages in my_mmap, the others one page at a time in my_fault:            *)
(*   mmap2  inserts a page of the block kaddr                              *)
(*   mmap3  inserts pages[pgoff], which it allocates at the first fault    *)
(*   mmap4  returns a page of kaddr with a reference                       *)
(* No driver has an exit function: its pages are never given back.         *)
(* A fault holds mmap_sem of the process for reading: threads of one       *)
(* process fault at the same time, but munmap waits for them.              *)
(***************************************************************************)
EXTENDS Naturals, FiniteSets, Functions

CONSTANTS
  Threads,
  Procs,     \* the processes
  ProcOf,    \* ProcOf[t]: the process thread t belongs to
  Pages,
  N,         \* pages in the device: 3 in the code
  Drivers,   \* the drivers considered
  None

ASSUME ThreadAssumption == ProcOf \in [Threads -> Procs]
ASSUME FiniteAssumption == IsFiniteSet(Threads) /\ IsFiniteSet(Procs)
ASSUME NoneAssumption == None \notin Pages
ASSUME SlotAssumption == N \in Nat \ {0} /\ IsFiniteSet(Pages) /\ Cardinality(Pages) >= N
ASSUME DriverAssumption == Drivers \subseteq {"mmap1", "mmap2", "mmap3", "mmap4"}

Slots == 0 .. N - 1
Contents == {"old", "zero", "test"}

VARIABLES
  driver,
  shortage, \* allocations may fail: of a page, or of a page table
  pages,   \* pages[i]: the driver's page i: in kaddr, or in the array pages
  allocs,  \* allocs[i]: every page the driver has ever allocated as page i
  count,   \* page_count
  content, \* what a page contains
  mapped,  \* mapped[p]: process p has the device mapped
  pte,     \* pte[p][i]: the page at offset i of its mapping
  fault,   \* fault[t]: progress of the fault of thread t
  at,      \* at[t]: vmf->pgoff, 0 outside of a fault
  seen,    \* seen[t]: what thread t has read or stored as pages[pgoff]
  killed   \* processes that got SIGBUS

driverVars == <<driver, shortage, pages, allocs>>
mmVars == <<mapped, pte>>
devVars == <<driverVars, count, content, mmVars, fault, at, seen, killed>>

FaultStates == {"no", "check", "alloc", "insert", "get", "finish", "oops"}
InFault == {"check", "alloc", "insert", "get", "finish"}

(* Whether process p runs code of its own. *)
Alive(p) == p \notin killed
Running(t) == fault[t] = "no" /\ Alive(ProcOf[t])

(* The pages of the block at kaddr. *)
kaddr == CHOOSE block \in Injection(Slots, Pages) : TRUE

(* my_init.  kzalloc clears the block; mmap3 allocates nothing yet. *)
DevInit ==
  /\ driver \in Drivers
  /\ shortage \in BOOLEAN /\ (shortage => driver \in {"mmap2", "mmap3"})
  /\ IF driver = "mmap3"
     THEN /\ pages = [i \in Slots |-> None]
          /\ allocs = [i \in Slots |-> {}]
          /\ count = [pg \in Pages |-> 0]
          /\ content = [pg \in Pages |-> "old"]
     ELSE /\ pages = kaddr
          /\ allocs = [i \in Slots |-> {kaddr[i]}]
          /\ count = [pg \in Pages |-> IF \E i \in Slots : kaddr[i] = pg THEN 1 ELSE 0]
          /\ content = [pg \in Pages |-> IF count[pg] = 1 THEN "zero" ELSE "old"]
  /\ mapped = [p \in Procs |-> FALSE]
  /\ pte = [p \in Procs |-> [i \in Slots |-> None]]
  /\ fault = [t \in Threads |-> "no"]
  /\ at = [t \in Threads |-> 0]
  /\ seen = [t \in Threads |-> None]
  /\ killed = {}

-----------------------------------------------------------------------------
(* mmap and munmap.                                                        *)

my_mmap(p) ==
  /\ ~mapped[p]
  /\ mapped' = [mapped EXCEPT ![p] = TRUE]
  /\ pte' = IF driver = "mmap1" THEN [pte EXCEPT ![p] = pages] ELSE pte
  /\ UNCHANGED <<driverVars, count, content, fault, at, seen, killed>>

(* The mapping of mmap1 has no page references. *)
Counted == driver # "mmap1"
Mappings(pg) == {m \in Procs \X Slots : pte[m[1]][m[2]] = pg}

(* The mapping of p goes, with its page references. *)
Zap(p) ==
  /\ \A t \in Threads : ProcOf[t] = p => fault[t] \notin InFault
  /\ mapped' = [mapped EXCEPT ![p] = FALSE]
  /\ pte' = [pte EXCEPT ![p] = [i \in Slots |-> None]]
  /\ count' = IF Counted
              THEN [pg \in Pages |->
                     count[pg] - Cardinality({i \in Slots : pte[p][i] = pg})]
              ELSE count
  /\ UNCHANGED <<driverVars, content>>

(* A thread that died in a fault has left mmap_sem locked. *)
Munmap(p) ==
  /\ mapped[p]
  /\ \A t \in Threads : ProcOf[t] = p => fault[t] # "oops"
  /\ Zap(p)
  /\ UNCHANGED <<fault, at, seen, killed>>

-----------------------------------------------------------------------------
(* Faults.                                                                 *)

FirstStep == [mmap1 |-> "no", mmap2 |-> "insert", mmap3 |-> "check", mmap4 |-> "get"]

(* Thread t accesses offset i, where nothing is mapped yet. *)
FaultBegins(t, i) ==
  /\ Running(t)
  /\ mapped[ProcOf[t]] /\ pte[ProcOf[t]][i] = None
  /\ fault' = [fault EXCEPT ![t] = FirstStep[driver]]
  /\ at' = [at EXCEPT ![t] = i]
  /\ UNCHANGED <<driverVars, count, content, mmVars, seen, killed>>

Step(t, from, to) ==
  /\ fault[t] = from
  /\ fault' = [fault EXCEPT ![t] = to]
  /\ at' = [at EXCEPT ![t] = IF to \in InFault THEN @ ELSE 0]
  /\ UNCHANGED <<driver, shortage, mapped>>

(* Mutant: the test for NULL is missing. *)
AlwaysAlloc(t) ==
  /\ Step(t, "check", "alloc")
  /\ UNCHANGED <<pages, allocs, count, content, pte, seen, killed>>

(* mmap3: the test for NULL ... *)
my_fault_check(t) ==
  /\ Step(t, "check", IF pages[at[t]] = None THEN "alloc" ELSE "insert")
  /\ seen' = [seen EXCEPT ![t] = pages[at[t]]]
  /\ UNCHANGED <<pages, allocs, count, content, pte, killed>>

(* ... and the allocation, of a page that is not cleared. *)
my_fault_alloc(t) ==
  /\ Step(t, "alloc", "insert")
  /\ \E pg \in Pages : count[pg] = 0
  /\ LET pg == CHOOSE q \in Pages : count[q] = 0 IN \* no free page is special
       /\ count' = [count EXCEPT ![pg] = 1]
       /\ content' = [content EXCEPT ![pg] = "old"]
       /\ pages' = [pages EXCEPT ![at[t]] = pg]
       /\ allocs' = [allocs EXCEPT ![at[t]] = @ \cup {pg}]
       /\ seen' = [seen EXCEPT ![t] = pg]
  /\ UNCHANGED <<pte, killed>>

(* alloc_page returns NULL, which is stored. *)
my_fault_alloc_fails(t) ==
  /\ shortage \/ \A pg \in Pages : count[pg] > 0
  /\ Step(t, "alloc", "insert")
  /\ pages' = [pages EXCEPT ![at[t]] = None]
  /\ UNCHANGED <<allocs, count, content, pte, seen, killed>>

(* The third access to pages[pgoff] races with the stores of other faults: *)
(* the compiler may read the array again or use the value it has.  The     *)
(* pages of kaddr never change.                                            *)
Candidates(t) ==
  {pages[at[t]]} \cup (IF driver = "mmap3" THEN {seen[t]} ELSE {})

Insert(t, pg) ==
  /\ pte' = [pte EXCEPT ![ProcOf[t]][at[t]] = pg]
  /\ count' = [count EXCEPT ![pg] = @ + 1]

Present(t) == pte[ProcOf[t]][at[t]] # None

(* Mutant: VM_FAULT_NOPAGE although nothing was inserted. *)
NopageWithoutInsert(t) ==
  /\ Step(t, "insert", "no")
  /\ seen' = [seen EXCEPT ![t] = None]
  /\ UNCHANGED <<pages, allocs, count, content, pte, killed>>

(* Mutant: the test of ret is the wrong way round. *)
InvertedTest(t) ==
  /\ Step(t, "insert", "no")
  /\ seen' = [seen EXCEPT ![t] = None]
  /\ \E pg \in Candidates(t) \ {None} :
       \/ ~Present(t) /\ Insert(t, pg) /\ killed' = killed \cup {ProcOf[t]}
       \/ Present(t) /\ UNCHANGED <<pte, count, killed>>
  /\ UNCHANGED <<pages, allocs, content>>

(* Mutant: the page is cleared whenever it is inserted. *)
InsertClears(t) ==
  /\ Step(t, "insert", "no")
  /\ seen' = [seen EXCEPT ![t] = None]
  /\ \E pg \in Candidates(t) \ {None} :
       /\ ~Present(t) /\ Insert(t, pg) /\ UNCHANGED killed
       /\ content' = [content EXCEPT ![pg] = "zero"]
  /\ UNCHANGED <<pages, allocs>>

(* mmap2 and mmap3: vm_insert_page takes a reference.  It fails when       *)
(* another thread has inserted a page meanwhile (EBUSY), or when there is  *)
(* no memory for the page table (ENOMEM): SIGBUS in either case.           *)
my_fault_insert(t) ==
  /\ Step(t, "insert", "no")
  /\ seen' = [seen EXCEPT ![t] = None]
  /\ \E pg \in Candidates(t) \ {None} :
       \/ ~Present(t) /\ Insert(t, pg) /\ UNCHANGED killed
       \/ /\ Present(t) \/ shortage
          /\ killed' = killed \cup {ProcOf[t]} /\ UNCHANGED <<pte, count>>
  /\ UNCHANGED <<pages, allocs, content>>

(* mmap3: vm_insert_page of NULL kills the thread inside the kernel. *)
my_fault_insert_null(t) ==
  /\ None \in Candidates(t)
  /\ Step(t, "insert", "oops")
  /\ seen' = [seen EXCEPT ![t] = None]
  /\ UNCHANGED <<pages, allocs, count, content, pte, killed>>

(* Mutant: get_page is missing. *)
FaultWithoutReference(t) ==
  /\ Step(t, "get", "finish")
  /\ UNCHANGED <<pages, allocs, count, content, pte, seen, killed>>

(* mmap4: get_page ... *)
my_fault_get(t) ==
  /\ Step(t, "get", "finish")
  /\ count' = [count EXCEPT ![pages[at[t]]] = @ + 1]
  /\ UNCHANGED <<pages, allocs, content, pte, seen, killed>>

(* ... then finish_fault hands the reference to the mapping, or drops it   *)
(* when another thread was faster.                                         *)
finish_fault(t) ==
  /\ Step(t, "finish", "no")
  /\ IF Present(t)
     THEN count' = [count EXCEPT ![pages[at[t]]] = @ - 1] /\ UNCHANGED pte
     ELSE pte' = [pte EXCEPT ![ProcOf[t]][at[t]] = pages[at[t]]] /\ UNCHANGED count
  /\ UNCHANGED <<pages, allocs, content, seen, killed>>

my_fault(t) ==
  \/ my_fault_check(t)
  \/ my_fault_alloc(t)
  \/ my_fault_alloc_fails(t)
  \/ my_fault_insert(t)
  \/ my_fault_insert_null(t)
  \/ my_fault_get(t)
  \/ finish_fault(t)

(* The threads of p are gone: all after SIGBUS, or each has died in a      *)
(* fault.  With them goes the mapping.                                     *)
Reap(p) ==
  /\ p \in killed \/ \A t \in Threads : ProcOf[t] = p => fault[t] = "oops"
  /\ Zap(p)
  /\ fault' = [t \in Threads |-> IF ProcOf[t] = p THEN "no" ELSE fault[t]]
  /\ killed' = killed \ {p}
  /\ UNCHANGED <<at, seen>>

=============================================================================
