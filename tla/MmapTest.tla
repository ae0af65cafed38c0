------------------------------ MODULE MmapTest ------------------------------
(***************************************************************************)
(* Processes that run mmap/test.c on one of the drivers of MmapDev: map    *)
(* the device, write a string, unmap, map it again and read the string.    *)
(* A process may have more threads, which touch the mapping anywhere.      *)
(***************************************************************************)
EXTENDS MmapDev

VARIABLES
  pc,  \* pc[p]: position of main in process p
  got  \* got[p]: what p has read

vars == <<devVars, pc, got>>

CONSTANT MainOf  \* MainOf[p]: the thread of p that runs main

ASSUME MainAssumption ==
  /\ MainOf \in [Procs -> Threads]
  /\ \A p \in Procs : ProcOf[MainOf[p]] = p

Helpers == Threads \ {MainOf[p] : p \in Procs}
Positions == {"open", "write", "munmap1", "mmap2", "read", "munmap2", "close"}

Init ==
  /\ DevInit
  /\ pc = [p \in Procs |-> "open"]
  /\ got = [p \in Procs |-> "none"]

MainGoto(p, from, to) ==
  /\ Running(MainOf[p])
  /\ pc[p] = from /\ pc' = [pc EXCEPT ![p] = to]

Map(p) ==
  /\ MainGoto(p, "open", "write") \/ MainGoto(p, "mmap2", "read")
  /\ my_mmap(p)
  /\ UNCHANGED got

(* str is the first byte of the mapping. *)
Write(p) ==
  /\ MainGoto(p, "write", "munmap1")
  /\ pte[p][0] # None
  /\ content' = [content EXCEPT ![pte[p][0]] = "test"]
  /\ UNCHANGED <<driverVars, count, mmVars, fault, at, seen, killed, got>>

Read(p) ==
  /\ MainGoto(p, "read", "munmap2")
  /\ pte[p][0] # None
  /\ got' = [got EXCEPT ![p] = content[pte[p][0]]]
  /\ UNCHANGED devVars

AccessFaults(p) ==
  /\ pc[p] \in {"write", "read"}
  /\ FaultBegins(MainOf[p], 0)
  /\ UNCHANGED <<pc, got>>

Unmap(p) ==
  /\ MainGoto(p, "munmap1", "mmap2") \/ MainGoto(p, "munmap2", "close")
  /\ Munmap(p)
  /\ UNCHANGED got

Close(p) ==
  /\ MainGoto(p, "close", "open")
  /\ got' = [got EXCEPT ![p] = "none"]
  /\ UNCHANGED devVars

MainStep(p) ==
  \/ pc[p] # "open" /\ Map(p)
  \/ Write(p)
  \/ Read(p)
  \/ AccessFaults(p)
  \/ Unmap(p)
  \/ Close(p)

HelperTouches(t) ==
  /\ \E i \in Slots : FaultBegins(t, i)
  /\ UNCHANGED <<pc, got>>

Fault(t) == my_fault(t) /\ UNCHANGED <<pc, got>>

ProcessEnds(p) ==
  /\ Reap(p)
  /\ pc' = [pc EXCEPT ![p] = "open"]
  /\ got' = [got EXCEPT ![p] = "none"]

Next ==
  \/ \E p \in Procs : (pc[p] = "open" /\ Map(p)) \/ MainStep(p) \/ ProcessEnds(p)
  \/ \E t \in Helpers : HelperTouches(t)
  \/ \E t \in Threads : Fault(t)

Spec == Init /\ [][Next]_vars

(* Threads are scheduled, faults are handled, dead processes are reaped.   *)
(* Nobody has to run the program.                                          *)
Fairness ==
  /\ \A p \in Procs : WF_vars(MainStep(p)) /\ WF_vars(ProcessEnds(p))
  /\ \A t \in Threads : WF_vars(Fault(t))

FairSpec == Spec /\ Fairness

-----------------------------------------------------------------------------
(* Properties.                                                             *)

(* The type invariant of drivers, memory management and program. *)
TypeOK ==
  /\ driver \in Drivers /\ shortage \in BOOLEAN
  /\ pages \in [Slots -> Pages \cup {None}]
  /\ allocs \in [Slots -> SUBSET Pages]
  /\ count \in [Pages -> Nat]
  /\ content \in [Pages -> Contents]
  /\ mapped \in [Procs -> BOOLEAN]
  /\ pte \in [Procs -> [Slots -> Pages \cup {None}]]
  /\ fault \in [Threads -> FaultStates]
  /\ at \in [Threads -> Slots]
  /\ seen \in [Threads -> Pages \cup {None}]
  /\ killed \subseteq Procs
  /\ pc \in [Procs -> Positions]
  /\ got \in [Procs -> {"none"} \cup Contents]

(* A page the driver has allocated counts the driver's reference, which is *)
(* never dropped, one per place it is mapped and one per fault that has    *)
(* taken it: no driver frees a page that is mapped or unbalances a count,  *)
(* however faults race with each other and with munmap.                    *)
RefsExact ==
  \A pg \in Pages :
    count[pg] =
      Cardinality({i \in Slots : pg \in allocs[i]})
      + (IF Counted THEN Cardinality(Mappings(pg)) ELSE 0)
      + Cardinality({t \in Threads : fault[t] = "finish" /\ pages[at[t]] = pg})

(* mmap3 allocates a page again only while faults race for it: as long as  *)
(* allocations succeed the pages of an offset never outnumber the threads  *)
(* that access it, however often the program is run.                       *)
LossBounded ==
  driver = "mmap3" /\ ~shortage => \A i \in Slots :
    Cardinality(allocs[i]) <= Cardinality(IF i = 0 THEN Threads ELSE Helpers)

(* Unless memory is short SIGBUS needs two threads of one process:         *)
(* vm_insert_page never meets a page that is already there when a process  *)
(* has one thread, and my_fault of mmap4 leaves that case to finish_fault. *)
SigbusOnlyIf ==
  \A p \in killed :
    /\ driver \in {"mmap2", "mmap3"}
    /\ shortage \/ \E t \in Threads : ProcOf[t] = p /\ t # MainOf[p]

(* What is written through one mapping is read through the next one, and   *)
(* what another process writes is the same string; except in mmap3, when   *)
(* a page of the offset was replaced by a second allocation.               *)
ReadBackUnlessReplaced ==
  \A p \in Procs : got[p] \notin {"none", "test"} =>
    driver = "mmap3" /\ Cardinality(allocs[0]) > 1

(* The program comes to its end, or dies; no access faults for ever.       *)
(* Exempt is a process one of whose threads died in a fault of mmap3: it   *)
(* waits for mmap_sem.                                                     *)
ProgramEnds ==
  \A p \in Procs :
    pc[p] # "open" ~>
      \/ pc[p] = "open"
      \/ \E t \in Threads : ProcOf[t] = p /\ fault[t] = "oops"

(* The comparison test.c invites: it prints the string it has written.     *)
PrintsWhatItWrote == \A p \in Procs : got[p] \in {"none", "test"}

-----------------------------------------------------------------------------
(* The inductive invariant behind the safety properties.                   *)

(* Which driver has which steps in a fault; but mmap3 all have pages.      *)
DriverInv ==
  /\ \A t \in Threads :
       /\ fault[t] \in {"check", "alloc", "oops"} => driver = "mmap3"
       /\ fault[t] = "insert" => driver \in {"mmap2", "mmap3"}
       /\ fault[t] \in {"get", "finish"} => driver = "mmap4"
  /\ driver # "mmap3" => \A i \in Slots : pages[i] # None /\ allocs[i] = {pages[i]}

(* What the driver, a mapping or a fault has at an offset was allocated    *)
(* for that offset; main's threads access offset 0 only.                   *)
OffsetInv ==
  /\ \A i \in Slots : pages[i] # None => pages[i] \in allocs[i]
  /\ \A p \in Procs, i \in Slots : pte[p][i] # None => pte[p][i] \in allocs[i]
  /\ \A t \in Threads : seen[t] # None =>
       fault[t] = "insert" /\ driver = "mmap3" /\ seen[t] \in allocs[at[t]]
  /\ \A p \in Procs : at[MainOf[p]] = 0

(* A thread begins a fault where nothing is mapped: what is there later    *)
(* was inserted by another one.                                            *)
RaceInv ==
  \A t \in Threads : fault[t] \in InFault /\ Present(t) =>
    \E u \in Threads : u # t /\ ProcOf[u] = ProcOf[t]

Free == {pg \in Pages : count[pg] = 0}
Allocating(i) == {t \in Threads : fault[t] = "alloc" /\ at[t] = i}

(* Each thread that can access an offset allocates for it once at most,    *)
(* and when no page is free none will ever be.                             *)
LossInv ==
  driver = "mmap3" /\ ~shortage => \A i \in Slots :
    Free # {} =>
      /\ pages[i] = None => allocs[i] = {}
      /\ Cardinality(allocs[i]) + Cardinality(Allocating(i))
           <= Cardinality(IF i = 0 THEN Threads ELSE Helpers)

Replaced == driver = "mmap3" /\ Cardinality(allocs[0]) > 1

(* From its write on a process finds its string wherever it looks.         *)
WrittenInv ==
  \A p \in Procs : pc[p] \in {"munmap1", "mmap2", "read", "munmap2"} =>
    \/ Replaced
    \/ allocs[0] # {} /\ \A pg \in allocs[0] : content[pg] = "test"

IInv ==
  /\ TypeOK
  /\ DriverInv
  /\ OffsetInv
  /\ RefsExact
  /\ RaceInv
  /\ SigbusOnlyIf
  /\ LossInv
  /\ LossBounded
  /\ WrittenInv
  /\ ReadBackUnlessReplaced

=============================================================================
