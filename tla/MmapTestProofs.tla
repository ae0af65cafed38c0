--------------------------- MODULE MmapTestProofs ---------------------------
(* Theorems about MmapTest, for every value of its constants. *)
EXTENDS MmapTest, FiniteSetTheorems, TLAPS

-----------------------------------------------------------------------------
(* What a step does to device and memory.                                  *)

Written(p) ==
  /\ pte[p][0] # None
  /\ content' = [content EXCEPT ![pte[p][0]] = "test"]
  /\ UNCHANGED <<driverVars, count, mmVars, fault, at, seen, killed>>

(* The mapping of p goes; no thread of p was handling a fault. *)
Zapped(p) ==
  /\ Zap(p)
  /\ \A t \in Threads : fault'[t] = fault[t] \/ (fault'[t] = "no" /\ fault[t] \notin InFault)
  /\ fault' \in [Threads -> FaultStates]
  /\ killed' \subseteq killed
  /\ UNCHANGED <<at, seen>>

DevStep ==
  \/ UNCHANGED devVars
  \/ \E p \in Procs : my_mmap(p) \/ Written(p) \/ Zapped(p)
  \/ \E t \in Threads, i \in Slots : FaultBegins(t, i) /\ (t \in Helpers \/ i = 0)
  \/ \E t \in Threads : my_fault(t)

LEMMA ZeroSlot == 0 \in Slots
BY SlotAssumption DEF Slots

LEMMA NextDev ==
  ASSUME TypeOK, [Next]_vars
  PROVE  DevStep
<1>1. \A p \in Procs : MainOf[p] \in Threads
  BY MainAssumption
<1>2. ASSUME NEW p \in Procs, Munmap(p)
      PROVE  Zapped(p)
  BY <1>2 DEF Munmap, Zapped, TypeOK
<1>3. ASSUME NEW p \in Procs, Reap(p)
      PROVE  Zapped(p)
  <2>1. fault' = [t \in Threads |-> IF ProcOf[t] = p THEN "no" ELSE fault[t]]
    BY <1>3 DEF Reap
  <2>2. fault' \in [Threads -> FaultStates]
    BY <2>1 DEF TypeOK, FaultStates
  <2>3. \A t \in Threads : ProcOf[t] = p => fault[t] \notin InFault
    BY <1>3 DEF Reap, Zap
  <2> QED
    BY <1>3, <2>1, <2>2, <2>3 DEF Reap, Zapped
<1>4. ASSUME NEW p \in Procs, Map(p) \/ MainStep(p) \/ ProcessEnds(p)
      PROVE  DevStep
  BY <1>1, <1>2, <1>3, <1>4, ZeroSlot
  DEF DevStep, Map, MainStep, ProcessEnds, Write, Written, Read, AccessFaults, Unmap, Close
<1>5. ASSUME NEW t \in Helpers, HelperTouches(t)
      PROVE  DevStep
  BY <1>5 DEF HelperTouches, DevStep, Helpers
<1>6. ASSUME NEW t \in Threads, Fault(t)
      PROVE  DevStep
  BY <1>6 DEF Fault, DevStep
<1>7. CASE UNCHANGED vars
  BY <1>7 DEF vars, DevStep
<1> QED
  BY <1>4, <1>5, <1>6, <1>7 DEF Next

-----------------------------------------------------------------------------
(* Types.                                                                  *)

(* There is a block of N pages. *)
LEMMA BlockExists == kaddr \in Injection(Slots, Pages)
<1>1. IsFiniteSet(Pages) /\ Cardinality(Pages) \in Nat /\ N \in Nat /\ N <= Cardinality(Pages)
  BY SlotAssumption, FS_CardinalityType
<1>2. PICK f : f \in Bijection(1..Cardinality(Pages), Pages)
  BY <1>1, FS_CardinalityType DEF ExistsBijection
<1>3. /\ f \in [1..Cardinality(Pages) -> Pages]
      /\ \A a, b \in 1..Cardinality(Pages) : f[a] = f[b] => a = b
  BY <1>2 DEF Bijection, Injection, IsInjective
<1> DEFINE block == [i \in Slots |-> f[i + 1]]
<1>4. \A i \in Slots : i + 1 \in 1..Cardinality(Pages) /\ i \in Nat
  BY <1>1 DEF Slots
<1>5. block \in [Slots -> Pages]
  BY <1>3, <1>4
<1>6. \A i, j \in Slots : block[i] = block[j] => i = j
  BY <1>3, <1>4
<1>7. block \in Injection(Slots, Pages)
  BY <1>5, <1>6 DEF Injection, IsInjective
<1> QED
  BY <1>7 DEF kaddr

LEMMA Block ==
  kaddr \in [Slots -> Pages] /\ \A i, j \in Slots : kaddr[i] = kaddr[j] => i = j
BY BlockExists DEF Injection, IsInjective

LEMMA InitType == Init => TypeOK
<1> SUFFICES ASSUME Init PROVE TypeOK
  OBVIOUS
<1>1. /\ pages \in [Slots -> Pages \cup {None}]
      /\ allocs \in [Slots -> SUBSET Pages]
      /\ count \in [Pages -> Nat]
      /\ content \in [Pages -> Contents]
  <2>1. CASE driver = "mmap3"
    BY <2>1 DEF Init, DevInit, Contents
  <2>2. CASE driver # "mmap3"
    BY <2>2, Block DEF Init, DevInit, Contents
  <2> QED
    BY <2>1, <2>2
<1>2. at \in [Threads -> Slots] /\ pte \in [Procs -> [Slots -> Pages \cup {None}]]
  BY ZeroSlot DEF Init, DevInit
<1> QED
  BY <1>1, <1>2 DEF Init, DevInit, TypeOK, FaultStates, Positions

(* The types of device and memory. *)
DevType ==
  /\ driver \in Drivers /\ shortage \in BOOLEAN
  /\ pages \in [Slots -> Pages \cup {None}]
  /\ allocs \in [Slots -> SUBSET Pages]
  /\ count \in [Pages -> Nat]
  /\ content \in [Pages -> Contents]
  /\ mapped \in [Procs -> BOOLEAN]
  /\ pte \in [Procs -> [Slots -> Pages \cup {None}]]
  /\ fault \in [Threads -> FaultStates]
  /\ at \in [Threads -> Slots]
  /\ seen \in [Threads -> Pages \cup {None}]
  /\ killed \subseteq Procs

(* A step of a fault. *)
LEMMA FaultMoves ==
  ASSUME TypeOK, NEW t \in Threads, NEW from, NEW to \in FaultStates, Step(t, from, to)
  PROVE  /\ fault' \in [Threads -> FaultStates] /\ at' \in [Threads -> Slots]
         /\ fault[t] = from /\ fault'[t] = to
         /\ \A u \in Threads : u # t => fault'[u] = fault[u] /\ at'[u] = at[u]
         /\ at'[t] = IF to \in InFault THEN at[t] ELSE 0
         /\ UNCHANGED <<driver, shortage, mapped>>
BY ZeroSlot DEF Step, TypeOK

-----------------------------------------------------------------------------
(* The sets whose sizes a page count adds up.                              *)

Owning(pg) == {i \in Slots : pg \in allocs[i]}
Finishing(pg) == {t \in Threads : fault[t] = "finish" /\ pages[at[t]] = pg}

LEMMA FiniteSets ==
  /\ \A S : S \subseteq Slots => IsFiniteSet(S) /\ Cardinality(S) \in Nat
  /\ \A S : S \subseteq Threads => IsFiniteSet(S) /\ Cardinality(S) \in Nat
  /\ \A S : S \subseteq Pages => IsFiniteSet(S) /\ Cardinality(S) \in Nat
  /\ \A S : S \subseteq Procs \X Slots => IsFiniteSet(S) /\ Cardinality(S) \in Nat
<1>1. IsFiniteSet(Slots)
  BY SlotAssumption, FS_Interval DEF Slots
<1>2. IsFiniteSet(Procs \X Slots)
  BY <1>1, FiniteAssumption, FS_Product
<1> QED
  BY <1>1, <1>2, FiniteAssumption, SlotAssumption, FS_Subset, FS_CardinalityType

LEMMA Sizes ==
  ASSUME NEW pg
  PROVE  /\ IsFiniteSet(Owning(pg)) /\ Cardinality(Owning(pg)) \in Nat
         /\ IsFiniteSet(Mappings(pg)) /\ Cardinality(Mappings(pg)) \in Nat
         /\ IsFiniteSet(Finishing(pg)) /\ Cardinality(Finishing(pg)) \in Nat
<1>1. Owning(pg) \subseteq Slots /\ Finishing(pg) \subseteq Threads
  BY DEF Owning, Finishing
<1>2. Mappings(pg) \subseteq Procs \X Slots
  BY DEF Mappings
<1> QED
  BY <1>1, <1>2, FiniteSets

(* A page that no driver, mapping or fault has is free, and the converse.  *)
LEMMA Counts ==
  ASSUME RefsExact, NEW pg \in Pages
  PROVE  count[pg] =
           Cardinality(Owning(pg)) + (IF Counted THEN Cardinality(Mappings(pg)) ELSE 0)
             + Cardinality(Finishing(pg))
BY DEF RefsExact, Owning, Finishing

LEMMA FreeIsUnused ==
  ASSUME RefsExact, NEW pg \in Pages, count[pg] = 0
  PROVE  \A i \in Slots : pg \notin allocs[i]
<1>1. Cardinality(Owning(pg)) = 0
  BY Counts, Sizes
<1>2. Owning(pg) = {}
  BY <1>1, Sizes, FS_EmptySet
<1> QED
  BY <1>2 DEF Owning

(* A page is inserted where none was. *)
LEMMA InsertMappings ==
  ASSUME TypeOK, NEW t \in Threads, NEW pg \in Pages, ~Present(t),
         pte' = [pte EXCEPT ![ProcOf[t]][at[t]] = pg]
  PROVE  /\ pte' \in [Procs -> [Slots -> Pages \cup {None}]]
         /\ \A p \in Procs, i \in Slots :
              pte'[p][i] = IF p = ProcOf[t] /\ i = at[t] THEN pg ELSE pte[p][i]
         /\ \A q \in Pages \ {pg} : Mappings(q)' = Mappings(q)
         /\ Cardinality(Mappings(pg))' = Cardinality(Mappings(pg)) + 1
<1> DEFINE P == ProcOf[t]
           I == at[t]
<1>1. P \in Procs /\ I \in Slots
  BY ThreadAssumption DEF TypeOK
<1>2. pte' \in [Procs -> [Slots -> Pages \cup {None}]]
  BY <1>1 DEF TypeOK
<1>3. \A p \in Procs, i \in Slots : pte'[p][i] = IF p = P /\ i = I THEN pg ELSE pte[p][i]
  BY <1>1 DEF TypeOK
<1>4. pte[P][I] = None
  BY DEF Present
<1>5. \A m \in Procs \X Slots : m[1] \in Procs /\ m[2] \in Slots /\ m = <<m[1], m[2]>>
  OBVIOUS
<1>6. \A q \in Pages : Mappings(q)' = IF q = pg THEN Mappings(q) \cup {<<P, I>>} ELSE Mappings(q)
  BY <1>1, <1>3, <1>4, <1>5, NoneAssumption DEF Mappings
<1>7. <<P, I>> \notin Mappings(pg)
  BY <1>4, NoneAssumption DEF Mappings
<1> QED
  BY <1>2, <1>3, <1>6, <1>7, Sizes, FS_AddElement

(* A mapping goes. *)
LEMMA ZapMappings ==
  ASSUME TypeOK, NEW p \in Procs, NEW pg \in Pages,
         pte' = [pte EXCEPT ![p] = [i \in Slots |-> None]]
  PROVE  Cardinality(Mappings(pg)) =
           Cardinality(Mappings(pg))' + Cardinality({i \in Slots : pte[p][i] = pg})
<1> DEFINE gone == {i \in Slots : pte[p][i] = pg}
           pairs == {m \in Mappings(pg) : m[1] = p}
           pair == [i \in gone |-> <<p, i>>]
<1>1. \A m \in Procs \X Slots : m[1] \in Procs /\ m[2] \in Slots /\ m = <<m[1], m[2]>>
  OBVIOUS
<1>2. \A r \in Procs, i \in Slots : pte'[r][i] = IF r = p THEN None ELSE pte[r][i]
  BY DEF TypeOK
<1>3. Mappings(pg)' = Mappings(pg) \ pairs
  BY <1>1, <1>2, NoneAssumption DEF Mappings
<1>4. pair \in Bijection(gone, pairs)
  <2>1. pair \in [gone -> pairs]
    BY DEF Mappings
  <2>2. \A i, j \in gone : pair[i] = pair[j] => i = j
    OBVIOUS
  <2>3. \A m \in pairs : \E i \in gone : pair[i] = m
    BY <1>1 DEF Mappings
  <2> QED
    BY <2>1, <2>2, <2>3 DEF Bijection, Injection, Surjection, IsInjective
<1>5. IsFiniteSet(gone) /\ IsFiniteSet(pairs) /\ Cardinality(gone) \in Nat
  <2>1. gone \subseteq Slots /\ pairs \subseteq Mappings(pg)
    OBVIOUS
  <2> QED
    BY <2>1, FiniteSets, Sizes, FS_Subset
<1>6. Cardinality(gone) = Cardinality(pairs)
  BY <1>4, <1>5, FS_Bijection DEF ExistsBijection
<1>7. Cardinality(Mappings(pg) \ pairs) = Cardinality(Mappings(pg)) - Cardinality(pairs)
  <2>1. Mappings(pg) \cap pairs = pairs
    OBVIOUS
  <2> QED
    BY <1>5, <2>1, Sizes, FS_Difference
<1> QED
  BY <1>3, <1>5, <1>6, <1>7, Sizes

LEMMA SizesNext ==
  ASSUME NEW pg
  PROVE  /\ Cardinality(Owning(pg))' \in Nat
         /\ Cardinality(Mappings(pg))' \in Nat
         /\ Cardinality(Finishing(pg))' \in Nat
<1>1. Owning(pg)' \subseteq Slots /\ Finishing(pg)' \subseteq Threads
  BY DEF Owning, Finishing
<1>2. Mappings(pg)' \subseteq Procs \X Slots
  BY DEF Mappings
<1> QED
  BY <1>1, <1>2, FiniteSets

-----------------------------------------------------------------------------
(* The page counts.                                                        *)

CountsRight ==
  \A pg \in Pages :
    count[pg] =
      Cardinality(Owning(pg)) + (IF Counted THEN Cardinality(Mappings(pg)) ELSE 0)
        + Cardinality(Finishing(pg))

LEMMA CountsRightNext ==
  ASSUME CountsRight', count' \in [Pages -> Int]
  PROVE  RefsExact' /\ count' \in [Pages -> Nat]
<1>1. \A pg \in Pages : count'[pg] \in Nat
  BY SizesNext DEF CountsRight
<1> QED
  BY <1>1 DEF CountsRight, RefsExact, Owning, Finishing

(* A thread that neither has nor gets a page reference moves. *)
LEMMA FinishingKept ==
  ASSUME TypeOK, DriverInv, NEW t \in Threads, NEW from \in FaultStates \ {"finish"},
         NEW to \in FaultStates \ {"finish"}, Step(t, from, to),
         pages' = pages \/ driver = "mmap3"
  PROVE  \A pg : Finishing(pg)' = Finishing(pg)
<1>1. \A u \in Threads : (fault'[u] = "finish") <=> (fault[u] = "finish")
  BY FaultMoves
<1>2. \A u \in Threads : fault[u] = "finish" => at'[u] = at[u] /\ pages' = pages
  BY FaultMoves DEF DriverInv
<1> QED
  BY <1>1, <1>2 DEF Finishing

(* Steps of a fault that take no reference. *)
LEMMA FaultKeepsCounts ==
  ASSUME IInv, NEW t \in Threads,
         my_fault_check(t) \/ my_fault_alloc_fails(t) \/ my_fault_insert_null(t)
  PROVE  CountsRight' /\ count' = count
<1> TypeOK /\ DriverInv /\ RefsExact
  BY DEF IInv
<1>1. /\ \E from, to \in FaultStates \ {"finish"} : Step(t, from, to)
      /\ UNCHANGED <<allocs, count, pte, driver>>
      /\ pages' = pages \/ driver = "mmap3"
  BY DEF my_fault_check, my_fault_alloc_fails, my_fault_insert_null, Step, FaultStates, DriverInv
<1>2. \A pg : Finishing(pg)' = Finishing(pg)
  BY <1>1, FinishingKept
<1> QED
  BY <1>1, <1>2, Counts DEF CountsRight, Owning, Mappings, Counted

LEMMA AllocCounts ==
  ASSUME IInv, NEW t \in Threads, my_fault_alloc(t)
  PROVE  CountsRight' /\ count' \in [Pages -> Int]
<1> TypeOK /\ DriverInv /\ RefsExact
  BY DEF IInv
<1>1. PICK pg \in Pages :
        /\ count[pg] = 0 /\ count' = [count EXCEPT ![pg] = 1]
        /\ allocs' = [allocs EXCEPT ![at[t]] = @ \cup {pg}]
  BY DEF my_fault_alloc
<1>2. \A q : Finishing(q)' = Finishing(q)
  <2>1. Step(t, "alloc", "insert") /\ driver = "mmap3"
    BY DEF my_fault_alloc, Step, DriverInv
  <2> QED
    BY <2>1, FinishingKept DEF FaultStates
<1>3. pte' = pte /\ driver' = driver /\ at[t] \in Slots
  BY DEF my_fault_alloc, Step, TypeOK
<1>4. \A q \in Pages : q # pg => Owning(q)' = Owning(q)
  BY <1>1, <1>3 DEF Owning, TypeOK
<1>5. Owning(pg)' = {at[t]}
  <2>1. \A i \in Slots : pg \notin allocs[i]
    BY <1>1, FreeIsUnused
  <2> QED
    BY <1>1, <1>3, <2>1 DEF Owning, TypeOK
<1>6. Cardinality(Owning(pg))' = 1
  BY <1>5, FS_Singleton
<1>7. /\ Cardinality(Mappings(pg))' = 0 \/ ~Counted
      /\ Cardinality(Finishing(pg))' = 0
  <2>1. \A q : Mappings(q)' = Mappings(q)
    BY <1>3 DEF Mappings
  <2> QED
    BY <1>1, <1>2, <2>1, Counts, Sizes
<1>8. \A q \in Pages : q # pg => count'[q] = count[q]
  BY <1>1 DEF TypeOK
<1>9. count'[pg] = 1
  BY <1>1 DEF TypeOK
<1>10. \A q \in Pages : q # pg => Mappings(q)' = Mappings(q)
  BY <1>3 DEF Mappings
<1>11. ASSUME NEW q \in Pages
       PROVE  count'[q] =
                Cardinality(Owning(q))' + (IF Counted' THEN Cardinality(Mappings(q))' ELSE 0)
                  + Cardinality(Finishing(q))'
  <2>1. CASE q = pg
    BY <1>3, <1>6, <1>7, <1>9, <2>1 DEF Counted
  <2>2. CASE q # pg
    BY <1>2, <1>3, <1>4, <1>8, <1>10, <2>2, Counts DEF Counted
  <2> QED
    BY <2>1, <2>2
<1> QED
  BY <1>1, <1>11 DEF CountsRight, TypeOK

LEMMA InsertCounts ==
  ASSUME IInv, NEW t \in Threads, my_fault_insert(t)
  PROVE  CountsRight' /\ count' \in [Pages -> Int]
<1> TypeOK /\ DriverInv /\ RefsExact
  BY DEF IInv
<1>1. /\ Step(t, "insert", "no") /\ Counted /\ driver' = driver
      /\ UNCHANGED <<pages, allocs>>
  BY DEF my_fault_insert, Step, DriverInv, Counted
<1>2. \A q : Finishing(q)' = Finishing(q) /\ Owning(q)' = Owning(q)
  BY <1>1, FinishingKept DEF FaultStates, Owning
<1>3. CASE UNCHANGED <<pte, count>>
  BY <1>1, <1>2, <1>3, Counts DEF CountsRight, Mappings, Counted, TypeOK
<1>4. ASSUME NEW pg \in Candidates(t) \ {None}, ~Present(t), Insert(t, pg)
      PROVE  CountsRight' /\ count' \in [Pages -> Int]
  <2>1. pg \in Pages
    BY <1>4 DEF Candidates, TypeOK
  <2>2. count' = [count EXCEPT ![pg] = @ + 1]
    BY <1>4 DEF Insert
  <2>3. /\ \A q \in Pages \ {pg} : Mappings(q)' = Mappings(q)
        /\ Cardinality(Mappings(pg))' = Cardinality(Mappings(pg)) + 1
    BY <1>4, <2>1, InsertMappings DEF Insert
  <2>4. ASSUME NEW q \in Pages
        PROVE  count'[q] =
                 Cardinality(Owning(q))' + Cardinality(Mappings(q))' + Cardinality(Finishing(q))'
    <3>1. CASE q = pg
      BY <1>1, <1>2, <2>2, <2>3, <3>1, Counts, Sizes DEF TypeOK
    <3>2. CASE q # pg
      BY <1>1, <1>2, <2>2, <2>3, <3>2, Counts DEF TypeOK
    <3> QED
      BY <3>1, <3>2
  <2>5. count' \in [Pages -> Int]
    BY <2>1, <2>2 DEF TypeOK
  <2> QED
    BY <1>1, <2>4, <2>5 DEF CountsRight, Counted
<1> QED
  BY <1>3, <1>4 DEF my_fault_insert, TypeOK, CountsRight

(* mmap4: the fault takes a reference ... *)
LEMMA GetCounts ==
  ASSUME IInv, NEW t \in Threads, my_fault_get(t)
  PROVE  CountsRight' /\ count' \in [Pages -> Int]
<1> TypeOK /\ DriverInv /\ RefsExact
  BY DEF IInv
<1>1. /\ Step(t, "get", "finish") /\ UNCHANGED <<pages, allocs, pte, driver>>
      /\ count' = [count EXCEPT ![pages[at[t]]] = @ + 1]
      /\ fault[t] = "get" /\ driver = "mmap4"
  BY DEF my_fault_get, Step, DriverInv
<1>2. PICK pg \in Pages : pg = pages[at[t]]
  BY <1>1 DEF DriverInv, TypeOK
<1>3. \A q \in Pages : Owning(q)' = Owning(q) /\ Mappings(q)' = Mappings(q)
  BY <1>1 DEF Owning, Mappings
<1>4. /\ fault'[t] = "finish" /\ at'[t] = at[t]
      /\ \A u \in Threads : u # t => fault'[u] = fault[u] /\ at'[u] = at[u]
  BY <1>1, FaultMoves DEF FaultStates, InFault
<1>5. \A q \in Pages : q # pg => Finishing(q)' = Finishing(q)
  BY <1>1, <1>2, <1>4 DEF Finishing
<1>6. Finishing(pg)' = Finishing(pg) \cup {t} /\ t \notin Finishing(pg)
  BY <1>1, <1>2, <1>4 DEF Finishing
<1>7. Cardinality(Finishing(pg))' = Cardinality(Finishing(pg)) + 1
  BY <1>6, Sizes, FS_AddElement
<1>8. \A q \in Pages : count'[q] = IF q = pg THEN count[q] + 1 ELSE count[q]
  BY <1>1, <1>2 DEF TypeOK
<1>9. count' \in [Pages -> Int]
  BY <1>1, <1>2 DEF TypeOK
<1>10. ASSUME NEW q \in Pages
       PROVE  count'[q] =
                Cardinality(Owning(q))' + (IF Counted' THEN Cardinality(Mappings(q))' ELSE 0)
                  + Cardinality(Finishing(q))'
  <2>1. CASE q = pg
    BY <1>1, <1>3, <1>7, <1>8, <2>1, Counts, Sizes DEF Counted
  <2>2. CASE q # pg
    BY <1>1, <1>3, <1>5, <1>8, <2>2, Counts DEF Counted
  <2> QED
    BY <2>1, <2>2
<1> QED
  BY <1>9, <1>10 DEF CountsRight

(* ... which finish_fault hands to the mapping or drops. *)
LEMMA FinishCounts ==
  ASSUME IInv, NEW t \in Threads, finish_fault(t)
  PROVE  CountsRight' /\ count' \in [Pages -> Int]
<1> TypeOK /\ DriverInv /\ RefsExact
  BY DEF IInv
<1>1. /\ Step(t, "finish", "no") /\ UNCHANGED <<pages, allocs, driver>>
      /\ fault[t] = "finish" /\ driver = "mmap4"
  BY DEF finish_fault, Step, DriverInv
<1>2. PICK pg \in Pages : pg = pages[at[t]]
  BY <1>1 DEF DriverInv, TypeOK
<1>3. \A q \in Pages : Owning(q)' = Owning(q)
  BY <1>1 DEF Owning
<1>4. /\ fault'[t] = "no"
      /\ \A u \in Threads : u # t => fault'[u] = fault[u] /\ at'[u] = at[u]
  BY <1>1, FaultMoves DEF FaultStates
<1>5. \A q \in Pages : q # pg => Finishing(q)' = Finishing(q)
  BY <1>1, <1>2, <1>4 DEF Finishing
<1>6. Finishing(pg)' = Finishing(pg) \ {t} /\ t \in Finishing(pg)
  BY <1>1, <1>2, <1>4 DEF Finishing
<1>7. Cardinality(Finishing(pg))' = Cardinality(Finishing(pg)) - 1
  BY <1>6, Sizes, FS_RemoveElement
<1>8. CASE Present(t)
  <2>1. count' = [count EXCEPT ![pg] = @ - 1] /\ pte' = pte
    BY <1>2, <1>8 DEF finish_fault
  <2>2. \A q \in Pages : count'[q] = IF q = pg THEN count[q] - 1 ELSE count[q]
    BY <2>1 DEF TypeOK
  <2>3. count' \in [Pages -> Int]
    BY <2>1 DEF TypeOK
  <2>4. ASSUME NEW q \in Pages
        PROVE  count'[q] =
                 Cardinality(Owning(q))' + (IF Counted' THEN Cardinality(Mappings(q))' ELSE 0)
                   + Cardinality(Finishing(q))'
    <3>1. Mappings(q)' = Mappings(q)
      BY <2>1 DEF Mappings
    <3>2. CASE q = pg
      BY <1>1, <1>3, <1>7, <2>2, <3>1, <3>2, Counts, Sizes DEF Counted
    <3>3. CASE q # pg
      BY <1>1, <1>3, <1>5, <2>2, <3>1, <3>3, Counts DEF Counted
    <3> QED
      BY <3>2, <3>3
  <2> QED
    BY <2>3, <2>4 DEF CountsRight
<1>9. CASE ~Present(t)
  <2>1. count' = count /\ pte' = [pte EXCEPT ![ProcOf[t]][at[t]] = pg]
    BY <1>2, <1>9 DEF finish_fault
  <2>2. /\ \A q \in Pages \ {pg} : Mappings(q)' = Mappings(q)
        /\ Cardinality(Mappings(pg))' = Cardinality(Mappings(pg)) + 1
    BY <1>9, <2>1, InsertMappings
  <2>3. Counted /\ Counted'
    BY <1>1 DEF Counted
  <2>4. ASSUME NEW q \in Pages
        PROVE  count'[q] =
                 Cardinality(Owning(q))' + Cardinality(Mappings(q))' + Cardinality(Finishing(q))'
    <3>1. CASE q = pg
      BY <1>3, <1>7, <2>1, <2>2, <2>3, <3>1, Counts, Sizes
    <3>2. CASE q # pg
      BY <1>3, <1>5, <2>1, <2>2, <2>3, <3>2, Counts
    <3> QED
      BY <3>1, <3>2
  <2>5. count' \in [Pages -> Int]
    BY <2>1 DEF TypeOK
  <2> QED
    BY <2>3, <2>4, <2>5 DEF CountsRight
<1> QED
  BY <1>8, <1>9

LEMMA ZapCounts ==
  ASSUME IInv, NEW p \in Procs, Zapped(p)
  PROVE  CountsRight' /\ count' \in [Pages -> Int]
<1> TypeOK /\ DriverInv /\ RefsExact
  BY DEF IInv
<1>1. /\ pte' = [pte EXCEPT ![p] = [i \in Slots |-> None]]
      /\ UNCHANGED <<pages, allocs, driver, at>>
      /\ \A t \in Threads : (fault'[t] = "finish") <=> (fault[t] = "finish")
  BY DEF Zapped, Zap, driverVars, InFault
<1>2. \A q \in Pages : Owning(q)' = Owning(q) /\ Finishing(q)' = Finishing(q)
  BY <1>1 DEF Owning, Finishing
<1>3. CASE Counted
  <2>1. /\ count' = [pg \in Pages |-> count[pg] - Cardinality({i \in Slots : pte[p][i] = pg})]
        /\ Counted'
    BY <1>1, <1>3 DEF Zapped, Zap, Counted
  <2>2. \A q \in Pages : Cardinality({i \in Slots : pte[p][i] = q}) \in Nat
    BY FiniteSets
  <2>3. count' \in [Pages -> Int]
    BY <2>1, <2>2 DEF TypeOK
  <2>4. ASSUME NEW q \in Pages
        PROVE  count'[q] =
                 Cardinality(Owning(q))' + Cardinality(Mappings(q))' + Cardinality(Finishing(q))'
    <3>1. Cardinality(Mappings(q)) =
            Cardinality(Mappings(q))' + Cardinality({i \in Slots : pte[p][i] = q})
      BY <1>1, ZapMappings
    <3> QED
      BY <1>2, <1>3, <2>1, <2>2, <3>1, Counts, Sizes, SizesNext
  <2> QED
    BY <2>1, <2>3, <2>4 DEF CountsRight
<1>4. CASE ~Counted
  <2>1. count' = count /\ ~Counted'
    BY <1>1, <1>4 DEF Zapped, Zap, Counted
  <2> QED
    BY <1>2, <1>4, <2>1, Counts DEF CountsRight, TypeOK
<1> QED
  BY <1>3, <1>4

LEMMA CountStep ==
  ASSUME IInv, DevStep
  PROVE  RefsExact' /\ count' \in [Pages -> Nat]
<1> TypeOK /\ DriverInv /\ RefsExact
  BY DEF IInv
<1>1. ASSUME UNCHANGED <<count, allocs, driver>>,
             \A pg : Finishing(pg)' = Finishing(pg), Counted => pte' = pte
      PROVE  CountsRight' /\ count' \in [Pages -> Int]
  <2>1. Counted' = Counted /\ \A pg : Owning(pg)' = Owning(pg)
    BY <1>1 DEF Owning, Counted
  <2>2. \A pg : Counted => Mappings(pg)' = Mappings(pg)
    BY <1>1 DEF Mappings
  <2>3. CountsRight'
    BY <1>1, <2>1, <2>2, Counts DEF CountsRight
  <2> QED
    BY <1>1, <2>3 DEF TypeOK
<1>2. CASE UNCHANGED devVars \/ \E p \in Procs : my_mmap(p) \/ Written(p)
  <2>1. /\ UNCHANGED <<count, allocs, driver, fault, at, pages>>
        /\ Counted => pte' = pte
    BY <1>2 DEF devVars, driverVars, mmVars, my_mmap, Written, Counted
  <2> QED
    BY <1>1, <2>1, CountsRightNext DEF Finishing
<1>3. ASSUME NEW t \in Threads, NEW i \in Slots, FaultBegins(t, i)
      PROVE  CountsRight' /\ count' \in [Pages -> Int]
  <2>1. /\ UNCHANGED <<count, allocs, driver, pages, pte>>
        /\ fault[t] = "no" /\ fault'[t] # "finish"
        /\ \A u \in Threads : u # t => fault'[u] = fault[u] /\ at'[u] = at[u]
    BY <1>3, DriverAssumption DEF FaultBegins, Running, driverVars, mmVars, FirstStep, TypeOK
  <2>2. \A pg : Finishing(pg)' = Finishing(pg)
    BY <2>1 DEF Finishing
  <2> QED
    BY <1>1, <2>1, <2>2
<1>4. ASSUME NEW t \in Threads, my_fault(t)
      PROVE  CountsRight' /\ count' \in [Pages -> Int]
  BY <1>4, FaultKeepsCounts, AllocCounts, InsertCounts, GetCounts, FinishCounts
  DEF my_fault, TypeOK
<1> QED
  BY <1>2, <1>3, <1>4, ZapCounts, CountsRightNext DEF DevStep

-----------------------------------------------------------------------------
(* Types of device and memory, and what is at an offset.                   *)

(* The steps of a fault that do not change the tables of the driver.       *)
LEMMA InsertEffect ==
  ASSUME TypeOK, DriverInv, OffsetInv, NEW t \in Threads,
         my_fault_insert(t) \/ finish_fault(t)
  PROVE  /\ \E from \in {"insert", "finish"} : Step(t, from, "no")
         /\ UNCHANGED <<pages, allocs, content>>
         /\ seen' \in [Threads -> Pages \cup {None}]
         /\ \A u \in Threads : seen'[u] = None \/ (u # t /\ seen'[u] = seen[u])
         /\ \/ /\ ~Present(t) /\ killed' = killed
               /\ \E pg \in allocs[at[t]] \cap Pages :
                    pte' = [pte EXCEPT ![ProcOf[t]][at[t]] = pg]
            \/ Present(t) /\ pte' = pte /\ killed' = killed
            \/ /\ Present(t) \/ shortage
               /\ pte' = pte /\ killed' = killed \cup {ProcOf[t]}
               /\ driver \in {"mmap2", "mmap3"} /\ fault[t] = "insert"
<1>1. CASE my_fault_insert(t)
  <2>1. /\ Step(t, "insert", "no") /\ seen' = [seen EXCEPT ![t] = None]
        /\ UNCHANGED <<pages, allocs, content>>
        /\ fault[t] = "insert" /\ driver \in {"mmap2", "mmap3"}
    BY <1>1 DEF my_fault_insert, Step, DriverInv
  <2>2. PICK pg \in Candidates(t) \ {None} :
          \/ ~Present(t) /\ Insert(t, pg) /\ UNCHANGED killed
          \/ /\ Present(t) \/ shortage
             /\ killed' = killed \cup {ProcOf[t]} /\ UNCHANGED <<pte, count>>
    BY <1>1 DEF my_fault_insert
  <2>3. pg \in allocs[at[t]] /\ pg \in Pages
    BY <2>2 DEF Candidates, OffsetInv, TypeOK
  <2>4. /\ seen' \in [Threads -> Pages \cup {None}]
        /\ \A u \in Threads : seen'[u] = None \/ (u # t /\ seen'[u] = seen[u])
    BY <2>1 DEF TypeOK
  <2> QED
    BY <2>1, <2>2, <2>3, <2>4 DEF Insert
<1>2. CASE finish_fault(t)
  <2>1. /\ Step(t, "finish", "no") /\ UNCHANGED <<pages, allocs, content, seen, killed>>
        /\ fault[t] = "finish" /\ driver = "mmap4"
    BY <1>2 DEF finish_fault, Step, DriverInv
  <2>2. pages[at[t]] \in allocs[at[t]] /\ pages[at[t]] \in Pages
    BY <2>1 DEF DriverInv, TypeOK
  <2>3. \A u \in Threads : seen'[u] = None \/ (u # t /\ seen'[u] = seen[u])
    BY <2>1 DEF OffsetInv
  <2> QED
    BY <1>2, <2>1, <2>2, <2>3 DEF finish_fault, TypeOK
<1> QED
  BY <1>1, <1>2

LEMMA DevTypeStep ==
  ASSUME IInv, DevStep
  PROVE  DevType'
<1> TypeOK /\ DriverInv /\ OffsetInv /\ count' \in [Pages -> Nat]
  BY CountStep DEF IInv
<1>1. CASE UNCHANGED devVars
  BY <1>1 DEF devVars, driverVars, mmVars, TypeOK, DevType
<1>2. ASSUME NEW p \in Procs, my_mmap(p)
      PROVE  DevType'
  <2>1. driver = "mmap1" => pages \in [Slots -> Pages \cup {None}]
    BY DEF TypeOK
  <2>2. pte' \in [Procs -> [Slots -> Pages \cup {None}]]
    BY <1>2, <2>1 DEF my_mmap, TypeOK
  <2> QED
    BY <1>2, <2>2 DEF my_mmap, driverVars, TypeOK, DevType
<1>3. ASSUME NEW p \in Procs, Written(p)
      PROVE  DevType'
  BY <1>3 DEF Written, driverVars, mmVars, TypeOK, DevType, Contents
<1>4. ASSUME NEW p \in Procs, Zapped(p)
      PROVE  DevType'
  BY <1>4 DEF Zapped, Zap, driverVars, TypeOK, DevType
<1>5. ASSUME NEW t \in Threads, NEW i \in Slots, FaultBegins(t, i)
      PROVE  DevType'
  <2>1. FirstStep[driver] \in FaultStates
    BY DriverAssumption DEF TypeOK, FirstStep, FaultStates
  <2> QED
    BY <1>5, <2>1 DEF FaultBegins, driverVars, mmVars, TypeOK, DevType
<1>6. ASSUME NEW t \in Threads, my_fault(t)
      PROVE  DevType'
  <2>1. at[t] \in Slots /\ ProcOf[t] \in Procs
    BY ThreadAssumption DEF TypeOK
  <2>2. CASE my_fault_check(t)
    <3>1. PICK to \in FaultStates : Step(t, "check", to)
      BY <2>2 DEF my_fault_check, FaultStates
    <3>2. seen' \in [Threads -> Pages \cup {None}]
      BY <2>1, <2>2 DEF my_fault_check, TypeOK
    <3> QED
      BY <2>2, <3>1, <3>2, FaultMoves DEF my_fault_check, TypeOK, DevType
  <2>3. CASE my_fault_alloc(t)
    <3>1. PICK pg \in Pages :
            /\ content' = [content EXCEPT ![pg] = "old"]
            /\ pages' = [pages EXCEPT ![at[t]] = pg]
            /\ allocs' = [allocs EXCEPT ![at[t]] = @ \cup {pg}]
            /\ seen' = [seen EXCEPT ![t] = pg]
      BY <2>3 DEF my_fault_alloc
    <3>2. Step(t, "alloc", "insert") /\ UNCHANGED <<pte, killed>>
      BY <2>3 DEF my_fault_alloc
    <3> QED
      BY <2>1, <3>1, <3>2, FaultMoves DEF TypeOK, DevType, Contents, FaultStates
  <2>4. CASE my_fault_alloc_fails(t)
    BY <2>1, <2>4, FaultMoves DEF my_fault_alloc_fails, TypeOK, DevType, FaultStates
  <2>5. CASE my_fault_insert_null(t)
    BY <2>1, <2>5, FaultMoves DEF my_fault_insert_null, TypeOK, DevType, FaultStates
  <2>6. CASE my_fault_get(t)
    BY <2>1, <2>6, FaultMoves DEF my_fault_get, TypeOK, DevType, FaultStates
  <2>7. CASE my_fault_insert(t) \/ finish_fault(t)
    <3>1. PICK from \in {"insert", "finish"} : Step(t, from, "no")
      BY <2>7, InsertEffect
    <3>2. pte' \in [Procs -> [Slots -> Pages \cup {None}]] /\ killed' \subseteq Procs
      <4>1. ASSUME NEW pg \in Pages, pte' = [pte EXCEPT ![ProcOf[t]][at[t]] = pg]
            PROVE  pte' \in [Procs -> [Slots -> Pages \cup {None}]]
        BY <2>1, <4>1 DEF TypeOK
      <4>2. pte' = pte \/ \E pg \in Pages : pte' = [pte EXCEPT ![ProcOf[t]][at[t]] = pg]
        BY <2>7, InsertEffect
      <4>3. killed' = killed \/ killed' = killed \cup {ProcOf[t]}
        BY <2>7, InsertEffect
      <4> QED
        BY <2>1, <4>1, <4>2, <4>3 DEF TypeOK
    <3>3. /\ UNCHANGED <<pages, allocs, content>>
          /\ seen' \in [Threads -> Pages \cup {None}]
      BY <2>7, InsertEffect
    <3> QED
      BY <3>1, <3>2, <3>3, FaultMoves DEF TypeOK, DevType, FaultStates
  <2> QED
    BY <1>6, <2>2, <2>3, <2>4, <2>5, <2>6, <2>7 DEF my_fault
<1> QED
  BY <1>1, <1>2, <1>3, <1>4, <1>5, <1>6 DEF DevStep

LEMMA TypeStep ==
  ASSUME IInv, [Next]_vars
  PROVE  TypeOK'
<1>1. DevType'
  BY NextDev, DevTypeStep DEF IInv
<1>2. pc' \in [Procs -> Positions] /\ got' \in [Procs -> {"none"} \cup Contents]
  <2>1. TypeOK
    BY DEF IInv
  <2>2. ASSUME NEW p \in Procs, Map(p) \/ Write(p) \/ Unmap(p) \/ Close(p) \/ AccessFaults(p)
        PROVE  pc' \in [Procs -> Positions] /\ got' \in [Procs -> {"none"} \cup Contents]
    BY <2>1, <2>2 DEF Map, Write, Unmap, Close, AccessFaults, MainGoto, TypeOK, Positions
  <2>3. ASSUME NEW p \in Procs, Read(p)
        PROVE  pc' \in [Procs -> Positions] /\ got' \in [Procs -> {"none"} \cup Contents]
    BY <2>1, <2>3, ZeroSlot DEF Read, MainGoto, TypeOK, Positions
  <2>4. ASSUME NEW p \in Procs, ProcessEnds(p)
        PROVE  pc' \in [Procs -> Positions] /\ got' \in [Procs -> {"none"} \cup Contents]
    BY <2>1, <2>4 DEF ProcessEnds, TypeOK, Positions
  <2>5. CASE UNCHANGED <<pc, got>>
    BY <2>1, <2>5 DEF TypeOK
  <2> QED
    BY <2>2, <2>3, <2>4, <2>5 DEF Next, MainStep, HelperTouches, Fault, vars
<1> QED
  BY <1>1, <1>2 DEF DevType, TypeOK

LEMMA DriverStep ==
  ASSUME IInv, DevStep
  PROVE  DriverInv'
<1> TypeOK /\ DriverInv /\ OffsetInv
  BY DEF IInv
<1>1. CASE UNCHANGED devVars
  BY <1>1 DEF devVars, driverVars, mmVars, DriverInv
<1>2. ASSUME NEW p \in Procs, my_mmap(p) \/ Written(p)
      PROVE  DriverInv'
  BY <1>2 DEF my_mmap, Written, driverVars, DriverInv
<1>3. ASSUME NEW p \in Procs, Zapped(p)
      PROVE  DriverInv'
  BY <1>3 DEF Zapped, Zap, driverVars, DriverInv
<1>4. ASSUME NEW t \in Threads, NEW i \in Slots, FaultBegins(t, i)
      PROVE  DriverInv'
  <2>1. /\ \A u \in Threads : fault'[u] = IF u = t THEN FirstStep[driver] ELSE fault[u]
        /\ UNCHANGED <<driver, pages, allocs>>
    BY <1>4 DEF FaultBegins, driverVars, TypeOK
  <2>2. \/ driver = "mmap1" /\ FirstStep[driver] = "no"
        \/ driver = "mmap2" /\ FirstStep[driver] = "insert"
        \/ driver = "mmap3" /\ FirstStep[driver] = "check"
        \/ driver = "mmap4" /\ FirstStep[driver] = "get"
    BY DriverAssumption DEF TypeOK, FirstStep
  <2> QED
    BY <2>1, <2>2 DEF DriverInv
<1>5. ASSUME NEW t \in Threads, my_fault(t)
      PROVE  DriverInv'
  <2>1. ASSUME NEW from, NEW to \in FaultStates, Step(t, from, to),
               to \in {"alloc", "oops"} => driver = "mmap3",
               to = "insert" => driver \in {"mmap2", "mmap3"},
               to \in {"get", "finish"} => driver = "mmap4",
               to # "check",
               UNCHANGED <<pages, allocs>> \/ driver = "mmap3"
        PROVE  DriverInv'
    BY <2>1, FaultMoves DEF DriverInv
  <2>2. CASE my_fault_check(t)
    BY <2>1, <2>2 DEF my_fault_check, Step, DriverInv, FaultStates
  <2>3. CASE my_fault_alloc(t) \/ my_fault_alloc_fails(t)
    BY <2>1, <2>3 DEF my_fault_alloc, my_fault_alloc_fails, Step, DriverInv, FaultStates
  <2>4. CASE my_fault_insert_null(t)
    <3>1. driver = "mmap3"
      <4>1. fault[t] = "insert" /\ at[t] \in Slots
        BY <2>4 DEF my_fault_insert_null, Step, TypeOK
      <4>2. driver # "mmap3" => Candidates(t) = {pages[at[t]]} /\ pages[at[t]] # None
        BY <4>1 DEF Candidates, DriverInv
      <4> QED
        BY <2>4, <4>2 DEF my_fault_insert_null
    <3> QED
      BY <2>1, <2>4, <3>1 DEF my_fault_insert_null, FaultStates
  <2>5. CASE my_fault_get(t)
    BY <2>1, <2>5 DEF my_fault_get, Step, DriverInv, FaultStates
  <2>6. CASE my_fault_insert(t) \/ finish_fault(t)
    BY <2>1, <2>6, InsertEffect DEF FaultStates
  <2> QED
    BY <1>5, <2>2, <2>3, <2>4, <2>5, <2>6 DEF my_fault
<1> QED
  BY <1>1, <1>2, <1>3, <1>4, <1>5 DEF DevStep

LEMMA OffsetStep ==
  ASSUME IInv, DevStep
  PROVE  OffsetInv'
<1> TypeOK /\ DriverInv /\ OffsetInv
  BY DEF IInv
<1> \A p \in Procs : MainOf[p] \in Threads
  BY MainAssumption
<1>1. CASE UNCHANGED devVars
  BY <1>1 DEF devVars, driverVars, mmVars, OffsetInv
<1>2. ASSUME NEW p \in Procs, my_mmap(p)
      PROVE  OffsetInv'
  <2>1. /\ \A r \in Procs, i \in Slots : pte'[r][i] = pte[r][i] \/ pte'[r][i] = pages[i]
        /\ UNCHANGED <<driverVars, fault, at, seen>>
    BY <1>2 DEF my_mmap, TypeOK
  <2> QED
    BY <2>1 DEF OffsetInv, driverVars
<1>3. ASSUME NEW p \in Procs, Written(p)
      PROVE  OffsetInv'
  BY <1>3 DEF Written, driverVars, mmVars, OffsetInv
<1>4. ASSUME NEW p \in Procs, Zapped(p)
      PROVE  OffsetInv'
  <2>1. /\ \A r \in Procs, i \in Slots : pte'[r][i] = pte[r][i] \/ pte'[r][i] = None
        /\ UNCHANGED <<driverVars, at, seen>>
        /\ \A t \in Threads : fault[t] = "insert" => fault'[t] = "insert"
    BY <1>4 DEF Zapped, Zap, TypeOK, InFault
  <2> QED
    BY <2>1 DEF OffsetInv, driverVars
<1>5. ASSUME NEW t \in Threads, NEW i \in Slots, FaultBegins(t, i), t \in Helpers \/ i = 0
      PROVE  OffsetInv'
  <2>1. /\ fault[t] = "no" /\ at'[t] = i
        /\ \A u \in Threads : u # t => fault'[u] = fault[u] /\ at'[u] = at[u]
        /\ UNCHANGED <<driverVars, pte, seen>>
    BY <1>5 DEF FaultBegins, Running, mmVars, TypeOK
  <2>2. \A p \in Procs : at'[MainOf[p]] = 0
    BY <1>5, <2>1 DEF OffsetInv, Helpers
  <2>3. \A u \in Threads : seen'[u] # None =>
          fault'[u] = "insert" /\ driver' = "mmap3" /\ seen'[u] \in allocs'[at'[u]]
    BY <2>1 DEF OffsetInv, driverVars
  <2> QED
    BY <2>1, <2>2, <2>3 DEF OffsetInv, driverVars
<1>6. ASSUME NEW t \in Threads, my_fault(t)
      PROVE  OffsetInv'
  <2>1. ASSUME NEW from, NEW to \in FaultStates, Step(t, from, to), from # "insert"
        PROVE  /\ \A p \in Procs : at'[MainOf[p]] = 0
               /\ seen[t] = None /\ (to \in InFault => at'[t] = at[t])
               /\ driver' = driver /\ fault'[t] = to
               /\ \A u \in Threads : u # t => fault'[u] = fault[u] /\ at'[u] = at[u]
    BY <2>1, FaultMoves DEF OffsetInv
  <2>2. CASE my_fault_check(t)
    <3>1. /\ Step(t, "check", IF pages[at[t]] = None THEN "alloc" ELSE "insert")
          /\ UNCHANGED <<pages, allocs, pte>> /\ driver = "mmap3"
          /\ \A u \in Threads : seen'[u] = IF u = t THEN pages[at[t]] ELSE seen[u]
      BY <2>2 DEF my_fault_check, Step, DriverInv, TypeOK
    <3>2. pages[at[t]] # None => fault'[t] = "insert" /\ pages[at[t]] \in allocs[at[t]]
      BY <2>1, <3>1 DEF FaultStates, OffsetInv, TypeOK
    <3> QED
      BY <2>1, <3>1, <3>2 DEF OffsetInv, FaultStates, InFault
  <2>3. CASE my_fault_alloc(t)
    <3>1. PICK pg \in Pages :
            /\ pages' = [pages EXCEPT ![at[t]] = pg]
            /\ allocs' = [allocs EXCEPT ![at[t]] = @ \cup {pg}]
            /\ seen' = [seen EXCEPT ![t] = pg]
      BY <2>3 DEF my_fault_alloc
    <3>2. Step(t, "alloc", "insert") /\ pte' = pte /\ driver = "mmap3" /\ at[t] \in Slots
      BY <2>3 DEF my_fault_alloc, Step, DriverInv, TypeOK
    <3>3. \A i \in Slots : allocs'[i] = IF i = at[t] THEN allocs[i] \cup {pg} ELSE allocs[i]
      BY <3>1 DEF TypeOK
    <3>4. \A i \in Slots : pages'[i] # None => pages'[i] \in allocs'[i]
      BY <3>1, <3>2, <3>3 DEF TypeOK, OffsetInv
    <3>5. \A u \in Threads : seen'[u] = IF u = t THEN pg ELSE seen[u]
      BY <3>1 DEF TypeOK
    <3>6. \A u \in Threads : seen'[u] # None =>
            fault'[u] = "insert" /\ driver' = "mmap3" /\ seen'[u] \in allocs'[at'[u]]
      <4>1. /\ fault'[t] = "insert" /\ driver' = driver /\ at'[t] = at[t]
            /\ \A u \in Threads : u # t => fault'[u] = fault[u] /\ at'[u] = at[u]
        BY <2>1, <3>2 DEF FaultStates, InFault
      <4>2. seen'[t] = pg /\ pg \in allocs'[at'[t]]
        BY <3>2, <3>3, <3>5, <4>1
      <4>3. ASSUME NEW u \in Threads, u # t, seen'[u] # None
            PROVE  fault'[u] = "insert" /\ driver' = "mmap3" /\ seen'[u] \in allocs'[at'[u]]
        <5>1. seen'[u] = seen[u] /\ at[u] \in Slots
          BY <3>5, <4>3 DEF TypeOK
        <5>2. fault[u] = "insert" /\ seen[u] \in allocs[at[u]]
          BY <4>3, <5>1 DEF OffsetInv
        <5> QED
          BY <3>2, <3>3, <4>1, <4>3, <5>1, <5>2
      <4> QED
        BY <3>2, <4>1, <4>2, <4>3
    <3> QED
      BY <2>1, <3>2, <3>3, <3>4, <3>6 DEF OffsetInv, FaultStates
  <2>4. CASE my_fault_alloc_fails(t)
    <3>1. Step(t, "alloc", "insert") /\ UNCHANGED <<allocs, pte, seen>> /\ at[t] \in Slots
      BY <2>4 DEF my_fault_alloc_fails, TypeOK
    <3>2. \A i \in Slots : pages'[i] = pages[i] \/ pages'[i] = None
      BY <2>4, <3>1 DEF my_fault_alloc_fails, TypeOK
    <3> QED
      BY <2>1, <3>1, <3>2 DEF OffsetInv, FaultStates
  <2>5. CASE my_fault_insert_null(t)
    <3>1. /\ Step(t, "insert", "oops") /\ UNCHANGED <<pages, allocs, pte>>
          /\ \A u \in Threads : seen'[u] = IF u = t THEN None ELSE seen[u]
      BY <2>5 DEF my_fault_insert_null, TypeOK
    <3> QED
      BY <3>1, FaultMoves DEF OffsetInv, FaultStates, InFault
  <2>6. CASE my_fault_get(t)
    <3>1. Step(t, "get", "finish") /\ UNCHANGED <<pages, allocs, pte, seen>>
      BY <2>6 DEF my_fault_get
    <3> QED
      BY <2>1, <3>1 DEF OffsetInv, FaultStates
  <2>7. CASE my_fault_insert(t) \/ finish_fault(t)
    <3>1. PICK from \in {"insert", "finish"} : Step(t, from, "no")
      BY <2>7, InsertEffect
    <3>2. /\ UNCHANGED <<pages, allocs, driver>>
          /\ \A p \in Procs : at'[MainOf[p]] = 0
          /\ \A u \in Threads : u # t => fault'[u] = fault[u] /\ at'[u] = at[u]
          /\ \A u \in Threads : seen'[u] = None \/ (u # t /\ seen'[u] = seen[u])
      BY <2>7, <3>1, InsertEffect, FaultMoves DEF OffsetInv, FaultStates, InFault
    <3>3. \A p \in Procs, i \in Slots : pte'[p][i] # None => pte'[p][i] \in allocs[i]
      <4>1. ProcOf[t] \in Procs /\ at[t] \in Slots
        BY ThreadAssumption DEF TypeOK
      <4>2. ASSUME NEW pg \in allocs[at[t]], pte' = [pte EXCEPT ![ProcOf[t]][at[t]] = pg],
                   NEW p \in Procs, NEW i \in Slots
            PROVE  pte'[p][i] = pte[p][i] \/ (i = at[t] /\ pte'[p][i] = pg)
        BY <4>1, <4>2 DEF TypeOK
      <4>3. pte' = pte
            \/ \E pg \in allocs[at[t]] : pte' = [pte EXCEPT ![ProcOf[t]][at[t]] = pg]
        BY <2>7, InsertEffect
      <4>4. ASSUME NEW p \in Procs, NEW i \in Slots, pte'[p][i] # None
            PROVE  pte'[p][i] \in allocs[i]
        <5>1. pte[p][i] # None => pte[p][i] \in allocs[i]
          BY DEF OffsetInv
        <5>2. ASSUME NEW pg \in allocs[at[t]], pte' = [pte EXCEPT ![ProcOf[t]][at[t]] = pg]
              PROVE  pte'[p][i] \in allocs[i]
          <6>1. pte'[p][i] = pte[p][i] \/ (i = at[t] /\ pte'[p][i] = pg)
            BY <4>2, <5>2
          <6> QED
            BY <4>4, <5>1, <6>1
        <5> QED
          BY <4>3, <4>4, <5>1, <5>2
      <4> QED
        BY <4>4
    <3> QED
      BY <3>2, <3>3 DEF OffsetInv
  <2> QED
    BY <1>6, <2>2, <2>3, <2>4, <2>5, <2>6, <2>7 DEF my_fault
<1> QED
  BY <1>1, <1>2, <1>3, <1>4, <1>5, <1>6 DEF DevStep

-----------------------------------------------------------------------------
(* Who races with whom.                                                    *)

LEMMA RaceStep ==
  ASSUME IInv, DevStep
  PROVE  RaceInv'
<1> TypeOK /\ DriverInv /\ OffsetInv /\ RaceInv
  BY DEF IInv
<1> ProcOf \in [Threads -> Procs]
  BY ThreadAssumption
<1> DEFINE Company(t) == \E u \in Threads : u # t /\ ProcOf[u] = ProcOf[t]
<1> SUFFICES ASSUME NEW t \in Threads, fault'[t] \in InFault,
                    pte'[ProcOf[t]][at'[t]] # None
             PROVE  Company(t)
  BY DEF RaceInv, Present
<1>0. ASSUME fault[t] \in InFault, pte[ProcOf[t]][at[t]] # None
      PROVE  Company(t)
  BY <1>0 DEF RaceInv, Present
<1> HIDE DEF Company
<1>1. CASE UNCHANGED devVars
  BY <1>0, <1>1 DEF devVars, mmVars
<1>2. ASSUME NEW p \in Procs, my_mmap(p)
      PROVE  Company(t)
  <2>1. fault'[t] = fault[t] /\ at' = at /\ driver # "mmap1"
    BY <1>2 DEF my_mmap, DriverInv, InFault
  <2>2. pte' = pte
    BY <1>2, <2>1 DEF my_mmap
  <2> QED
    BY <1>0, <2>1, <2>2
<1>3. ASSUME NEW p \in Procs, Written(p)
      PROVE  Company(t)
  BY <1>0, <1>3 DEF Written, mmVars
<1>4. ASSUME NEW p \in Procs, Zapped(p)
      PROVE  Company(t)
  <2>1. at' = at /\ fault'[t] = fault[t]
    BY <1>4 DEF Zapped, InFault
  <2>2. ProcOf[t] \in Procs /\ at[t] \in Slots
    BY DEF TypeOK
  <2>3. \A r \in Procs, i \in Slots : pte'[r][i] = pte[r][i] \/ pte'[r][i] = None
    BY <1>4 DEF Zapped, Zap, TypeOK
  <2> QED
    BY <1>0, <2>1, <2>2, <2>3
<1>5. ASSUME NEW u \in Threads, NEW i \in Slots, FaultBegins(u, i)
      PROVE  Company(t)
  <2>1. pte' = pte
    BY <1>5 DEF FaultBegins, mmVars
  <2>2. t = u => at'[t] = i /\ pte[ProcOf[t]][i] = None
    BY <1>5 DEF FaultBegins, TypeOK
  <2>3. t # u => at'[t] = at[t] /\ fault'[t] = fault[t]
    BY <1>5 DEF FaultBegins, TypeOK
  <2> QED
    BY <1>0, <2>1, <2>2, <2>3
<1>6. ASSUME NEW u \in Threads, my_fault(u)
      PROVE  Company(t)
  <2>1. ASSUME NEW from \in InFault, NEW to \in FaultStates, Step(u, from, to), pte' = pte
        PROVE  Company(t)
    BY <1>0, <2>1, FaultMoves
  <2>2. CASE my_fault_check(u)
    BY <2>1, <2>2 DEF my_fault_check, FaultStates, InFault
  <2>3. CASE my_fault_alloc(u) \/ my_fault_alloc_fails(u)
    BY <2>1, <2>3 DEF my_fault_alloc, my_fault_alloc_fails, FaultStates, InFault
  <2>4. CASE my_fault_insert_null(u) \/ my_fault_get(u)
    BY <2>1, <2>4 DEF my_fault_insert_null, my_fault_get, FaultStates, InFault
  <2>5. CASE my_fault_insert(u) \/ finish_fault(u)
    <3>1. PICK from \in {"insert", "finish"} : Step(u, from, "no")
      BY <2>5, InsertEffect
    <3>2. fault'[u] = "no" /\ u # t /\ fault'[t] = fault[t] /\ at'[t] = at[t]
      BY <3>1, FaultMoves DEF FaultStates, InFault
    <3>3. CASE pte' = pte
      BY <1>0, <3>2, <3>3
    <3>4. CASE \E pg \in Pages : pte' = [pte EXCEPT ![ProcOf[u]][at[u]] = pg]
      <4>1. ProcOf[t] # ProcOf[u] => pte'[ProcOf[t]] = pte[ProcOf[t]]
        BY <3>4 DEF TypeOK
      <4> QED
        BY <1>0, <3>2, <4>1 DEF Company
    <3> QED
      BY <2>5, <3>3, <3>4, InsertEffect
  <2> QED
    BY <1>6, <2>2, <2>3, <2>4, <2>5 DEF my_fault
<1> QED
  BY <1>1, <1>2, <1>3, <1>4, <1>5, <1>6 DEF DevStep

LEMMA SigbusStep ==
  ASSUME IInv, DevStep
  PROVE  SigbusOnlyIf'
<1> TypeOK /\ DriverInv /\ OffsetInv /\ RaceInv /\ SigbusOnlyIf
  BY DEF IInv
<1>0. ASSUME killed' \subseteq killed, driver' = driver, shortage' = shortage
      PROVE  SigbusOnlyIf'
  BY <1>0 DEF SigbusOnlyIf
<1>1. CASE UNCHANGED devVars
  BY <1>0, <1>1 DEF devVars, driverVars
<1>2. ASSUME NEW p \in Procs, my_mmap(p) \/ Written(p) \/ Zapped(p)
      PROVE  SigbusOnlyIf'
  BY <1>0, <1>2 DEF my_mmap, Written, Zapped, Zap, driverVars
<1>3. ASSUME NEW t \in Threads, NEW i \in Slots, FaultBegins(t, i)
      PROVE  SigbusOnlyIf'
  BY <1>0, <1>3 DEF FaultBegins, driverVars
<1>4. ASSUME NEW t \in Threads, my_fault(t)
      PROVE  SigbusOnlyIf'
  <2>1. driver' = driver /\ shortage' = shortage
    BY <1>4 DEF my_fault, my_fault_check, my_fault_alloc, my_fault_alloc_fails, my_fault_insert,
                my_fault_insert_null, my_fault_get, finish_fault, Step
  <2>2. CASE my_fault_check(t) \/ my_fault_alloc(t) \/ my_fault_alloc_fails(t)
    BY <1>0, <2>1, <2>2 DEF my_fault_check, my_fault_alloc, my_fault_alloc_fails
  <2>3. CASE my_fault_insert_null(t) \/ my_fault_get(t)
    BY <1>0, <2>1, <2>3 DEF my_fault_insert_null, my_fault_get
  <2>4. CASE my_fault_insert(t) \/ finish_fault(t)
    <3>1. CASE /\ Present(t) \/ shortage
               /\ killed' = killed \cup {ProcOf[t]}
               /\ driver \in {"mmap2", "mmap3"} /\ fault[t] = "insert"
      <4>1. ASSUME Present(t)
            PROVE  \E u \in Threads : u # t /\ ProcOf[u] = ProcOf[t]
        BY <3>1, <4>1 DEF RaceInv, InFault
      <4>2. shortage \/ \E v \in Threads : ProcOf[v] = ProcOf[t] /\ v # MainOf[ProcOf[t]]
        BY <3>1, <4>1
      <4> QED
        BY <2>1, <3>1, <4>2 DEF SigbusOnlyIf
    <3> QED
      BY <1>0, <2>1, <2>4, <3>1, InsertEffect
  <2> QED
    BY <1>4, <2>2, <2>3, <2>4 DEF my_fault
<1> QED
  BY <1>1, <1>2, <1>3, <1>4 DEF DevStep

-----------------------------------------------------------------------------
(* What the driver allocates, and what it loses.                           *)

(* An allocation takes a page that the driver does not have. *)
LEMMA AllocEffect ==
  ASSUME TypeOK, DriverInv, RefsExact, NEW t \in Threads, my_fault_alloc(t)
  PROVE  \E pg \in Pages :
           /\ count[pg] = 0 /\ \A i \in Slots : pg \notin allocs[i]
           /\ at[t] \in Slots /\ driver = "mmap3" /\ Step(t, "alloc", "insert")
           /\ \A i \in Slots : allocs'[i] = IF i = at[t] THEN allocs[i] \cup {pg} ELSE allocs[i]
           /\ \A i \in Slots : pages'[i] = IF i = at[t] THEN pg ELSE pages[i]
           /\ \A q \in Pages : content'[q] = IF q = pg THEN "old" ELSE content[q]
<1>1. \E q \in Pages : count[q] = 0
  BY DEF my_fault_alloc
<1> DEFINE pg == CHOOSE q \in Pages : count[q] = 0
<1>2. pg \in Pages /\ count[pg] = 0
  BY <1>1
<1>3. /\ allocs' = [allocs EXCEPT ![at[t]] = @ \cup {pg}]
      /\ pages' = [pages EXCEPT ![at[t]] = pg]
      /\ content' = [content EXCEPT ![pg] = "old"]
      /\ Step(t, "alloc", "insert")
  BY DEF my_fault_alloc
<1> HIDE DEF pg
<1>4. at[t] \in Slots /\ driver = "mmap3"
  BY <1>3 DEF Step, DriverInv, TypeOK
<1>5. \A i \in Slots : pg \notin allocs[i]
  BY <1>2, FreeIsUnused
<1> QED
  BY <1>2, <1>3, <1>4, <1>5 DEF TypeOK

(* Only an allocation and a write change what the driver has. *)
LEMMA DataEffect ==
  ASSUME TypeOK, DriverInv, OffsetInv, RefsExact, DevStep
  PROVE  /\ UNCHANGED <<driver, shortage>> /\ \A i \in Slots : allocs[i] \subseteq allocs'[i]
         /\ \/ UNCHANGED <<allocs, content>>
            \/ allocs' = allocs /\ \E p \in Procs : Written(p)
            \/ \E t \in Threads : my_fault_alloc(t)
<1>1. ASSUME NEW t \in Threads, my_fault(t)
      PROVE  /\ UNCHANGED <<driver, shortage>> /\ \A i \in Slots : allocs[i] \subseteq allocs'[i]
             /\ UNCHANGED <<allocs, content>> \/ my_fault_alloc(t)
  <2>1. UNCHANGED <<driver, shortage>>
    BY <1>1 DEF my_fault, my_fault_check, my_fault_alloc, my_fault_alloc_fails, my_fault_insert,
                my_fault_insert_null, my_fault_get, finish_fault, Step
  <2>2. UNCHANGED <<allocs, content>> \/ my_fault_alloc(t)
    BY <1>1 DEF my_fault, my_fault_check, my_fault_alloc_fails, my_fault_insert,
                my_fault_insert_null, my_fault_get, finish_fault
  <2>3. my_fault_alloc(t) => \A i \in Slots : allocs[i] \subseteq allocs'[i]
    BY AllocEffect
  <2> QED
    BY <2>1, <2>2, <2>3
<1> QED
  BY <1>1 DEF DevStep, devVars, driverVars, my_mmap, Written, Zapped, Zap, FaultBegins

(* In mmap3 a page in use is one the driver has allocated. *)
LEMMA UsedIsOwned ==
  ASSUME TypeOK, DriverInv, OffsetInv, RefsExact, driver = "mmap3",
         NEW pg \in Pages, count[pg] # 0
  PROVE  \E i \in Slots : pg \in allocs[i]
<1> SUFFICES ASSUME \A i \in Slots : pg \notin allocs[i]
             PROVE  FALSE
  OBVIOUS
<1>1. Owning(pg) = {}
  BY DEF Owning
<1>2. Mappings(pg) = {}
  BY NoneAssumption DEF Mappings, OffsetInv
<1>3. Finishing(pg) = {}
  BY DEF Finishing, DriverInv
<1>4. Cardinality({}) = 0
  BY FS_EmptySet
<1> QED
  BY <1>1, <1>2, <1>3, <1>4, Counts

(* When the pages are used up they stay so. *)
LEMMA Exhausted ==
  ASSUME TypeOK, DriverInv, OffsetInv, RefsExact, TypeOK', RefsExact', DevStep,
         driver = "mmap3", Free = {}
  PROVE  Free' = {}
<1>1. ASSUME NEW pg \in Pages
      PROVE  count'[pg] # 0
  <2>1. PICK i \in Slots : pg \in allocs[i]
    BY UsedIsOwned DEF Free
  <2>2. pg \in allocs'[i]
    BY <2>1, DataEffect
  <2>3. pg \in Pages /\ i \in Owning(pg)'
    BY <2>2 DEF Owning
  <2>4. Owning(pg)' \subseteq Slots /\ Finishing(pg)' \subseteq Threads
        /\ Mappings(pg)' \subseteq Procs \X Slots
    BY DEF Owning, Finishing, Mappings
  <2>5. Cardinality(Owning(pg)') # 0
    BY <2>3, <2>4, FiniteSets, FS_EmptySet
  <2>6. count'[pg] = Cardinality(Owning(pg)') + (IF Counted' THEN Cardinality(Mappings(pg)') ELSE 0)
                       + Cardinality(Finishing(pg)')
    BY DEF RefsExact, Owning, Finishing
  <2> QED
    BY <2>4, <2>5, <2>6, FiniteSets
<1> QED
  BY <1>1 DEF Free

Accessors(i) == IF i = 0 THEN Threads ELSE Helpers

LEMMA AllocatingSets ==
  ASSUME OffsetInv, NEW i \in Slots
  PROVE  /\ Allocating(i) \subseteq Accessors(i) /\ Accessors(i) \subseteq Threads
         /\ IsFiniteSet(Allocating(i)) /\ Cardinality(Allocating(i)) \in Nat
         /\ IsFiniteSet(Accessors(i)) /\ Cardinality(Accessors(i)) \in Nat
         /\ Cardinality(Allocating(i)) <= Cardinality(Accessors(i))
<1>1. Allocating(i) \subseteq Accessors(i) /\ Accessors(i) \subseteq Threads
  BY DEF Allocating, Accessors, Helpers, OffsetInv
<1> QED
  BY <1>1, FiniteSets, FS_Subset

LEMMA AllocatingSetsNext ==
  ASSUME OffsetInv', NEW i \in Slots
  PROVE  /\ Allocating(i)' \subseteq Accessors(i)
         /\ Cardinality(Allocating(i)') \in Nat
         /\ Cardinality(Allocating(i)') <= Cardinality(Accessors(i))
<1>1. Allocating(i)' \subseteq Accessors(i) /\ Accessors(i) \subseteq Threads
  BY DEF Allocating, Accessors, Helpers, OffsetInv
<1> QED
  BY <1>1, FiniteSets, FS_Subset

(* Steps that neither allocate nor find that they have to. *)
LEMMA LossKept ==
  ASSUME IInv, OffsetInv', DevStep, driver = "mmap3", Free = {} => Free' = {},
         UNCHANGED <<driver, shortage, pages, allocs>>,
         \A t \in Threads : fault'[t] = "alloc" => fault[t] = "alloc" /\ at'[t] = at[t]
  PROVE  LossInv' /\ LossBounded'
<1> USE DEF IInv
<1>1. LossBounded'
  BY DEF LossBounded
<1>2. ASSUME NEW i \in Slots
      PROVE  Cardinality(Allocating(i)') <= Cardinality(Allocating(i))
             /\ Cardinality(Allocating(i)') \in Nat /\ Cardinality(Allocating(i)) \in Nat
  <2>1. Allocating(i)' \subseteq Allocating(i)
    BY DEF Allocating
  <2> QED
    BY <2>1, AllocatingSets, AllocatingSetsNext, FS_Subset
<1>3. \A i \in Slots : Cardinality(allocs[i]) \in Nat /\ Cardinality(Accessors(i)) \in Nat
  BY FiniteSets, AllocatingSets DEF TypeOK
<1>4. LossInv'
  <2> SUFFICES ASSUME ~shortage, NEW i \in Slots, Free' # {}
               PROVE  /\ pages[i] = None => allocs[i] = {}
                      /\ Cardinality(allocs[i]) + Cardinality(Allocating(i)')
                           <= Cardinality(Accessors(i))
    BY DEF LossInv, Accessors
  <2>1. /\ pages[i] = None => allocs[i] = {}
        /\ Cardinality(allocs[i]) + Cardinality(Allocating(i)) <= Cardinality(Accessors(i))
    BY DEF LossInv, Accessors
  <2> QED
    BY <1>2, <1>3, <2>1
<1> QED
  BY <1>1, <1>4

LEMMA LossStep ==
  ASSUME IInv, TypeOK', RefsExact', OffsetInv', DevStep
  PROVE  LossInv' /\ LossBounded'
<1> TypeOK /\ DriverInv /\ OffsetInv /\ RefsExact /\ LossInv /\ LossBounded
  BY DEF IInv
<1>0. UNCHANGED <<driver, shortage>>
  BY DataEffect
<1> SUFFICES ASSUME driver = "mmap3", ~shortage
             PROVE  LossInv' /\ LossBounded'
  BY <1>0 DEF LossInv, LossBounded
<1>00. Free = {} => Free' = {}
  BY Exhausted
<1>1. CASE UNCHANGED devVars
  BY <1>00, <1>1, LossKept DEF devVars, driverVars
<1>2. ASSUME NEW p \in Procs, my_mmap(p) \/ Written(p)
      PROVE  LossInv' /\ LossBounded'
  BY <1>00, <1>2, LossKept DEF my_mmap, Written, driverVars
<1>3. ASSUME NEW p \in Procs, Zapped(p)
      PROVE  LossInv' /\ LossBounded'
  BY <1>00, <1>3, LossKept DEF Zapped, Zap, driverVars
<1>4. ASSUME NEW t \in Threads, NEW i \in Slots, FaultBegins(t, i)
      PROVE  LossInv' /\ LossBounded'
  <2>1. /\ \A u \in Threads : u # t => fault'[u] = fault[u] /\ at'[u] = at[u]
        /\ fault'[t] = FirstStep[driver] /\ UNCHANGED driverVars
    BY <1>4 DEF FaultBegins, TypeOK
  <2>2. fault'[t] = "check"
    BY <2>1 DEF FirstStep
  <2> QED
    BY <1>00, <2>1, <2>2, LossKept DEF driverVars
<1>5. ASSUME NEW t \in Threads, my_fault(t)
      PROVE  LossInv' /\ LossBounded'
  <2>1. ASSUME NEW from, NEW to \in FaultStates, Step(t, from, to), to # "alloc",
               UNCHANGED <<pages, allocs>>
        PROVE  LossInv' /\ LossBounded'
    BY <1>0, <1>00, <2>1, FaultMoves, LossKept
  <2>2. CASE my_fault_check(t) /\ pages[at[t]] # None
    BY <2>1, <2>2 DEF my_fault_check, FaultStates
  <2>3. CASE my_fault_check(t) /\ pages[at[t]] = None
    <3>1. Step(t, "check", "alloc") /\ UNCHANGED <<pages, allocs>>
      BY <2>3 DEF my_fault_check
    <3>2. /\ fault'[t] = "alloc" /\ at'[t] = at[t] /\ at[t] \in Slots
          /\ \A u \in Threads : u # t => fault'[u] = fault[u] /\ at'[u] = at[u]
      BY <3>1, FaultMoves DEF FaultStates, InFault, TypeOK
    <3>3. LossBounded'
      BY <1>0, <3>1 DEF LossBounded
    <3>4. ASSUME NEW i \in Slots, Free' # {}
          PROVE  /\ pages'[i] = None => allocs'[i] = {}
                 /\ Cardinality(allocs'[i]) + Cardinality(Allocating(i)')
                      <= Cardinality(Accessors(i))
      <4>1. /\ pages[i] = None => allocs[i] = {}
            /\ Cardinality(allocs[i]) + Cardinality(Allocating(i)) <= Cardinality(Accessors(i))
        BY <1>00, <3>4 DEF LossInv, Accessors
      <4>2. CASE i = at[t]
        <5>1. Cardinality(allocs'[i]) = 0
          BY <2>3, <3>1, <4>1, <4>2, FS_EmptySet
        <5> QED
          BY <3>1, <4>1, <5>1, AllocatingSetsNext
      <4>3. CASE i # at[t]
        <5>1. Allocating(i)' = Allocating(i)
          BY <3>2, <4>3 DEF Allocating
        <5> QED
          BY <3>1, <4>1, <5>1
      <4> QED
        BY <4>2, <4>3
    <3> QED
      BY <3>3, <3>4 DEF LossInv, Accessors
  <2>4. CASE my_fault_alloc(t)
    <3>1. PICK pg \in Pages :
            /\ count[pg] = 0 /\ \A i \in Slots : pg \notin allocs[i]
            /\ at[t] \in Slots /\ Step(t, "alloc", "insert")
            /\ \A i \in Slots : allocs'[i] = IF i = at[t] THEN allocs[i] \cup {pg} ELSE allocs[i]
            /\ \A i \in Slots : pages'[i] = IF i = at[t] THEN pg ELSE pages[i]
      BY <2>4, AllocEffect
    <3>2. Free # {}
      BY <3>1 DEF Free
    <3>3. /\ fault[t] = "alloc" /\ fault'[t] = "insert"
          /\ \A u \in Threads : u # t => fault'[u] = fault[u] /\ at'[u] = at[u]
      BY <3>1, FaultMoves DEF FaultStates
    <3>4. ASSUME NEW i \in Slots
          PROVE  /\ pages'[i] = None => allocs'[i] = {}
                 /\ Cardinality(allocs'[i]) + Cardinality(Allocating(i)')
                      <= Cardinality(Accessors(i))
                 /\ Cardinality(allocs'[i]) <= Cardinality(Accessors(i))
      <4>1. /\ pages[i] = None => allocs[i] = {}
            /\ Cardinality(allocs[i]) + Cardinality(Allocating(i)) <= Cardinality(Accessors(i))
        BY <3>2 DEF LossInv, Accessors
      <4>2. /\ IsFiniteSet(allocs[i]) /\ Cardinality(allocs[i]) \in Nat
            /\ Cardinality(Allocating(i)) \in Nat /\ IsFiniteSet(Allocating(i))
            /\ Cardinality(Allocating(i)') \in Nat /\ Cardinality(Accessors(i)) \in Nat
        BY FiniteSets, AllocatingSets, AllocatingSetsNext DEF TypeOK
      <4>3. CASE i = at[t]
        <5>0. allocs'[i] = allocs[i] \cup {pg} /\ pg \notin allocs[i]
          BY <3>1, <4>3
        <5>1. Cardinality(allocs'[i]) = Cardinality(allocs[i]) + 1
          BY <4>2, <5>0, FS_AddElement
        <5>2. Allocating(i)' = Allocating(i) \ {t} /\ t \in Allocating(i)
          BY <3>3, <4>3 DEF Allocating
        <5>3. Cardinality(Allocating(i)') = Cardinality(Allocating(i)) - 1
          BY <4>2, <5>2, FS_RemoveElement
        <5>4. pages'[i] # None
          BY <3>1, <4>3, NoneAssumption
        <5> QED
          BY <4>1, <4>2, <5>1, <5>3, <5>4
      <4>4. CASE i # at[t]
        <5>1. Allocating(i)' = Allocating(i)
          BY <3>3, <4>4 DEF Allocating
        <5>2. allocs'[i] = allocs[i] /\ pages'[i] = pages[i]
          BY <3>1, <4>4
        <5> QED
          BY <4>1, <4>2, <5>1, <5>2
      <4> QED
        BY <4>3, <4>4
    <3> QED
      BY <3>4 DEF LossInv, LossBounded, Accessors
  <2>5. CASE my_fault_alloc_fails(t)
    <3>1. Free = {} /\ allocs' = allocs
      BY <2>5 DEF my_fault_alloc_fails, Free
    <3> QED
      BY <1>0, <1>00, <3>1 DEF LossInv, LossBounded
  <2>6. CASE my_fault_insert_null(t) \/ my_fault_get(t)
    BY <2>1, <2>6 DEF my_fault_insert_null, my_fault_get, FaultStates
  <2>7. CASE my_fault_insert(t) \/ finish_fault(t)
    BY <2>1, <2>7, InsertEffect DEF FaultStates
  <2> QED
    BY <1>5, <2>2, <2>3, <2>4, <2>5, <2>6, <2>7 DEF my_fault
<1> QED
  BY <1>1, <1>2, <1>3, <1>4, <1>5 DEF DevStep

-----------------------------------------------------------------------------
(* What the program reads.                                                 *)

Late == {"munmap1", "mmap2", "read", "munmap2"}

(* How the program gets on: it enters the late positions by its write, and *)
(* what it has got is what the page of its mapping contains.               *)
LEMMA ProgramMoves ==
  ASSUME TypeOK, [Next]_vars, NEW p \in Procs
  PROVE  /\ pc'[p] \in Late => pc[p] \in Late \/ Written(p)
         /\ \/ got'[p] = got[p] \/ got'[p] = "none"
            \/ pc[p] = "read" /\ pte[p][0] # None /\ got'[p] = content[pte[p][0]]
<1>1. ASSUME NEW q \in Procs, Map(q) \/ Unmap(q)
      PROVE  (pc'[p] \in Late => pc[p] \in Late) /\ got' = got
  BY <1>1 DEF Map, Unmap, MainGoto, Late, TypeOK
<1>2. ASSUME NEW q \in Procs, Write(q)
      PROVE  (pc'[p] \in Late => pc[p] \in Late \/ Written(p)) /\ got' = got
  <2>1. Written(q) /\ got' = got /\ (q # p => pc'[p] = pc[p])
    BY <1>2 DEF Write, Written, MainGoto, TypeOK
  <2> QED
    BY <2>1
<1>3. ASSUME NEW q \in Procs, Read(q)
      PROVE  /\ pc'[p] \in Late => pc[p] \in Late
             /\ \/ got'[p] = got[p]
                \/ pc[p] = "read" /\ pte[p][0] # None /\ got'[p] = content[pte[p][0]]
  BY <1>3 DEF Read, MainGoto, Late, TypeOK
<1>4. ASSUME NEW q \in Procs, Close(q)
      PROVE  (pc'[p] \in Late => pc[p] \in Late) /\ (got'[p] = got[p] \/ got'[p] = "none")
  BY <1>4 DEF Close, MainGoto, Late, TypeOK
<1>5. ASSUME NEW q \in Procs, ProcessEnds(q)
      PROVE  (pc'[p] \in Late => pc[p] \in Late) /\ (got'[p] = got[p] \/ got'[p] = "none")
  BY <1>5 DEF ProcessEnds, Late, TypeOK
<1>6. CASE UNCHANGED <<pc, got>>
  BY <1>6
<1> QED
  BY <1>1, <1>2, <1>3, <1>4, <1>5, <1>6 DEF Next, MainStep, AccessFaults, HelperTouches, Fault, vars

(* A page more is a page replaced, once the program has written. *)
LEMMA ReplacedStep ==
  ASSUME TypeOK, DriverInv, OffsetInv, RefsExact, TypeOK', DevStep, Replaced
  PROVE  Replaced'
<1>1. allocs[0] \subseteq allocs'[0] /\ driver' = driver
  BY DataEffect, ZeroSlot
<1>2. allocs[0] \subseteq Pages /\ allocs'[0] \subseteq Pages
  BY ZeroSlot DEF TypeOK
<1>3. /\ IsFiniteSet(allocs'[0])
      /\ Cardinality(allocs'[0]) \in Nat /\ Cardinality(allocs[0]) \in Nat
      /\ Cardinality(allocs[0]) <= Cardinality(allocs'[0])
  BY <1>1, <1>2, FiniteSets, FS_Subset
<1> QED
  BY <1>1, <1>3 DEF Replaced

LEMMA PairSize ==
  ASSUME NEW a, NEW b, a # b
  PROVE  Cardinality({a, b}) = 2
<1>1. IsFiniteSet({a}) /\ Cardinality({a}) = 1
  BY FS_Singleton
<1>2. {a, b} = {a} \cup {b} /\ b \notin {a}
  OBVIOUS
<1> QED
  BY <1>1, <1>2, FS_AddElement

(* What a process maps there is the one page of offset 0, unless replaced. *)
LEMMA OnePage ==
  ASSUME TypeOK, DriverInv, NEW pg \in allocs[0], ~Replaced
  PROVE  allocs[0] = {pg}
<1>1. CASE driver # "mmap3"
  BY <1>1, ZeroSlot DEF DriverInv
<1>2. CASE driver = "mmap3"
  <2>1. IsFiniteSet(allocs[0]) /\ Cardinality(allocs[0]) \in Nat
    BY FiniteSets, ZeroSlot DEF TypeOK
  <2>2. Cardinality(allocs[0]) <= 1
    BY <1>2, <2>1 DEF Replaced
  <2>3. ASSUME NEW q \in allocs[0], q # pg
        PROVE  FALSE
    <3>1. {pg, q} \subseteq allocs[0] /\ Cardinality({pg, q}) = 2
      BY <2>3, PairSize
    <3>2. Cardinality({pg, q}) <= Cardinality(allocs[0])
      BY <2>1, <3>1, FS_Subset
    <3> QED
      BY <2>1, <2>2, <3>1, <3>2
  <2> QED
    BY <2>3
<1> QED
  BY <1>1, <1>2

(* A second page for offset 0. *)
LEMMA TwoPages ==
  ASSUME TypeOK', NEW pg, NEW q, pg # q, pg \in allocs'[0], q \in allocs'[0], driver' = "mmap3"
  PROVE  Replaced'
<1>1. IsFiniteSet(allocs'[0]) /\ Cardinality(allocs'[0]) \in Nat
  BY FiniteSets, ZeroSlot DEF TypeOK
<1>2. {pg, q} \subseteq allocs'[0] /\ Cardinality({pg, q}) = 2
  BY PairSize
<1>3. Cardinality({pg, q}) <= Cardinality(allocs'[0])
  BY <1>1, <1>2, FS_Subset
<1> QED
  BY <1>1, <1>2, <1>3 DEF Replaced

LEMMA WrittenStep ==
  ASSUME IInv, TypeOK', [Next]_vars
  PROVE  WrittenInv'
<1> TypeOK /\ DriverInv /\ OffsetInv /\ RefsExact /\ WrittenInv
  BY DEF IInv
<1> DevStep
  BY NextDev
<1> SUFFICES ASSUME NEW p \in Procs, pc'[p] \in Late, ~Replaced'
             PROVE  allocs'[0] # {} /\ \A pg \in allocs'[0] : content'[pg] = "test"
  BY DEF WrittenInv, Late
<1>1. ~Replaced /\ driver' = driver
  BY ReplacedStep, DataEffect
<1>2. pc[p] \in Late => allocs[0] # {} /\ \A pg \in allocs[0] : content[pg] = "test"
  BY <1>1 DEF WrittenInv, Late
<1>3. pc[p] \in Late \/ Written(p)
  BY ProgramMoves
<1>4. ASSUME NEW q \in Procs, Written(q)
      PROVE  allocs'[0] # {} /\ \A pg \in allocs'[0] : content'[pg] = "test"
  <2>1. /\ pte[q][0] \in allocs[0] /\ allocs' = allocs
        /\ content' = [content EXCEPT ![pte[q][0]] = "test"]
    BY <1>4, ZeroSlot DEF Written, driverVars, OffsetInv
  <2>2. allocs[0] = {pte[q][0]} /\ pte[q][0] \in Pages
    BY <1>1, <2>1, OnePage, ZeroSlot DEF TypeOK
  <2> QED
    BY <2>1, <2>2 DEF TypeOK
<1>5. ASSUME pc[p] \in Late, NEW t \in Threads, my_fault_alloc(t)
      PROVE  allocs'[0] # {} /\ \A pg \in allocs'[0] : content'[pg] = "test"
  <2>1. PICK pg \in Pages :
          /\ \A i \in Slots : pg \notin allocs[i]
          /\ driver = "mmap3"
          /\ \A i \in Slots : allocs'[i] = IF i = at[t] THEN allocs[i] \cup {pg} ELSE allocs[i]
          /\ \A q \in Pages : content'[q] = IF q = pg THEN "old" ELSE content[q]
    BY <1>5, AllocEffect
  <2>2. CASE at[t] = 0
    <3>1. PICK q : q \in allocs[0]
      BY <1>2, <1>5
    <3>2. q # pg /\ q \in allocs'[0] /\ pg \in allocs'[0]
      BY <2>1, <2>2, <3>1, ZeroSlot
    <3> QED
      BY <1>1, <2>1, <3>2, TwoPages
  <2>3. CASE at[t] # 0
    <3>1. allocs'[0] = allocs[0] /\ pg \notin allocs[0] /\ allocs[0] \subseteq Pages
      BY <2>1, <2>3, ZeroSlot DEF TypeOK
    <3> QED
      BY <1>2, <1>5, <2>1, <3>1
  <2> QED
    BY <2>2, <2>3
<1> QED
  BY <1>2, <1>3, <1>4, <1>5, DataEffect

LEMMA ReadStep ==
  ASSUME IInv, TypeOK', [Next]_vars
  PROVE  ReadBackUnlessReplaced'
<1> TypeOK /\ DriverInv /\ OffsetInv /\ RefsExact /\ WrittenInv /\ ReadBackUnlessReplaced
  BY DEF IInv
<1> DevStep
  BY NextDev
<1> SUFFICES ASSUME NEW p \in Procs, got'[p] \notin {"none", "test"}
             PROVE  Replaced'
  BY DEF ReadBackUnlessReplaced, Replaced
<1>1. CASE got'[p] = got[p]
  BY <1>1, ReplacedStep DEF ReadBackUnlessReplaced, Replaced
<1>2. CASE pc[p] = "read" /\ pte[p][0] # None /\ got'[p] = content[pte[p][0]]
  <2>1. pte[p][0] \in allocs[0]
    BY <1>2, ZeroSlot DEF OffsetInv
  <2>2. Replaced
    BY <1>2, <2>1 DEF WrittenInv
  <2> QED
    BY <2>2, ReplacedStep
<1> QED
  BY <1>1, <1>2, ProgramMoves

-----------------------------------------------------------------------------
(* The inductive invariant.                                                *)

LEMMA InitRefs == Init => RefsExact
<1> SUFFICES ASSUME Init, NEW pg \in Pages
             PROVE  count[pg] = Cardinality(Owning(pg))
                                + (IF Counted THEN Cardinality(Mappings(pg)) ELSE 0)
                                + Cardinality(Finishing(pg))
  BY DEF RefsExact, Owning, Finishing
<1>1. Mappings(pg) = {} /\ Finishing(pg) = {}
  BY NoneAssumption DEF Init, DevInit, Mappings, Finishing
<1>2. Cardinality({}) = 0
  BY FS_EmptySet
<1>3. CASE driver = "mmap3"
  <2>1. Owning(pg) = {} /\ count[pg] = 0
    BY <1>3 DEF Init, DevInit, Owning
  <2> QED
    BY <1>1, <1>2, <2>1
<1>4. CASE driver # "mmap3"
  <2>1. /\ count[pg] = IF \E i \in Slots : kaddr[i] = pg THEN 1 ELSE 0
        /\ Owning(pg) = {i \in Slots : kaddr[i] = pg}
    BY <1>4 DEF Init, DevInit, Owning
  <2>2. CASE \E i \in Slots : kaddr[i] = pg
    <3>1. PICK i \in Slots : Owning(pg) = {i}
      BY <2>1, <2>2, Block
    <3>2. Cardinality({i}) = 1
      BY FS_Singleton
    <3> QED
      BY <1>1, <1>2, <2>1, <2>2, <3>1, <3>2
  <2>3. CASE ~\E i \in Slots : kaddr[i] = pg
    BY <1>1, <1>2, <2>1, <2>3
  <2> QED
    BY <2>2, <2>3
<1> QED
  BY <1>3, <1>4

LEMMA InitInv == Init => IInv
<1> SUFFICES ASSUME Init PROVE IInv
  OBVIOUS
<1>1. TypeOK /\ RefsExact
  BY InitType, InitRefs
<1>2. DriverInv
  BY <1>1, Block, NoneAssumption DEF Init, DevInit, DriverInv, TypeOK
<1>3. OffsetInv
  <2>1. \A i \in Slots : pages[i] # None => pages[i] \in allocs[i]
    BY <1>1, <1>2 DEF DriverInv, Init, DevInit
  <2> QED
    BY <2>1, MainAssumption DEF Init, DevInit, OffsetInv
<1>4. RaceInv /\ SigbusOnlyIf /\ WrittenInv /\ ReadBackUnlessReplaced
  BY DEF Init, DevInit, RaceInv, InFault, SigbusOnlyIf, WrittenInv, ReadBackUnlessReplaced
<1>5. LossInv /\ LossBounded
  <2>1. ASSUME driver = "mmap3", NEW i \in Slots
        PROVE  /\ allocs[i] = {}
               /\ Cardinality(allocs[i]) + Cardinality(Allocating(i)) <= Cardinality(Accessors(i))
               /\ Cardinality(allocs[i]) <= Cardinality(Accessors(i))
    <3>1. allocs[i] = {} /\ Allocating(i) = {}
      BY <2>1 DEF Init, DevInit, Allocating
    <3> QED
      BY <1>3, <3>1, AllocatingSets, FS_EmptySet
  <2> QED
    BY <2>1 DEF LossInv, LossBounded, Accessors
<1> QED
  BY <1>1, <1>2, <1>3, <1>4, <1>5 DEF IInv

LEMMA IInvStep ==
  ASSUME IInv, [Next]_vars
  PROVE  IInv'
<1>1. DevStep
  BY NextDev DEF IInv
<1>2. TypeOK'
  BY TypeStep
<1>3. RefsExact'
  BY <1>1, CountStep DEF IInv
<1>4. DriverInv' /\ OffsetInv' /\ RaceInv' /\ SigbusOnlyIf'
  BY <1>1, DriverStep, OffsetStep, RaceStep, SigbusStep
<1>5. LossInv' /\ LossBounded'
  BY <1>1, <1>2, <1>3, <1>4, LossStep
<1>6. WrittenInv' /\ ReadBackUnlessReplaced'
  BY <1>2, WrittenStep, ReadStep
<1> QED
  BY <1>2, <1>3, <1>4, <1>5, <1>6 DEF IInv

(* The invariant holds in every state of every run, however many threads,  *)
(* processes and pages there are and whichever driver is loaded.           *)
THEOREM Invariance == Spec => []IInv
<1>1. Init => IInv
  BY InitInv
<1>2. IInv /\ [Next]_vars => IInv'
  BY IInvStep
<1> QED
  BY <1>1, <1>2, PTL DEF Spec

-----------------------------------------------------------------------------
(* What it says about the drivers and the program.                         *)

(* Drivers, page tables, faults and program keep to their types: no page   *)
(* count becomes negative, and no driver has anything but its own pages.   *)
THEOREM TypeCorrect == Spec => []TypeOK
<1>1. IInv => TypeOK
  BY DEF IInv
<1> QED
  BY <1>1, Invariance, PTL

(* No interleaving of faults, munmap and exiting processes unbalances a    *)
(* page count of mmap1 to mmap4.                                           *)
THEOREM CountsAreExact == Spec => []RefsExact
<1>1. IInv => RefsExact
  BY DEF IInv
<1> QED
  BY <1>1, Invariance, PTL

(* The pages mmap3 allocates for an offset never outnumber the threads     *)
(* that access it, for any number of threads and of runs of the program.   *)
THEOREM LossIsBounded == Spec => []LossBounded
<1>1. IInv => LossBounded
  BY DEF IInv
<1> QED
  BY <1>1, Invariance, PTL

(* Only the racing threads of one process get SIGBUS, in mmap2 and mmap3.  *)
THEOREM SigbusIsExplained == Spec => []SigbusOnlyIf
<1>1. IInv => SigbusOnlyIf
  BY DEF IInv
<1> QED
  BY <1>1, Invariance, PTL

(* A process reads what it has written, unless mmap3 replaced the page.    *)
THEOREM WhatIsWrittenIsRead == Spec => []ReadBackUnlessReplaced
<1>1. IInv => ReadBackUnlessReplaced
  BY DEF IInv
<1> QED
  BY <1>1, Invariance, PTL

=============================================================================
