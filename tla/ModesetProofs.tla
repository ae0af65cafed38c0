--------------------------- MODULE ModesetProofs ----------------------------
(* Theorems about Modeset, for every value of its constants. *)
EXTENDS Modeset, FiniteSetTheorems, TLAPS

-----------------------------------------------------------------------------
(* Sequences of calls.                                                     *)

CallSet ==
  {getchar[1]} \cup
    ({"create", "addfb", "mmap", "fill", "read", "munmap", "rmfb", "destroy", "setcrtc",
      "setplane", "blob", "commit_crtc", "commit_plane"} \X {1, 2})

LEMMA TailIndex ==
  ASSUME NEW calls \in Seq(CallSet), calls # <<>>
  PROVE  /\ Tail(calls) \in Seq(CallSet) /\ Len(calls) \in Nat \ {0}
         /\ Len(Tail(calls)) = Len(calls) - 1
         /\ \A i \in 1 .. Len(Tail(calls)) : Tail(calls)[i] = calls[i + 1]
         /\ Head(calls) = calls[1]
  OBVIOUS

(* The rest of a program has the order of the program. *)
LEMMA TailInOrder ==
  ASSUME NEW calls \in Seq(CallSet), calls # <<>>, NEW X, NEW Y
  PROVE  /\ NotAfter(calls, X, Y) => NotAfter(Tail(calls), X, Y)
         /\ Later(calls, X, Y) => Later(Tail(calls), X, Y)
<1>1. ASSUME NotAfter(calls, X, Y) PROVE NotAfter(Tail(calls), X, Y)
  BY <1>1, TailIndex DEF NotAfter
<1>2. ASSUME Later(calls, X, Y), NEW i \in 1 .. Len(Tail(calls)), Tail(calls)[i] \in X
      PROVE  \E j \in 1 .. Len(Tail(calls)) : i < j /\ Tail(calls)[j] \in Y
  <2>1. PICK j \in 1 .. Len(calls) : i + 1 < j /\ calls[j] \in Y
    BY <1>2, TailIndex DEF Later
  <2>2. j - 1 \in 1 .. Len(Tail(calls)) /\ i < j - 1 /\ Tail(calls)[j - 1] = calls[j]
    BY <2>1, TailIndex
  <2> QED
    BY <2>1, <2>2
<1> QED
  BY <1>1, <1>2 DEF Later

(* What is left after a call. *)
LEMMA TailHas ==
  ASSUME NEW calls \in Seq(CallSet), calls # <<>>, NEW X
  PROVE  /\ Has(Tail(calls), X) => Has(calls, X)
         /\ Has(calls, X) => Has(Tail(calls), X) \/ Head(calls) \in X
         /\ Head(calls) \in X => Has(calls, X)
<1>1. ASSUME NEW i \in 1 .. Len(calls), i # 1
      PROVE  i - 1 \in 1 .. Len(Tail(calls)) /\ Tail(calls)[i - 1] = calls[i]
  BY <1>1, TailIndex
<1> QED
  BY <1>1, TailIndex DEF Has

LEMMA HeadOrders ==
  ASSUME NEW calls \in Seq(CallSet), calls # <<>>, NEW X, NEW Y, Head(calls) \in X
  PROVE  /\ NotAfter(calls, X, Y) => ~Has(Tail(calls), Y)
         /\ Later(calls, X, Y) => Has(Tail(calls), Y)
<1>1. ASSUME NotAfter(calls, X, Y), NEW i \in 1 .. Len(Tail(calls)), Tail(calls)[i] \in Y
      PROVE  FALSE
  BY <1>1, TailIndex DEF NotAfter
<1>2. ASSUME Later(calls, X, Y)
      PROVE  Has(Tail(calls), Y)
  <2>1. PICK j \in 1 .. Len(calls) : 1 < j /\ calls[j] \in Y
    BY <1>2, TailIndex DEF Later
  <2>2. j - 1 \in 1 .. Len(Tail(calls)) /\ Tail(calls)[j - 1] = calls[j]
    BY <2>1, TailIndex
  <2> QED
    BY <2>1, <2>2 DEF Has
<1> QED
  BY <1>1, <1>2 DEF Has

-----------------------------------------------------------------------------
(* The programs.                                                           *)

(* In order, and a program that takes buffers away has shown one. *)
Good(program) ==
  /\ program \in Seq(CallSet)
  /\ InOrder(program)
  /\ Has(program, Each("rmfb")) => Has(program, LightsUp) /\ Has(program, Shows \X {1, 2})

LEMMA SingleBufferGood == Good(single_buffer)
<1> DEFINE s == single_buffer
<1>1. /\ Len(s) = 9
      /\ s[1] = <<"create", 1>> /\ s[2] = <<"addfb", 1>> /\ s[3] = <<"mmap", 1>>
      /\ s[4] = <<"fill", 1>> /\ s[5] = <<"setcrtc", 1>> /\ s[6] = <<"getchar", 1>>
      /\ s[7] = <<"rmfb", 1>> /\ s[8] = <<"munmap", 1>> /\ s[9] = <<"destroy", 1>>
  BY SMT DEF single_buffer, modeset_create_fb, modeset_destroy_fb, getchar
<1>2. s \in Seq(CallSet)
  BY <1>1, SMT DEF single_buffer, modeset_create_fb, modeset_destroy_fb, getchar, CallSet
<1> HIDE DEF s
<1>3. InOrder(s)
  BY <1>1, SMTT(60) DEF InOrder, Later, NotAfter, Key, Each, LightsUp, Shows, Names, getchar
<1>4. Has(s, Each("rmfb")) => Has(s, LightsUp) /\ Has(s, Shows \X {1, 2})
  BY <1>1, SMT DEF Has, Each, LightsUp, Shows
<1> QED
  BY <1>2, <1>3, <1>4 DEF Good, s

LEMMA DoubleBufferGood == Good(double_buffer)
<1> DEFINE s == double_buffer
<1>1. /\ Len(s) = 18
      /\ s[1] = <<"create", 1>> /\ s[2] = <<"addfb", 1>> /\ s[3] = <<"mmap", 1>>
      /\ s[4] = <<"fill", 1>> /\ s[5] = <<"create", 2>> /\ s[6] = <<"addfb", 2>>
      /\ s[7] = <<"mmap", 2>> /\ s[8] = <<"fill", 2>> /\ s[9] = <<"setcrtc", 1>>
      /\ s[10] = <<"getchar", 1>> /\ s[11] = <<"setcrtc", 2>> /\ s[12] = <<"getchar", 1>>
      /\ s[13] = <<"rmfb", 2>> /\ s[14] = <<"munmap", 2>> /\ s[15] = <<"destroy", 2>>
      /\ s[16] = <<"rmfb", 1>> /\ s[17] = <<"munmap", 1>> /\ s[18] = <<"destroy", 1>>
  BY SMT DEF double_buffer, modeset_create_fb, modeset_destroy_fb, getchar
<1>2. s \in Seq(CallSet)
  BY <1>1, SMT DEF double_buffer, modeset_create_fb, modeset_destroy_fb, getchar, CallSet
<1> HIDE DEF s
<1>3. \A b \in {1, 2} :
        /\ NotAfter(s, Names \X {b}, {<<"create", b>>})
        /\ NotAfter(s, {<<"addfb", b>>}, {<<"addfb", b>>})
        /\ NotAfter(s, Shows \X {b}, {<<"fill", b>>})
  BY <1>1, SMTT(60) DEF NotAfter, Shows, Names
<1>4. \A b \in {1, 2} :
        /\ Later(s, {<<"create", b>>}, {<<"destroy", b>>})
        /\ Later(s, {<<"addfb", b>>}, {<<"fill", b>>})
        /\ Later(s, {<<"addfb", b>>}, {<<"rmfb", b>>})
        /\ Later(s, {<<"mmap", b>>}, {<<"munmap", b>>})
  BY <1>1, SMTT(60) DEF Later
<1>5. NotAfter(s, Key, LightsUp) /\ NotAfter(s, Each("rmfb"), Key)
  BY <1>1, SMTT(60) DEF NotAfter, Key, Each, LightsUp, getchar
<1>6. Later(s, Shows \X {1, 2}, Key)
  BY <1>1, SMTT(60) DEF Later, Key, Shows, getchar
<1>7. InOrder(s)
  BY <1>3, <1>4, <1>5, <1>6 DEF InOrder
<1>8. Has(s, Each("rmfb")) => Has(s, LightsUp) /\ Has(s, Shows \X {1, 2})
  BY <1>1, SMT DEF Has, Each, LightsUp, Shows
<1> QED
  BY <1>2, <1>7, <1>8 DEF Good, s

LEMMA PlaneTestGood == Good(plane_test)
<1> DEFINE s == plane_test
<1>1. /\ Len(s) = 11
      /\ s[1] = <<"create", 1>> /\ s[2] = <<"addfb", 1>> /\ s[3] = <<"mmap", 1>>
      /\ s[4] = <<"fill", 1>> /\ s[5] = <<"setcrtc", 1>> /\ s[6] = <<"getchar", 1>>
      /\ s[7] = <<"setplane", 1>> /\ s[8] = <<"getchar", 1>> /\ s[9] = <<"rmfb", 1>>
      /\ s[10] = <<"munmap", 1>> /\ s[11] = <<"destroy", 1>>
  BY SMT DEF plane_test, modeset_create_fb, modeset_destroy_fb, getchar
<1>2. s \in Seq(CallSet)
  BY <1>1, SMT DEF plane_test, modeset_create_fb, modeset_destroy_fb, getchar, CallSet
<1> HIDE DEF s
<1>3. InOrder(s)
  BY <1>1, SMTT(60) DEF InOrder, Later, NotAfter, Key, Each, LightsUp, Shows, Names, getchar
<1>4. Has(s, Each("rmfb")) => Has(s, LightsUp) /\ Has(s, Shows \X {1, 2})
  BY <1>1, SMT DEF Has, Each, LightsUp, Shows
<1> QED
  BY <1>2, <1>3, <1>4 DEF Good, s

LEMMA AtomicCrtcGood == Good(atomic_crtc)
<1> DEFINE s == atomic_crtc
<1>1. /\ Len(s) = 12
      /\ s[1] = <<"create", 1>> /\ s[2] = <<"addfb", 1>> /\ s[3] = <<"mmap", 1>>
      /\ s[4] = <<"fill", 1>> /\ s[5] = <<"blob", 1>> /\ s[6] = <<"commit_crtc", 1>>
      /\ s[7] = <<"getchar", 1>> /\ s[8] = <<"setplane", 1>> /\ s[9] = <<"getchar", 1>>
      /\ s[10] = <<"rmfb", 1>> /\ s[11] = <<"munmap", 1>> /\ s[12] = <<"destroy", 1>>
  BY SMT DEF atomic_crtc, modeset_create_fb, modeset_destroy_fb, getchar
<1>2. s \in Seq(CallSet)
  BY <1>1, SMT DEF atomic_crtc, modeset_create_fb, modeset_destroy_fb, getchar, CallSet
<1> HIDE DEF s
<1>3. InOrder(s)
  BY <1>1, SMTT(60) DEF InOrder, Later, NotAfter, Key, Each, LightsUp, Shows, Names, getchar
<1>4. Has(s, Each("rmfb")) => Has(s, LightsUp) /\ Has(s, Shows \X {1, 2})
  BY <1>1, SMT DEF Has, Each, LightsUp, Shows
<1> QED
  BY <1>2, <1>3, <1>4 DEF Good, s

LEMMA AtomicPlaneGood == Good(atomic_plane)
<1> DEFINE s == atomic_plane
<1>1. /\ Len(s) = 12
      /\ s[1] = <<"create", 1>> /\ s[2] = <<"addfb", 1>> /\ s[3] = <<"mmap", 1>>
      /\ s[4] = <<"fill", 1>> /\ s[5] = <<"blob", 1>> /\ s[6] = <<"commit_crtc", 1>>
      /\ s[7] = <<"getchar", 1>> /\ s[8] = <<"commit_plane", 1>> /\ s[9] = <<"getchar", 1>>
      /\ s[10] = <<"rmfb", 1>> /\ s[11] = <<"munmap", 1>> /\ s[12] = <<"destroy", 1>>
  BY SMT DEF atomic_plane, modeset_create_fb, modeset_destroy_fb, getchar
<1>2. s \in Seq(CallSet)
  BY <1>1, SMT DEF atomic_plane, modeset_create_fb, modeset_destroy_fb, getchar, CallSet
<1> HIDE DEF s
<1>3. InOrder(s)
  BY <1>1, SMTT(60) DEF InOrder, Later, NotAfter, Key, Each, LightsUp, Shows, Names, getchar
<1>4. Has(s, Each("rmfb")) => Has(s, LightsUp) /\ Has(s, Shows \X {1, 2})
  BY <1>1, SMT DEF Has, Each, LightsUp, Shows
<1> QED
  BY <1>2, <1>3, <1>4 DEF Good, s

LEMMA MyGemGood == Good(my_gem)
<1> DEFINE s == my_gem
<1>1. /\ Len(s) = 9
      /\ s[1] = <<"create", 1>> /\ s[2] = <<"mmap", 1>> /\ s[3] = <<"fill", 1>>
      /\ s[4] = <<"munmap", 1>> /\ s[5] = <<"mmap", 1>> /\ s[6] = <<"read", 1>>
      /\ s[7] = <<"munmap", 1>> /\ s[8] = <<"getchar", 1>> /\ s[9] = <<"destroy", 1>>
  BY SMT DEF my_gem, getchar
<1>2. s \in Seq(CallSet)
  BY <1>1, SMT DEF my_gem, getchar, CallSet
<1> HIDE DEF s
<1>3. InOrder(s)
  BY <1>1, SMTT(60) DEF InOrder, Later, NotAfter, Key, Each, LightsUp, Shows, Names, getchar
<1>4. Has(s, Each("rmfb")) => Has(s, LightsUp) /\ Has(s, Shows \X {1, 2})
  BY <1>1, SMT DEF Has, Each, LightsUp, Shows
<1> QED
  BY <1>2, <1>3, <1>4 DEF Good, s

LEMMA ProgramsGood ==
  /\ \A program \in AllPrograms : Good(program)
  /\ ~Has(my_gem, Each("addfb"))
<1>1. ~Has(my_gem, Each("addfb"))
  BY SMT DEF my_gem, getchar, Has, Each
<1> QED
  BY <1>1, SingleBufferGood, DoubleBufferGood, PlaneTestGood, AtomicCrtcGood, AtomicPlaneGood,
     MyGemGood
  DEF AllPrograms

-----------------------------------------------------------------------------
(* What a step does to the buffers.                                        *)

Painted(s) ==
  /\ vma[s] # None
  /\ painted' = painted \cup {vma[s]}
  /\ UNCHANGED <<driver, refs, memory, handle, fb, vma, foreign>>

DumbStep ==
  \/ UNCHANGED dumbVars
  \/ \E s \in Slots :
       \/ HelperDumbCreate(s)
       \/ drm_gem_cma_dumb_create_handle(s)
       \/ drm_gem_cma_dumb_create_no_handle(s)
       \/ drm_gem_cma_dumb_create_alloc(s) /\ (vma[s] = None \/ Guesses(s))
       \/ AddFb(s) /\ fb[s] = None
       \/ drm_gem_cma_mmap_fails(s)
       \/ Painted(s)
  \/ \E s, t \in Slots :
       handle[s] # None /\ drm_gem_cma_mmap(t, handle[s]) /\ (s = t \/ Guesses(t))
  \/ \E hs, fs, vs \in SUBSET Slots : Put(hs, fs, vs)

LEMMA SlotPairs ==
  \A p \in Procs, b \in {1, 2} : <<p, b>> \in Slots /\ <<p, b>>[1] = p /\ <<p, b>>[2] = b
BY DEF Slots

LEMMA CallsLeft ==
  ASSUME TypeOK, NEW p \in Procs, NEW call, NEW b, At(p, call, b)
  PROVE  /\ todo[p] \in Seq(CallSet) /\ todo[p] # <<>> /\ Head(todo[p]) = <<call, b>>
         /\ \A X : <<call, b>> \in X => Left(p, X)
<1>1. todo[p] \in Seq(CallSet) /\ todo[p] # <<>> /\ Head(todo[p]) = <<call, b>>
  BY DEF At, TypeOK, CallSet
<1> QED
  BY <1>1, TailHas DEF Left

LEMMA NextDumb ==
  ASSUME TypeOK, ProgramInv, BufferInv, [Next]_vars
  PROVE  DumbStep
<1>1. ASSUME NEW p \in Procs, NEW b \in {1, 2}, CreateDumb(p, b)
      PROVE  DumbStep
  <2>1. At(p, "create", b)
    BY <1>1 DEF CreateDumb, Call
  <2>2. vma[<<p, b>>] = None \/ Guesses(<<p, b>>)
    BY <2>1, CallsLeft DEF BufferInv, BufferUse, Unused
  <2> QED
    BY <1>1, <2>2, SlotPairs DEF CreateDumb, DumbStep
<1>2. ASSUME NEW p \in Procs, NEW b \in {1, 2}, drmModeAddFB(p, b)
      PROVE  DumbStep
  <2>1. At(p, "addfb", b)
    BY <1>2 DEF drmModeAddFB, Call
  <2>2. fb[<<p, b>>] = None
    BY <2>1, CallsLeft DEF BufferInv, BufferUse, Unused
  <2> QED
    BY <1>2, <2>2, SlotPairs DEF drmModeAddFB, DumbStep
<1>3. ASSUME NEW p \in Procs, NEW b \in {1, 2}, Mmap(p, b) \/ MmapFails(p, b)
      PROVE  DumbStep
  BY <1>3, SlotPairs DEF Mmap, MmapFails, DumbStep
<1>4. ASSUME NEW p \in Procs, NEW b \in {1, 2}, Access(p, b)
      PROVE  DumbStep
  BY <1>4, SlotPairs DEF Access, Painted, DumbStep
<1>5. ASSUME NEW p \in Procs, NEW b \in {1, 2},
             Munmap(p, b) \/ DestroyDumb(p, b) \/ drmModeRmFB(p, b)
      PROVE  DumbStep
  <2>1. {<<p, b>>} \in SUBSET Slots /\ {} \in SUBSET Slots
    BY SlotPairs
  <2> QED
    BY <1>5, <2>1 DEF Munmap, DestroyDumb, drmModeRmFB, DumbStep
<1>6. ASSUME NEW p \in Procs, Exit(p)
      PROVE  DumbStep
  <2>1. {p} \X {1, 2} \in SUBSET Slots
    BY DEF Slots
  <2> QED
    BY <1>6, <2>1 DEF Exit, DumbStep
<1>7. ASSUME NEW p \in Procs, HelperMaps(p)
      PROVE  DumbStep
  <2>1. Guesses(<<p, 2>>)
    BY <1>7 DEF HelperMaps, Guesses
  <2> QED
    BY <1>7, <2>1, SlotPairs DEF HelperMaps, DumbStep
<1>8. ASSUME NEW p \in Procs, NEW b \in {1, 2},
             \/ CreateDumbFails(p, b) \/ MmapKilled(p, b) \/ AccessKills(p, b)
             \/ drmModeSetCrtc(p, b) \/ drmModeSetPlane(p, b)
      PROVE  DumbStep
  BY <1>8
  DEF CreateDumbFails, MmapKilled, AccessKills, drmModeSetCrtc, drmModeSetPlane, DisplayCall,
      DumbStep
<1>9. ASSUME NEW p \in Procs,
             \/ drmModeCreatePropertyBlob(p) \/ drmModeAtomicCommit(p) \/ DisplayCallFails(p)
             \/ Start(p) \/ KeyPressed(p)
      PROVE  DumbStep
  BY <1>9
  DEF drmModeCreatePropertyBlob, drmModeAtomicCommit, DisplayCallFails, DisplayCall, Start,
      KeyPressed, DumbStep
<1>10. CASE UNCHANGED vars
  BY <1>10 DEF vars, DumbStep
<1>11. ASSUME NEW p \in Procs, Step(p)
       PROVE  DumbStep
  BY <1>1, <1>2, <1>3, <1>4, <1>5, <1>6, <1>8, <1>9, <1>11 DEF Step, close
<1> QED
  BY <1>6, <1>7, <1>9, <1>10, <1>11 DEF Next

-----------------------------------------------------------------------------
(* References.                                                             *)

Handles(o) == {s \in Slots : handle[s] = o}
Fbs(o) == {s \in Slots : fb[s] = o}
Vmas(o) == {s \in Slots : vma[s] = o}

LEMMA FiniteSlots ==
  \A S : S \subseteq Slots => IsFiniteSet(S) /\ Cardinality(S) \in Nat
<1>1. IsFiniteSet({1, 2})
  <2>1. IsFiniteSet({1}) /\ {1, 2} = {1} \cup {2}
    BY FS_Singleton
  <2> QED
    BY <2>1, FS_AddElement
<1>2. IsFiniteSet(Slots)
  BY <1>1, ProcAssumption, FS_Product DEF Slots
<1> QED
  BY <1>2, FS_Subset, FS_CardinalityType

LEMMA Disjoint ==
  ASSUME NEW S, NEW T, IsFiniteSet(S), IsFiniteSet(T), S \cap T = {}
  PROVE  IsFiniteSet(S \cup T) /\ Cardinality(S \cup T) = Cardinality(S) + Cardinality(T)
<1>1. Cardinality(S \cap T) = 0 /\ Cardinality(S) \in Nat /\ Cardinality(T) \in Nat
  BY FS_EmptySet, FS_CardinalityType
<1>2. /\ IsFiniteSet(S \cup T)
      /\ Cardinality(S \cup T) = Cardinality(S) + Cardinality(T) - Cardinality(S \cap T)
  BY FS_Union
<1> QED
  BY <1>1, <1>2

(* A set of slots under a tag. *)
LEMMA Tag ==
  ASSUME NEW k, NEW S, IsFiniteSet(S)
  PROVE  IsFiniteSet({k} \X S) /\ Cardinality({k} \X S) = Cardinality(S)
<1>1. IsFiniteSet({k}) /\ Cardinality({k}) = 1 /\ Cardinality(S) \in Nat
  BY FS_Singleton, FS_CardinalityType
<1> QED
  BY <1>1, FS_Product

LEMMA Tags ==
  ASSUME NEW H, NEW F, NEW V, IsFiniteSet(H), IsFiniteSet(F), IsFiniteSet(V)
  PROVE  Cardinality(({"handle"} \X H) \cup ({"fb"} \X F) \cup ({"vma"} \X V))
           = Cardinality(H) + Cardinality(F) + Cardinality(V)
<1> DEFINE HH == {"handle"} \X H
           FF == {"fb"} \X F
           VV == {"vma"} \X V
<1>1. /\ IsFiniteSet(HH) /\ Cardinality(HH) = Cardinality(H)
      /\ IsFiniteSet(FF) /\ Cardinality(FF) = Cardinality(F)
      /\ IsFiniteSet(VV) /\ Cardinality(VV) = Cardinality(V)
  BY Tag
<1>2. HH \cap FF = {} /\ (HH \cup FF) \cap VV = {}
  OBVIOUS
<1> HIDE DEF HH, FF, VV
<1>3. /\ Cardinality(H) \in Nat /\ Cardinality(F) \in Nat /\ Cardinality(V) \in Nat
      /\ Cardinality({}) = 0
  BY FS_CardinalityType, FS_EmptySet
<1>4. IsFiniteSet(HH \cup FF) /\ Cardinality(HH \cup FF) = Cardinality(HH) + Cardinality(FF)
  BY <1>1, <1>2, Disjoint
<1>5. Cardinality((HH \cup FF) \cup VV) = Cardinality(HH \cup FF) + Cardinality(VV)
  BY <1>1, <1>2, <1>4, Disjoint
<1>6. Cardinality((HH \cup FF) \cup VV) = Cardinality(H) + Cardinality(F) + Cardinality(V)
  BY <1>1, <1>3, <1>4, <1>5
<1> QED
  BY <1>6 DEF HH, FF, VV

LEMMA Refs ==
  ASSUME NEW o
  PROVE  /\ Cardinality(References(o))
              = Cardinality(Handles(o)) + Cardinality(Fbs(o)) + Cardinality(Vmas(o))
         /\ IsFiniteSet(Handles(o)) /\ Cardinality(Handles(o)) \in Nat
         /\ IsFiniteSet(Fbs(o)) /\ Cardinality(Fbs(o)) \in Nat
         /\ IsFiniteSet(Vmas(o)) /\ Cardinality(Vmas(o)) \in Nat
<1>1. Handles(o) \subseteq Slots /\ Fbs(o) \subseteq Slots /\ Vmas(o) \subseteq Slots
  BY DEF Handles, Fbs, Vmas
<1>2. References(o)
        = ({"handle"} \X Handles(o)) \cup ({"fb"} \X Fbs(o)) \cup ({"vma"} \X Vmas(o))
  BY DEF References, Handles, Fbs, Vmas
<1> QED
  BY <1>1, <1>2, FiniteSlots, Tags

LEMMA RefsNext ==
  ASSUME NEW o
  PROVE  /\ Cardinality(References(o)')
              = Cardinality(Handles(o)') + Cardinality(Fbs(o)') + Cardinality(Vmas(o)')
         /\ Cardinality(Handles(o)') \in Nat
         /\ Cardinality(Fbs(o)') \in Nat
         /\ Cardinality(Vmas(o)') \in Nat
<1>1. Handles(o)' \subseteq Slots /\ Fbs(o)' \subseteq Slots /\ Vmas(o)' \subseteq Slots
  BY DEF Handles, Fbs, Vmas
<1>2. References(o)'
        = ({"handle"} \X Handles(o)') \cup ({"fb"} \X Fbs(o)') \cup ({"vma"} \X Vmas(o)')
  BY DEF References, Handles, Fbs, Vmas
<1> QED
  BY <1>1, <1>2, FiniteSlots, Tags

(* Whatever refers to an object is counted: a free object is unused. *)
LEMMA Referenced ==
  ASSUME TypeOK, CountInv, NEW s \in Slots
  PROVE  /\ handle[s] # None => refs[handle[s]] # 0
         /\ fb[s] # None => refs[fb[s]] # 0
         /\ vma[s] # None => refs[vma[s]] # 0
<1>1. ASSUME NEW o \in Objects, refs[o] = 0
      PROVE  Handles(o) = {} /\ Fbs(o) = {} /\ Vmas(o) = {}
  <2>1. Cardinality(Handles(o)) = 0 /\ Cardinality(Fbs(o)) = 0 /\ Cardinality(Vmas(o)) = 0
    BY <1>1, Refs DEF CountInv
  <2> QED
    BY <2>1, Refs, FS_EmptySet
<1> QED
  BY <1>1 DEF Handles, Fbs, Vmas, TypeOK, DumbTypeOK

LEMMA ReferencedNext ==
  ASSUME DumbTypeOK', CountInv', NEW s \in Slots
  PROVE  /\ handle'[s] # None => refs'[handle'[s]] # 0
         /\ fb'[s] # None => refs'[fb'[s]] # 0
         /\ vma'[s] # None => refs'[vma'[s]] # 0
<1>1. ASSUME NEW o \in Objects, refs'[o] = 0
      PROVE  s \notin Handles(o)' /\ s \notin Fbs(o)' /\ s \notin Vmas(o)'
  <2>1. /\ Handles(o)' \subseteq Slots /\ Fbs(o)' \subseteq Slots /\ Vmas(o)' \subseteq Slots
        /\ Cardinality(References(o)') <= 0
    BY <1>1 DEF Handles, Fbs, Vmas, CountInv
  <2>2. Cardinality(Handles(o)') = 0 /\ Cardinality(Fbs(o)') = 0 /\ Cardinality(Vmas(o)') = 0
    BY <2>1, RefsNext
  <2>3. Handles(o)' = {} /\ Fbs(o)' = {} /\ Vmas(o)' = {}
    BY <2>1, <2>2, FiniteSlots, FS_EmptySet
  <2> QED
    BY <2>3
<1> QED
  BY <1>1 DEF Handles, Fbs, Vmas, DumbTypeOK

-----------------------------------------------------------------------------
(* Reference counts.                                                       *)

(* The count of object o goes with the references to it. *)
Counted(o) ==
  /\ refs[o] \in Int
  /\ Cardinality(References(o)) <= refs[o]
  /\ driver # "cma" => refs[o] = Cardinality(References(o))

LEMMA NewObjectIsFree ==
  FreeObjects # {} => NewObject \in Objects /\ refs[NewObject] = 0
BY DEF NewObject, FreeObjects

LEMMA NewHandleCounts ==
  ASSUME TypeOK, CountInv, RefsExact, NEW s \in Slots, NEW n \in {1, 2}, NewHandle(s, n),
         driver # "cma" => n = 1, NEW o \in Objects
  PROVE  Counted(o)'
<1>1. /\ \A t \in Slots : handle'[t] = IF t = s THEN NewObject ELSE handle[t]
      /\ handle[s] = None /\ fb' = fb /\ vma' = vma /\ driver' = driver
      /\ NewObject \in Objects /\ refs[NewObject] = 0
      /\ refs'[o] = IF o = NewObject THEN n ELSE refs[o]
      /\ Cardinality(References(o)) <= refs[o]
      /\ driver # "cma" => refs[o] = Cardinality(References(o))
  BY NewObjectIsFree DEF NewHandle, TypeOK, DumbTypeOK, CountInv, RefsExact
<1>2. CASE o = NewObject
  <2>0. \A t \in Slots : handle[t] # o /\ fb[t] # o /\ vma[t] # o
    BY <1>1, <1>2, Referenced, ObjectAssumption
  <2>1. Handles(o)' = {s} /\ Fbs(o)' = {} /\ Vmas(o)' = {}
    BY <1>1, <1>2, <2>0 DEF Handles, Fbs, Vmas
  <2>2. Cardinality({s}) = 1 /\ Cardinality({}) = 0
    BY FS_EmptySet, FS_Singleton
  <2>3. Cardinality(References(o)') = 1
    BY <2>1, <2>2, RefsNext
  <2> QED
    BY <1>1, <1>2, <2>3 DEF Counted
<1>3. CASE o # NewObject
  <2>1. References(o)' = References(o)
    BY <1>1, <1>3, ObjectAssumption DEF References
  <2> QED
    BY <1>1, <1>3, <2>1 DEF Counted, TypeOK, DumbTypeOK
<1> QED
  BY <1>2, <1>3

LEMMA AddFbCounts ==
  ASSUME TypeOK, CountInv, RefsExact, NEW s \in Slots, AddFb(s), fb[s] = None,
         NEW o \in Objects
  PROVE  Counted(o)'
<1>1. /\ \A t \in Slots : fb'[t] = IF t = s THEN handle[s] ELSE fb[t]
      /\ handle' = handle /\ vma' = vma /\ driver' = driver
      /\ refs'[o] = IF o = handle[s] THEN refs[o] + 1 ELSE refs[o]
      /\ Cardinality(References(o)) <= refs[o] /\ refs[o] \in Nat
      /\ driver # "cma" => refs[o] = Cardinality(References(o))
  BY DEF AddFb, TypeOK, DumbTypeOK, CountInv, RefsExact
<1>2. CASE o = handle[s]
  <2>1. Fbs(o)' = Fbs(o) \cup {s} /\ s \notin Fbs(o)
    BY <1>1, <1>2, ObjectAssumption DEF Fbs
  <2>2. Cardinality(Fbs(o)') = Cardinality(Fbs(o)) + 1
    BY <2>1, Refs, FS_AddElement
  <2>3. Handles(o)' = Handles(o) /\ Vmas(o)' = Vmas(o)
    BY <1>1 DEF Handles, Vmas
  <2>4. Cardinality(References(o)') = Cardinality(References(o)) + 1
    BY <2>2, <2>3, Refs, RefsNext
  <2> QED
    BY <1>1, <1>2, <2>4, Refs DEF Counted
<1>3. CASE o # handle[s]
  <2>1. References(o)' = References(o)
    BY <1>1, <1>3, ObjectAssumption DEF References
  <2> QED
    BY <1>1, <1>3, <2>1 DEF Counted
<1> QED
  BY <1>2, <1>3

LEMMA MmapCounts ==
  ASSUME TypeOK, CountInv, RefsExact, NEW s \in Slots, NEW m \in Objects, drm_gem_cma_mmap(s, m),
         NEW o \in Objects
  PROVE  Counted(o)'
<1>1. /\ \A t \in Slots : vma'[t] = IF t = s THEN m ELSE vma[t]
      /\ handle' = handle /\ fb' = fb /\ driver' = driver /\ vma[s] = None
      /\ refs'[o] = IF o = m THEN refs[o] + 1 ELSE refs[o]
      /\ Cardinality(References(o)) <= refs[o] /\ refs[o] \in Nat
      /\ driver # "cma" => refs[o] = Cardinality(References(o))
  BY DEF drm_gem_cma_mmap, MapObject, TypeOK, DumbTypeOK, CountInv, RefsExact
<1>2. CASE o = m
  <2>1. Vmas(o)' = Vmas(o) \cup {s} /\ s \notin Vmas(o)
    BY <1>1, <1>2, ObjectAssumption DEF Vmas
  <2>2. Cardinality(Vmas(o)') = Cardinality(Vmas(o)) + 1
    BY <2>1, Refs, FS_AddElement
  <2>3. Handles(o)' = Handles(o) /\ Fbs(o)' = Fbs(o)
    BY <1>1 DEF Handles, Fbs
  <2>4. Cardinality(References(o)') = Cardinality(References(o)) + 1
    BY <2>2, <2>3, Refs, RefsNext
  <2> QED
    BY <1>1, <1>2, <2>4, Refs DEF Counted
<1>3. CASE o # m
  <2>1. References(o)' = References(o)
    BY <1>1, <1>3, ObjectAssumption DEF References
  <2> QED
    BY <1>1, <1>3, <2>1 DEF Counted
<1> QED
  BY <1>2, <1>3

(* Put takes what goes off the count; drm/driver/cma keeps the reference   *)
(* of a mapping.                                                           *)
LEMMA PutCounts ==
  ASSUME TypeOK, CountInv, RefsExact, NEW hs \in SUBSET Slots, NEW fs \in SUBSET Slots,
         NEW vs \in SUBSET Slots, Put(hs, fs, vs), NEW o \in Objects
  PROVE  Counted(o)'
<1> DEFINE H == {s \in hs : handle[s] = o}
           F == {s \in fs : fb[s] = o}
           V == {s \in vs : vma[s] = o}
<1>1. /\ refs'[o] = refs[o] - Cardinality(H) - Cardinality(F)
                      - (IF VmaPuts THEN Cardinality(V) ELSE 0)
      /\ driver' = driver
      /\ Cardinality(References(o)) <= refs[o] /\ refs[o] \in Nat
      /\ driver # "cma" => refs[o] = Cardinality(References(o))
  BY DEF Put, TypeOK, DumbTypeOK, CountInv, RefsExact
<1>2. /\ Handles(o)' = Handles(o) \ H /\ Handles(o) \cap H = H
      /\ Fbs(o)' = Fbs(o) \ F /\ Fbs(o) \cap F = F
      /\ Vmas(o)' = Vmas(o) \ V /\ Vmas(o) \cap V = V
  BY ObjectAssumption DEF Put, Handles, Fbs, Vmas
<1>3. H \subseteq Slots /\ F \subseteq Slots /\ V \subseteq Slots
  OBVIOUS
<1> HIDE DEF H, F, V
<1>4. Cardinality(H) \in Nat /\ Cardinality(F) \in Nat /\ Cardinality(V) \in Nat
  BY <1>3, FiniteSlots
<1>5. Cardinality(Handles(o)') = Cardinality(Handles(o)) - Cardinality(H)
  <2>1. Cardinality(Handles(o) \ H) = Cardinality(Handles(o)) - Cardinality(Handles(o) \cap H)
    BY Refs, FS_Difference
  <2> QED
    BY <1>2, <2>1
<1>6. Cardinality(Fbs(o)') = Cardinality(Fbs(o)) - Cardinality(F)
  <2>1. Cardinality(Fbs(o) \ F) = Cardinality(Fbs(o)) - Cardinality(Fbs(o) \cap F)
    BY Refs, FS_Difference
  <2> QED
    BY <1>2, <2>1
<1>7. Cardinality(Vmas(o)') = Cardinality(Vmas(o)) - Cardinality(V)
  <2>1. Cardinality(Vmas(o) \ V) = Cardinality(Vmas(o)) - Cardinality(Vmas(o) \cap V)
    BY Refs, FS_Difference
  <2> QED
    BY <1>2, <2>1
<1>8. Cardinality(References(o)')
        = Cardinality(References(o)) - Cardinality(H) - Cardinality(F) - Cardinality(V)
  BY <1>4, <1>5, <1>6, <1>7, Refs, RefsNext
<1> QED
  BY <1>1, <1>4, <1>8, Refs DEF Counted, VmaPuts

LEMMA CountedStep ==
  ASSUME TypeOK, CountInv, RefsExact, DumbStep, NEW o \in Objects
  PROVE  Counted(o)'
<1>1. ASSUME UNCHANGED <<driver, refs, handle, fb, vma>>
      PROVE  Counted(o)'
  <2>1. References(o)' = References(o)
    BY <1>1 DEF References
  <2> QED
    BY <1>1, <2>1 DEF Counted, TypeOK, DumbTypeOK, CountInv, RefsExact
<1>2. CASE UNCHANGED dumbVars
  BY <1>1, <1>2 DEF dumbVars
<1>3. ASSUME NEW s \in Slots, HelperDumbCreate(s) \/ drm_gem_cma_dumb_create_handle(s)
      PROVE  Counted(o)'
  BY <1>3, NewHandleCounts DEF HelperDumbCreate, drm_gem_cma_dumb_create_handle
<1>4. ASSUME NEW s \in Slots, drm_gem_cma_dumb_create_alloc(s) \/ Painted(s)
      PROVE  Counted(o)'
  BY <1>1, <1>4 DEF drm_gem_cma_dumb_create_alloc, Painted
<1>5. ASSUME NEW s \in Slots, AddFb(s), fb[s] = None
      PROVE  Counted(o)'
  BY <1>5, AddFbCounts
<1>6. ASSUME NEW s \in Slots, drm_gem_cma_mmap_fails(s)
      PROVE  Counted(o)'
  <2>1. /\ driver = "cma" /\ driver' = driver
        /\ refs'[o] = IF o = handle[s] THEN refs[o] + 1 ELSE refs[o]
        /\ Cardinality(References(o)) <= refs[o] /\ refs[o] \in Nat
    BY <1>6 DEF drm_gem_cma_mmap_fails, TypeOK, DumbTypeOK, CountInv
  <2>2. References(o)' = References(o)
    BY <1>6 DEF drm_gem_cma_mmap_fails, References
  <2> QED
    BY <2>1, <2>2, Refs DEF Counted
<1>7. ASSUME NEW s \in Slots, NEW t \in Slots, handle[s] # None, drm_gem_cma_mmap(t, handle[s])
      PROVE  Counted(o)'
  BY <1>7, MmapCounts DEF TypeOK, DumbTypeOK
<1>8. ASSUME NEW hs \in SUBSET Slots, NEW fs \in SUBSET Slots, NEW vs \in SUBSET Slots,
             Put(hs, fs, vs)
      PROVE  Counted(o)'
  BY <1>8, PutCounts
<1>9. ASSUME NEW s \in Slots, drm_gem_cma_dumb_create_no_handle(s)
      PROVE  Counted(o)'
  <2>1. References(o)' = References(o)
    BY <1>9 DEF drm_gem_cma_dumb_create_no_handle, References
  <2>2. /\ driver = "cma" /\ driver' = driver
        /\ refs'[o] = IF o = NewObject THEN 1 ELSE refs[o]
        /\ refs[NewObject] = 0
        /\ Cardinality(References(o)) <= refs[o] /\ refs[o] \in Nat
    BY <1>9, NewObjectIsFree
    DEF drm_gem_cma_dumb_create_no_handle, TypeOK, DumbTypeOK, CountInv
  <2> QED
    BY <2>1, <2>2, Refs DEF Counted
<1> QED
  BY <1>2, <1>3, <1>4, <1>5, <1>6, <1>7, <1>8, <1>9 DEF DumbStep

(* The types of the buffers. *)
LEMMA DumbTypeStep ==
  ASSUME TypeOK, CountInv, RefsExact, DumbStep
  PROVE  DumbTypeOK'
<1> DumbTypeOK
  BY DEF TypeOK
<1>1. ASSUME NEW o \in Objects
      PROVE  refs'[o] \in Nat
  <2>1. refs'[o] \in Int /\ Cardinality(References(o)') <= refs'[o]
    BY CountedStep DEF Counted
  <2> QED
    BY <2>1, RefsNext
<1>2. refs' \in [Objects -> Int] => refs' \in [Objects -> Nat]
  BY <1>1
<1>3. CASE UNCHANGED dumbVars
  BY <1>3 DEF dumbVars, DumbTypeOK
<1>4. ASSUME NEW s \in Slots, HelperDumbCreate(s) \/ drm_gem_cma_dumb_create_handle(s)
      PROVE  DumbTypeOK'
  BY <1>4, NewObjectIsFree
  DEF HelperDumbCreate, drm_gem_cma_dumb_create_handle, NewHandle, DumbTypeOK
<1>5. ASSUME NEW s \in Slots, drm_gem_cma_dumb_create_alloc(s) \/ Painted(s)
      PROVE  DumbTypeOK'
  BY <1>5 DEF drm_gem_cma_dumb_create_alloc, Painted, DumbTypeOK
<1>6. ASSUME NEW s \in Slots, AddFb(s) \/ drm_gem_cma_mmap_fails(s)
      PROVE  DumbTypeOK'
  BY <1>6 DEF AddFb, drm_gem_cma_mmap_fails, DumbTypeOK
<1>7. ASSUME NEW s \in Slots, NEW t \in Slots, handle[s] # None, drm_gem_cma_mmap(t, handle[s])
      PROVE  DumbTypeOK'
  BY <1>7 DEF drm_gem_cma_mmap, MapObject, DumbTypeOK
<1>8. ASSUME NEW hs \in SUBSET Slots, NEW fs \in SUBSET Slots, NEW vs \in SUBSET Slots,
             Put(hs, fs, vs)
      PROVE  DumbTypeOK'
  <2>1. refs' \in [Objects -> Nat]
    BY <1>1, <1>8 DEF Put
  <2> QED
    BY <1>8, <2>1 DEF Put, DumbTypeOK
<1>9. ASSUME NEW s \in Slots, drm_gem_cma_dumb_create_no_handle(s)
      PROVE  DumbTypeOK'
  BY <1>9, NewObjectIsFree DEF drm_gem_cma_dumb_create_no_handle, DumbTypeOK
<1> QED
  BY <1>3, <1>4, <1>5, <1>6, <1>7, <1>8, <1>9 DEF DumbStep

(* With the CMA helpers an object has memory while it is referred to. *)
LEMMA CountStep ==
  ASSUME TypeOK, CountInv, RefsExact, DumbStep
  PROVE  CountInv' /\ RefsExact'
<1>1. CountInv'
  BY CountedStep DEF Counted, CountInv
<1>2. DumbTypeOK'
  BY DumbTypeStep
<1>3. ASSUME driver # "cma", NEW o \in Objects
      PROVE  o \in memory' <=> refs'[o] > 0
  <2>1. (o \in memory <=> refs[o] > 0) /\ refs[o] \in Nat /\ refs'[o] \in Nat
    BY <1>2, <1>3 DEF RefsExact, TypeOK, DumbTypeOK
  <2>2. CASE UNCHANGED <<refs, memory>>
    BY <2>1, <2>2
  <2>3. ASSUME NEW s \in Slots, HelperDumbCreate(s)
        PROVE  o \in memory' <=> refs'[o] > 0
    BY <2>1, <2>3 DEF HelperDumbCreate, NewHandle, TypeOK, DumbTypeOK
  <2>4. ASSUME NEW s \in Slots, AddFb(s)
        PROVE  o \in memory' <=> refs'[o] > 0
    <3>1. /\ memory' = memory /\ refs[handle[s]] # 0
          /\ refs'[o] = IF o = handle[s] THEN refs[o] + 1 ELSE refs[o]
      BY <2>4, Referenced DEF AddFb, TypeOK, DumbTypeOK
    <3> QED
      BY <2>1, <3>1
  <2>5. ASSUME NEW s \in Slots, NEW t \in Slots, handle[s] # None,
               drm_gem_cma_mmap(t, handle[s])
        PROVE  o \in memory' <=> refs'[o] > 0
    <3>1. /\ memory' = memory /\ refs[handle[s]] # 0
          /\ refs'[o] = IF o = handle[s] THEN refs[o] + 1 ELSE refs[o]
      BY <2>5, Referenced DEF drm_gem_cma_mmap, MapObject, TypeOK, DumbTypeOK
    <3> QED
      BY <2>1, <3>1
  <2>6. ASSUME NEW hs \in SUBSET Slots, NEW fs \in SUBSET Slots, NEW vs \in SUBSET Slots,
               Put(hs, fs, vs)
        PROVE  o \in memory' <=> refs'[o] > 0
    <3>1. memory' = {q \in memory : refs'[q] > 0}
      BY <1>3, <2>6 DEF Put, FreesObjects
    <3>2. refs'[o] <= refs[o]
      <4>1. \A S : S \subseteq Slots => Cardinality(S) \in Nat
        BY FiniteSlots
      <4> DEFINE H == {s \in hs : handle[s] = o}
                 F == {s \in fs : fb[s] = o}
                 V == {s \in vs : vma[s] = o}
      <4>2. refs'[o] = refs[o] - Cardinality(H) - Cardinality(F)
                         - (IF VmaPuts THEN Cardinality(V) ELSE 0)
        BY <2>6 DEF Put
      <4>3. Cardinality(H) \in Nat /\ Cardinality(F) \in Nat /\ Cardinality(V) \in Nat
        BY <4>1
      <4> HIDE DEF H, F, V
      <4> QED
        BY <2>1, <4>2, <4>3
    <3> QED
      BY <2>1, <3>1, <3>2
  <2> QED
    BY <1>3, <2>2, <2>3, <2>4, <2>5, <2>6
    DEF DumbStep, dumbVars, drm_gem_cma_dumb_create_handle, drm_gem_cma_dumb_create_alloc,
        drm_gem_cma_dumb_create_no_handle, drm_gem_cma_mmap_fails, Painted
<1>4. driver' = driver
  BY DEF DumbStep, dumbVars, HelperDumbCreate, drm_gem_cma_dumb_create_handle, NewHandle,
         drm_gem_cma_dumb_create_no_handle, drm_gem_cma_dumb_create_alloc, AddFb,
         drm_gem_cma_mmap_fails, Painted,
         drm_gem_cma_mmap, Put
<1> QED
  BY <1>1, <1>3, <1>4, CountedStep DEF Counted, RefsExact

-----------------------------------------------------------------------------
(* Who has which object, and what a mapping shows.                         *)

LEMMA DriverStays == DumbStep => driver' = driver
BY DEF DumbStep, dumbVars, HelperDumbCreate, drm_gem_cma_dumb_create_handle, NewHandle,
       drm_gem_cma_dumb_create_no_handle, drm_gem_cma_dumb_create_alloc, AddFb,
       drm_gem_cma_mmap_fails, Painted,
       drm_gem_cma_mmap, Put

LEMMA HandleStep ==
  ASSUME TypeOK, CountInv, HandleInv, DumbStep
  PROVE  HandleInv'
<1>0. \A s : Guesses(s)' = Guesses(s)
  BY DriverStays DEF Guesses
<1>1. ASSUME UNCHANGED <<handle, vma, foreign>>
      PROVE  HandleInv'
  BY <1>0, <1>1 DEF HandleInv
<1>2. CASE UNCHANGED dumbVars
  BY <1>1, <1>2 DEF dumbVars
<1>3. ASSUME NEW s \in Slots, HelperDumbCreate(s) \/ drm_gem_cma_dumb_create_handle(s)
      PROVE  HandleInv'
  <2>1. /\ \A t \in Slots : handle'[t] = IF t = s THEN NewObject ELSE handle[t]
        /\ UNCHANGED <<vma, foreign>> /\ NewObject \in Objects /\ refs[NewObject] = 0
    BY <1>3, NewObjectIsFree
    DEF HelperDumbCreate, drm_gem_cma_dumb_create_handle, NewHandle, TypeOK, DumbTypeOK
  <2>2. \A t \in Slots : handle[t] # NewObject /\ vma[t] # NewObject
    BY <2>1, Referenced, ObjectAssumption
  <2> QED
    BY <1>0, <2>1, <2>2 DEF HandleInv
<1>4. ASSUME NEW s \in Slots,
             \/ drm_gem_cma_dumb_create_alloc(s) \/ Painted(s) \/ AddFb(s)
             \/ drm_gem_cma_mmap_fails(s) \/ drm_gem_cma_dumb_create_no_handle(s)
      PROVE  HandleInv'
  BY <1>1, <1>4
  DEF drm_gem_cma_dumb_create_alloc, Painted, AddFb, drm_gem_cma_mmap_fails,
      drm_gem_cma_dumb_create_no_handle
<1>5. ASSUME NEW s \in Slots, NEW t \in Slots, handle[s] # None,
             drm_gem_cma_mmap(t, handle[s]), s = t \/ Guesses(t)
      PROVE  HandleInv'
  <2>1. /\ \A u \in Slots : vma'[u] = IF u = t THEN handle[s] ELSE vma[u]
        /\ handle' = handle /\ foreign' \subseteq foreign \cup {t}
    BY <1>5 DEF drm_gem_cma_mmap, MapObject, TypeOK, DumbTypeOK
  <2>2. \A u \in Slots : handle[u] = handle[s] => u = s
    BY <1>5 DEF HandleInv
  <2>3. foreign \subseteq Slots
    BY DEF TypeOK, DumbTypeOK
  <2> QED
    BY <1>0, <1>5, <2>1, <2>2, <2>3 DEF HandleInv
<1>6. ASSUME NEW hs \in SUBSET Slots, NEW fs \in SUBSET Slots, NEW vs \in SUBSET Slots,
             Put(hs, fs, vs)
      PROVE  HandleInv'
  <2>1. /\ \A u \in Slots : handle'[u] = IF u \in hs THEN None ELSE handle[u]
        /\ \A u \in Slots : vma'[u] = IF u \in vs THEN None ELSE vma[u]
        /\ foreign' = foreign \ vs /\ foreign \subseteq Slots
    BY <1>6 DEF Put, TypeOK, DumbTypeOK
  <2> QED
    BY <1>0, <2>1 DEF HandleInv
<1> QED
  BY <1>2, <1>3, <1>4, <1>5, <1>6 DEF DumbStep

LEMMA ForeignStep ==
  ASSUME TypeOK, CountInv, RefsExact, HandleInv, ForeignOnlyIf, DumbStep
  PROVE  ForeignOnlyIf'
<1> foreign \subseteq Slots
  BY DEF TypeOK, DumbTypeOK
<1>0. driver' = driver
  BY DriverStays
<1>1. ASSUME UNCHANGED vma, memory' \subseteq memory, foreign' \subseteq foreign
      PROVE  ForeignOnlyIf'
  BY <1>0, <1>1 DEF ForeignOnlyIf
<1>2. CASE UNCHANGED dumbVars
  BY <1>1, <1>2 DEF dumbVars
<1>3. ASSUME NEW s \in Slots, HelperDumbCreate(s)
      PROVE  ForeignOnlyIf'
  <2>1. foreign = {}
    BY <1>3 DEF HelperDumbCreate, ForeignOnlyIf
  <2> QED
    BY <1>3, <2>1 DEF HelperDumbCreate, NewHandle, ForeignOnlyIf
<1>4. ASSUME NEW s \in Slots,
             \/ drm_gem_cma_dumb_create_handle(s) \/ Painted(s) \/ AddFb(s)
             \/ drm_gem_cma_mmap_fails(s)
      PROVE  ForeignOnlyIf'
  BY <1>1, <1>4
  DEF drm_gem_cma_dumb_create_handle, NewHandle, Painted, AddFb, drm_gem_cma_mmap_fails
<1>5. ASSUME NEW s \in Slots, drm_gem_cma_dumb_create_alloc(s), vma[s] = None \/ Guesses(s)
      PROVE  ForeignOnlyIf'
  <2>1. /\ memory' \subseteq memory \cup {handle[s]} /\ UNCHANGED <<vma, foreign>>
    BY <1>5 DEF drm_gem_cma_dumb_create_alloc
  <2>2. ASSUME NEW t \in foreign, vma[t] = handle[s]
        PROVE  t[1] \in Threaded /\ t[2] = 2
    BY <1>5, <2>2 DEF HandleInv, Guesses
  <2> QED
    BY <1>0, <2>1, <2>2 DEF ForeignOnlyIf
<1>6. ASSUME NEW s \in Slots, NEW t \in Slots, handle[s] # None, drm_gem_cma_mmap(t, handle[s])
      PROVE  ForeignOnlyIf'
  <2>1. /\ \A u \in Slots : vma'[u] = IF u = t THEN handle[s] ELSE vma[u]
        /\ vma[t] = None /\ memory' = memory
        /\ foreign' = IF handle[s] \in memory THEN foreign ELSE foreign \cup {t}
    BY <1>6 DEF drm_gem_cma_mmap, MapObject, TypeOK, DumbTypeOK
  <2>2. t \notin foreign
    BY <2>1 DEF HandleInv
  <2>3. driver # "cma" => handle[s] \in memory
    BY <1>6, Referenced DEF RefsExact, TypeOK, DumbTypeOK
  <2> QED
    BY <1>0, <2>1, <2>2, <2>3 DEF ForeignOnlyIf
<1>7. ASSUME NEW hs \in SUBSET Slots, NEW fs \in SUBSET Slots, NEW vs \in SUBSET Slots,
             Put(hs, fs, vs)
      PROVE  ForeignOnlyIf'
  <2>1. /\ \A u \in Slots : vma'[u] = IF u \in vs THEN None ELSE vma[u]
        /\ foreign' = foreign \ vs /\ memory' \subseteq memory
    BY <1>7 DEF Put
  <2> QED
    BY <1>0, <2>1 DEF ForeignOnlyIf
<1>8. ASSUME NEW s \in Slots, drm_gem_cma_dumb_create_no_handle(s)
      PROVE  ForeignOnlyIf'
  <2>1. /\ memory' \subseteq memory \cup {NewObject} /\ UNCHANGED <<vma, foreign>>
        /\ refs[NewObject] = 0
    BY <1>8, NewObjectIsFree DEF drm_gem_cma_dumb_create_no_handle
  <2>2. \A t \in foreign : vma[t] # NewObject
    BY <2>1, Referenced DEF HandleInv
  <2> QED
    BY <1>0, <2>1, <2>2 DEF ForeignOnlyIf
<1> QED
  BY <1>2, <1>3, <1>4, <1>5, <1>6, <1>7, <1>8 DEF DumbStep

-----------------------------------------------------------------------------
(* What a step does to one slot and to the calls of its process.           *)

Same(s) == handle'[s] = handle[s] /\ fb'[s] = fb[s] /\ vma'[s] = vma[s]

(* p stays open and makes the call at its head. *)
Makes(p, call, c) ==
  At(p, call, c) /\ todo'[p] = Tail(todo[p]) /\ p \in open /\ p \in open'

(* The call has its effect on the slot. *)
Affects(s, call) ==
  \/ /\ call = "create" /\ driver # "cma" /\ handle[s] = None /\ handle'[s] # None
     /\ fb'[s] = fb[s] /\ vma'[s] = vma[s]
  \/ /\ call = "addfb" /\ handle[s] # None /\ fb'[s] = handle[s]
     /\ handle'[s] = handle[s] /\ vma'[s] = vma[s]
  \/ /\ call = "mmap" /\ handle[s] # None /\ vma'[s] = handle[s]
     /\ handle'[s] = handle[s] /\ fb'[s] = fb[s]
  \/ call = "rmfb" /\ fb'[s] = None /\ handle'[s] = handle[s] /\ vma'[s] = vma[s]
  \/ call = "munmap" /\ vma'[s] = None /\ handle'[s] = handle[s] /\ fb'[s] = fb[s]
  \/ call = "destroy" /\ handle'[s] = None /\ fb'[s] = fb[s] /\ vma'[s] = vma[s]

SlotStep(p, b) ==
  LET s == <<p, b>> IN
  \/ Same(s) /\ todo'[p] = todo[p] /\ (p \in open' <=> p \in open)
  \/ \E call \in Names, c \in {1, 2} :
       /\ Makes(p, call, c)
       /\ \/ c = b /\ Affects(s, call)
          \/ /\ Same(s)
             /\ c = b => call \notin {"rmfb", "munmap", "destroy"}
             /\ c = b /\ call = "fill" => vma[s] # None /\ vma[s] \in painted'
  \/ /\ driver = "cma" /\ todo'[p] = todo[p] /\ p \in open /\ p \in open'
     /\ fb'[s] = fb[s] /\ (vma'[s] = vma[s] \/ Guesses(s))
  \/ Same(s) /\ p \notin open /\ p \in open' /\ todo'[p] \in Programs(p)
  \/ /\ p \notin open' /\ todo'[p] = <<>>
     /\ handle'[s] = None /\ fb'[s] = None /\ vma'[s] = None

LEMMA PutSlots ==
  ASSUME NEW hs, NEW fs, NEW vs, Put(hs, fs, vs), NEW s \in Slots
  PROVE  /\ handle'[s] = IF s \in hs THEN None ELSE handle[s]
         /\ fb'[s] = IF s \in fs THEN None ELSE fb[s]
         /\ vma'[s] = IF s \in vs THEN None ELSE vma[s]
BY DEF Put

(* A call of another process, or of this one. *)
LEMMA CallMakes ==
  ASSUME TypeOK, NEW p \in Procs, NEW q \in Procs, NEW call, NEW c, Call(q, call, c)
  PROVE  /\ open' = open
         /\ q # p => todo'[p] = todo[p]
         /\ q = p => Makes(p, call, c)
BY DEF Call, At, Runs, Makes, TypeOK

LEMMA SlotMoves ==
  ASSUME TypeOK, [Next]_vars, NEW p \in Procs, NEW b \in {1, 2}
  PROVE  SlotStep(p, b)
<1> DEFINE s == <<p, b>>
<1> s \in Slots /\ s = <<p, b>> /\ DumbTypeOK
  BY SlotPairs DEF TypeOK
<1>0. \A q \in Procs, c \in {1, 2} : <<q, c>> \in Slots /\ (<<q, c>> = s <=> q = p /\ c = b)
  BY SlotPairs
<1> HIDE DEF s
<1>1. ASSUME NEW q \in Procs, NEW call \in Names, NEW c \in {1, 2}, Call(q, call, c), Same(s),
             call \notin {"rmfb", "munmap", "destroy"},
             call = "fill" => vma[<<q, c>>] # None /\ vma[<<q, c>>] \in painted'
      PROVE  SlotStep(p, b)
  BY <1>1, <1>0, CallMakes DEF SlotStep
<1>2. ASSUME NEW q \in Procs, NEW call \in Names, NEW c \in {1, 2}, Call(q, call, c),
             <<q, c>> # s => Same(s), <<q, c>> = s => Affects(s, call)
      PROVE  SlotStep(p, b)
  BY <1>2, <1>0, CallMakes DEF SlotStep
<1>3. ASSUME Same(s), UNCHANGED <<todo, open>>
      PROVE  SlotStep(p, b)
  BY <1>3 DEF SlotStep
<1>4. UNCHANGED dumbVars => Same(s)
  BY DEF Same, dumbVars
<1>5. ASSUME NEW q \in Procs, NEW c \in {1, 2}, CreateDumb(q, c)
      PROVE  SlotStep(p, b)
  <2>1. ASSUME Call(q, "create", c), HelperDumbCreate(<<q, c>>)
        PROVE  SlotStep(p, b)
    <3>1. /\ <<q, c>> # s => Same(s)
          /\ <<q, c>> = s => Affects(s, "create")
      BY <2>1, NewObjectIsFree, ObjectAssumption
      DEF HelperDumbCreate, NewHandle, Same, Affects, DumbTypeOK
    <3> QED
      BY <1>2, <2>1, <3>1 DEF Names
  <2>2. ASSUME At(q, "create", c), drm_gem_cma_dumb_create_handle(<<q, c>>), UNCHANGED procVars
        PROVE  SlotStep(p, b)
    <3>1. /\ driver = "cma" /\ fb' = fb /\ vma' = vma /\ UNCHANGED <<todo, open>>
          /\ <<q, c>> # s => Same(s)
      BY <2>2 DEF drm_gem_cma_dumb_create_handle, NewHandle, Same, procVars, DumbTypeOK
    <3>2. q \in open
      BY <2>2 DEF At, Runs
    <3>3. CASE q = p
      BY <3>1, <3>2, <3>3 DEF SlotStep, s
    <3>4. CASE q # p
      BY <1>0, <1>3, <3>1, <3>4
    <3> QED
      BY <3>3, <3>4
  <2>3. ASSUME Call(q, "create", c), drm_gem_cma_dumb_create_alloc(<<q, c>>)
        PROVE  SlotStep(p, b)
    <3>1. Same(s)
      BY <2>3 DEF drm_gem_cma_dumb_create_alloc, Same
    <3> QED
      BY <1>1, <2>3, <3>1 DEF Names
  <2>4. ASSUME Call(q, "create", c), drm_gem_cma_dumb_create_no_handle(<<q, c>>)
        PROVE  SlotStep(p, b)
    <3>1. Same(s)
      BY <2>4 DEF drm_gem_cma_dumb_create_no_handle, Same
    <3> QED
      BY <1>1, <2>4, <3>1 DEF Names
  <2> QED
    BY <1>5, <2>1, <2>2, <2>3, <2>4 DEF CreateDumb
<1>6. ASSUME NEW q \in Procs, NEW c \in {1, 2}, CreateDumbFails(q, c)
      PROVE  SlotStep(p, b)
  <2>1. Same(s)
    BY <1>4, <1>6 DEF CreateDumbFails
  <2>2. CASE Call(q, "create", c)
    BY <1>1, <2>1, <2>2 DEF Names
  <2>3. CASE UNCHANGED <<open, todo>>
    BY <1>3, <2>1, <2>3
  <2> QED
    BY <1>6, <2>2, <2>3 DEF CreateDumbFails
<1>7. ASSUME NEW q \in Procs, NEW c \in {1, 2}, drmModeAddFB(q, c)
      PROVE  SlotStep(p, b)
  <2>1. CASE AddFb(<<q, c>>)
    <3>1. /\ <<q, c>> # s => Same(s)
          /\ <<q, c>> = s => Affects(s, "addfb")
      BY <2>1 DEF AddFb, Same, Affects, DumbTypeOK
    <3> QED
      BY <1>2, <1>7, <3>1 DEF drmModeAddFB, Names
  <2>2. CASE UNCHANGED dumbVars
    BY <1>1, <1>4, <1>7, <2>2 DEF drmModeAddFB, Names
  <2> QED
    BY <1>7, <2>1, <2>2 DEF drmModeAddFB
<1>8. ASSUME NEW q \in Procs, NEW c \in {1, 2}, Mmap(q, c)
      PROVE  SlotStep(p, b)
  <2>1. /\ <<q, c>> # s => Same(s)
        /\ <<q, c>> = s => Affects(s, "mmap")
    BY <1>8 DEF Mmap, drm_gem_cma_mmap, MapObject, Same, Affects, DumbTypeOK
  <2> QED
    BY <1>2, <1>8, <2>1 DEF Mmap, Names
<1>9. ASSUME NEW q \in Procs, NEW c \in {1, 2}, MmapFails(q, c)
      PROVE  SlotStep(p, b)
  <2>1. Same(s)
    BY <1>9 DEF MmapFails, drm_gem_cma_mmap_fails, Same, dumbVars
  <2> QED
    BY <1>1, <1>9, <2>1 DEF MmapFails, Names
<1>10. ASSUME NEW q \in Procs, NEW c \in {1, 2}, Access(q, c)
       PROVE  SlotStep(p, b)
  <2>1. Same(s) /\ vma[<<q, c>>] # None /\ vma[<<q, c>>] \in painted'
    BY <1>10 DEF Access, Same
  <2> QED
    BY <1>1, <1>10, <2>1 DEF Access, Names
<1>11. ASSUME NEW q \in Procs, NEW c \in {1, 2}, MmapKilled(q, c) \/ AccessKills(q, c)
       PROVE  SlotStep(p, b)
  BY <1>3, <1>4, <1>11 DEF MmapKilled, AccessKills
<1>12. ASSUME NEW q \in Procs, NEW c \in {1, 2},
              Munmap(q, c) \/ DestroyDumb(q, c) \/ drmModeRmFB(q, c)
       PROVE  SlotStep(p, b)
  <2>1. ASSUME Put({}, {}, {<<q, c>>})
        PROVE  (<<q, c>> # s => Same(s)) /\ (<<q, c>> = s => Affects(s, "munmap"))
    BY <2>1, PutSlots DEF Same, Affects
  <2>2. ASSUME Put({<<q, c>>}, {}, {})
        PROVE  (<<q, c>> # s => Same(s)) /\ (<<q, c>> = s => Affects(s, "destroy"))
    BY <2>2, PutSlots DEF Same, Affects
  <2>3. ASSUME Put({}, {<<q, c>>}, {})
        PROVE  (<<q, c>> # s => Same(s)) /\ (<<q, c>> = s => Affects(s, "rmfb"))
    BY <2>3, PutSlots DEF Same, Affects
  <2> QED
    BY <1>2, <1>12, <2>1, <2>2, <2>3 DEF Munmap, DestroyDumb, drmModeRmFB, Names
<1>13. ASSUME NEW q \in Procs, HelperMaps(q)
       PROVE  SlotStep(p, b)
  <2>1. /\ driver = "cma" /\ q \in open /\ fb' = fb /\ UNCHANGED <<todo, open>>
        /\ <<q, 2>> # s => Same(s)
        /\ <<q, 2>> = s => Guesses(s)
    BY <1>0, <1>13
    DEF HelperMaps, drm_gem_cma_mmap, MapObject, Same, Guesses, procVars, Runs, DumbTypeOK
  <2>2. CASE <<q, 2>> = s
    BY <1>0, <2>1, <2>2 DEF SlotStep
  <2>3. CASE <<q, 2>> # s
    BY <1>3, <2>1, <2>3
  <2> QED
    BY <2>2, <2>3
<1>14. ASSUME NEW q \in Procs, Exit(q)
       PROVE  SlotStep(p, b)
  <2> DEFINE own == {q} \X {1, 2}
  <2>1. Put(own, own, own) /\ open' = open \ {q} /\ todo' = [todo EXCEPT ![q] = <<>>]
    BY <1>14 DEF Exit
  <2>2. CASE q = p
    <3>1. s \in own
      BY <2>2 DEF s
    <3>2. todo'[p] = <<>> /\ p \notin open'
      BY <2>1, <2>2 DEF TypeOK
    <3> QED
      BY <2>1, <3>1, <3>2, PutSlots DEF SlotStep
  <2>3. CASE q # p
    <3>1. s \notin own
      BY <2>3 DEF s
    <3>2. todo'[p] = todo[p] /\ (p \in open' <=> p \in open)
      BY <2>1, <2>3 DEF TypeOK
    <3> QED
      BY <2>1, <3>1, <3>2, PutSlots DEF SlotStep, Same
  <2> QED
    BY <2>2, <2>3
<1>15. ASSUME NEW q \in Procs, Start(q)
       PROVE  SlotStep(p, b)
  <2>1. /\ Same(s) /\ q \notin open /\ open' = open \cup {q}
        /\ \E program \in Programs(q) : todo' = [todo EXCEPT ![q] = program]
    BY <1>4, <1>15 DEF Start
  <2> QED
    BY <2>1 DEF SlotStep, TypeOK
<1>16. ASSUME NEW q \in Procs, NEW call \in Names, NEW c \in {1, 2}, DisplayCall(q, call, c),
              call \notin {"fill", "rmfb", "munmap", "destroy"}
       PROVE  SlotStep(p, b)
  BY <1>1, <1>4, <1>16 DEF DisplayCall
<1>17. ASSUME NEW q \in Procs, NEW c \in {1, 2}, drmModeSetCrtc(q, c) \/ drmModeSetPlane(q, c)
       PROVE  SlotStep(p, b)
  BY <1>16, <1>17 DEF drmModeSetCrtc, drmModeSetPlane, Names
<1>18. ASSUME NEW q \in Procs, drmModeCreatePropertyBlob(q) \/ drmModeAtomicCommit(q)
       PROVE  SlotStep(p, b)
  BY <1>16, <1>18 DEF drmModeCreatePropertyBlob, drmModeAtomicCommit, Names
<1>19. ASSUME NEW q \in Procs, DisplayCallFails(q)
       PROVE  SlotStep(p, b)
  <2>1. /\ todo[q] \in Seq(CallSet) /\ todo[q] # <<>>
        /\ Head(todo[q])[1] \in {"setcrtc", "setplane", "blob", "commit_crtc", "commit_plane"}
        /\ DisplayCall(q, Head(todo[q])[1], Head(todo[q])[2])
    BY <1>19 DEF DisplayCallFails, TypeOK, CallSet
  <2>2. Head(todo[q]) \in CallSet
    BY <2>1
  <2>3. Head(todo[q])[2] \in {1, 2}
    BY <2>2 DEF CallSet, getchar
  <2> QED
    BY <1>16, <2>1, <2>3 DEF Names
<1>20. ASSUME NEW q \in Procs, KeyPressed(q)
       PROVE  SlotStep(p, b)
  BY <1>1, <1>4, <1>20 DEF KeyPressed, Names
<1>21. CASE UNCHANGED vars
  BY <1>3, <1>4, <1>21 DEF vars, procVars
<1>22. ASSUME NEW q \in Procs, Step(q)
       PROVE  SlotStep(p, b)
  BY <1>5, <1>6, <1>7, <1>8, <1>9, <1>10, <1>11, <1>12, <1>14, <1>17, <1>18, <1>19, <1>22
  DEF Step, close
<1> QED
  BY <1>13, <1>14, <1>15, <1>20, <1>21, <1>22 DEF Next

-----------------------------------------------------------------------------
(* The calls left.                                                         *)

LEMMA NothingLeft == InOrder(<<>>) /\ \A X : ~Has(<<>>, X)
BY DEF InOrder, NotAfter, Later, Has

(* The calls left after a call. *)
LEMMA LeftNext ==
  ASSUME TypeOK, NEW p \in Procs, NEW call, NEW c, Makes(p, call, c), NEW X
  PROVE  /\ Left(p, X)' => Left(p, X)
         /\ Left(p, X) => Left(p, X)' \/ <<call, c>> \in X
BY CallsLeft, TailHas DEF Makes, Left

(* What the order of its calls says of the rest of a program. *)
LEMMA OrderNext ==
  ASSUME TypeOK, ProgramInv, NEW p \in Procs, NEW call \in Names, NEW b \in {1, 2},
         Makes(p, call, b)
  PROVE  /\ ~Left(p, {<<"create", b>>})'
         /\ call = "create" => Left(p, {<<"destroy", b>>})'
         /\ call = "addfb" =>
              ~Left(p, {<<"addfb", b>>})' /\ Left(p, {<<"fill", b>>})' /\ Left(p, {<<"rmfb", b>>})'
         /\ call = "mmap" => Left(p, {<<"munmap", b>>})'
         /\ call \in Shows => ~Left(p, {<<"fill", b>>}) /\ Left(p, Key)'
         /\ call = "rmfb" => ~Left(p, Key)'
<1>1. /\ todo[p] \in Seq(CallSet) /\ todo[p] # <<>> /\ Head(todo[p]) = <<call, b>>
      /\ todo'[p] = Tail(todo[p]) /\ InOrder(todo[p])
  BY CallsLeft DEF Makes, ProgramInv
<1>2. \A X, Y : /\ <<call, b>> \in X /\ NotAfter(todo[p], X, Y) => ~Left(p, Y)'
                /\ <<call, b>> \in X /\ Later(todo[p], X, Y) => Left(p, Y)'
  BY <1>1, HeadOrders DEF Left
<1>3. ~Left(p, {<<"create", b>>})'
  <2>1. <<call, b>> \in Names \X {b} /\ NotAfter(todo[p], Names \X {b}, {<<"create", b>>})
    BY <1>1 DEF InOrder
  <2> QED
    BY <1>2, <2>1
<1>4. call = "create" => Left(p, {<<"destroy", b>>})'
  BY <1>1, <1>2 DEF InOrder
<1>5. call = "addfb" =>
        ~Left(p, {<<"addfb", b>>})' /\ Left(p, {<<"fill", b>>})' /\ Left(p, {<<"rmfb", b>>})'
  BY <1>1, <1>2 DEF InOrder
<1>6. call = "mmap" => Left(p, {<<"munmap", b>>})'
  BY <1>1, <1>2 DEF InOrder
<1>7. call \in Shows => ~Left(p, {<<"fill", b>>})' /\ Left(p, Key)'
  <2>1. /\ call \in Shows => <<call, b>> \in Shows \X {b} /\ <<call, b>> \in Shows \X {1, 2}
        /\ NotAfter(todo[p], Shows \X {b}, {<<"fill", b>>})
        /\ Later(todo[p], Shows \X {1, 2}, Key)
    BY <1>1 DEF InOrder
  <2> QED
    BY <1>2, <2>1
<1>8. call \in Shows => ~Left(p, {<<"fill", b>>})
  BY <1>7, LeftNext DEF Shows
<1>9. call = "rmfb" => ~Left(p, Key)'
  BY <1>1, <1>2 DEF InOrder, Each
<1> QED
  BY <1>3, <1>4, <1>5, <1>6, <1>7, <1>8, <1>9

LEMMA InOrderNext ==
  ASSUME NEW calls \in Seq(CallSet), calls # <<>>, InOrder(calls)
  PROVE  InOrder(Tail(calls))
BY TailInOrder DEF InOrder

LEMMA StartGood ==
  ASSUME NEW p, NEW program \in Programs(p)
  PROVE  Good(program) /\ (driver = "cma" => ~Has(program, Each("addfb")))
<1>1. program \in AllPrograms /\ (driver = "cma" => program = my_gem)
  BY DEF Programs, HasDisplay, AllPrograms
<1> QED
  BY <1>1, ProgramsGood

LEMMA ProgramStep ==
  ASSUME TypeOK, ProgramInv, BufferInv, [Next]_vars
  PROVE  ProgramInv'
<1> SUFFICES ASSUME NEW p \in Procs
             PROVE  /\ InOrder(todo'[p])
                    /\ p \notin open' => todo'[p] = <<>>
                    /\ driver = "cma" => ~Has(todo'[p], Each("addfb"))
  <2>1. driver' = driver
    BY NextDumb, DriverStays
  <2> QED
    BY <2>1 DEF ProgramInv, Left
<1>1. /\ InOrder(todo[p]) /\ (p \notin open => todo[p] = <<>>)
      /\ driver = "cma" => ~Has(todo[p], Each("addfb"))
  BY DEF ProgramInv, Left
<1>2. CASE todo'[p] = todo[p] /\ (p \in open' <=> p \in open)
  BY <1>1, <1>2
<1>3. ASSUME NEW call, NEW c, Makes(p, call, c)
      PROVE  /\ InOrder(todo'[p]) /\ p \in open'
             /\ driver = "cma" => ~Has(todo'[p], Each("addfb"))
  BY <1>1, <1>3, CallsLeft, InOrderNext, TailHas DEF Makes
<1>4. CASE p \in open' /\ todo'[p] \in Programs(p)
  BY <1>4, StartGood DEF Good
<1>5. CASE todo'[p] = <<>>
  BY <1>5, NothingLeft
<1> QED
  BY <1>2, <1>3, <1>4, <1>5, SlotMoves DEF SlotStep

(* A buffer that something refers to keeps what was painted. *)
LEMMA PaintedStays ==
  ASSUME DumbStep, NEW o \in painted, refs'[o] > 0
  PROVE  o \in painted'
BY DEF DumbStep, dumbVars, HelperDumbCreate, drm_gem_cma_dumb_create_handle, NewHandle,
       drm_gem_cma_dumb_create_no_handle, drm_gem_cma_dumb_create_alloc, AddFb,
       drm_gem_cma_mmap_fails, Painted,
       drm_gem_cma_mmap, Put

LEMMA BufferStep ==
  ASSUME IInv, [Next]_vars
  PROVE  BufferInv'
<1> TypeOK /\ ProgramInv /\ BufferInv /\ CountInv /\ RefsExact
  BY DEF IInv
<1> DumbStep
  BY NextDumb
<1>0. DumbTypeOK' /\ CountInv' /\ driver' = driver
  BY DumbTypeStep, CountStep, DriverStays
<1> SUFFICES ASSUME NEW p \in Procs, NEW b \in {1, 2}
             PROVE  BufferUse(p, b)'
  BY DEF BufferInv
<1> DEFINE s == <<p, b>>
<1>1. s \in Slots /\ s = <<p, b>>
  BY SlotPairs
<1>2. BufferUse(p, b)
  BY DEF BufferInv
<1>3. fb'[s] # None /\ fb'[s] \in painted => fb'[s] \in painted'
  <2>1. fb'[s] # None => refs'[fb'[s]] # 0 /\ refs'[fb'[s]] \in Nat
    BY <1>0, <1>1, ReferencedNext DEF DumbTypeOK
  <2> QED
    BY <2>1, PaintedStays
<1> HIDE DEF s
<1> USE <1>0, <1>1, <1>2
<1>4. CASE Same(s) /\ todo'[p] = todo[p] /\ (p \in open' <=> p \in open)
  BY <1>3, <1>4 DEF Same, Left, BufferUse, Unused, Undone, Agree, Filled, Guesses
<1>5. ASSUME NEW call \in Names, NEW c \in {1, 2}, Makes(p, call, c), c = b, Affects(s, call)
      PROVE  BufferUse(p, b)'
  <2>1. p \in open' /\ p \in open
    BY <1>5 DEF Makes
  <2>2. \A X : (Left(p, X)' => Left(p, X)) /\ (Left(p, X) => Left(p, X)' \/ <<call, b>> \in X)
    BY <1>5, LeftNext
  <2>3. Unused(p, b)'
    <3>1. ~Left(p, {<<"create", b>>})'
      BY <1>5, OrderNext
    <3>2. Left(p, {<<"addfb", b>>})' \/ driver = "cma" => fb'[s] = None
      <4>1. call = "addfb" => ~Left(p, {<<"addfb", b>>})' /\ driver # "cma"
        <5>1. call = "addfb" => <<call, c>> \in Each("addfb")
          BY <1>5 DEF Each
        <5>2. call = "addfb" => Left(p, Each("addfb"))
          BY <1>5, <5>1, CallsLeft DEF Makes
        <5> QED
          BY <1>5, <5>2, OrderNext DEF ProgramInv
      <4>2. Left(p, {<<"addfb", b>>}) \/ driver = "cma" => fb[s] = None
        BY DEF BufferUse, Unused
      <4>3. call # "addfb" => fb'[s] \in {fb[s], None}
        BY <1>5 DEF Affects
      <4> QED
        BY <2>2, <4>1, <4>2, <4>3
    <3> QED
      BY <2>1, <3>1, <3>2 DEF Unused
  <2>4. driver # "cma" => Undone(p, b)'
    <3>1. /\ call # "destroy" /\ Left(p, {<<"destroy", b>>}) => Left(p, {<<"destroy", b>>})'
          /\ call # "rmfb" /\ Left(p, {<<"rmfb", b>>}) => Left(p, {<<"rmfb", b>>})'
          /\ call # "munmap" /\ Left(p, {<<"munmap", b>>}) => Left(p, {<<"munmap", b>>})'
      BY <2>2
    <3> QED
      BY <1>5, <3>1, OrderNext DEF BufferUse, Undone, Affects
  <2>5. driver # "cma" => Agree(s)'
    <3>1. call = "create" => fb[s] = None /\ (driver # "cma" => vma[s] = None)
      <4>1. call = "create" => Left(p, {<<"create", b>>})
        BY <1>5, CallsLeft DEF Makes
      <4> QED
        BY <4>1 DEF BufferUse, Unused, Guesses
    <3> QED
      BY <1>5, <3>1 DEF BufferUse, Agree, Affects
  <2>6. driver # "cma" => Filled(p, b)'
    <3>1. call # "fill" /\ Left(p, {<<"fill", b>>}) => Left(p, {<<"fill", b>>})'
      BY <2>2
    <3> QED
      BY <1>3, <1>5, <3>1, OrderNext DEF BufferUse, Filled, Affects
  <2> QED
    BY <2>3, <2>4, <2>5, <2>6 DEF BufferUse
<1>6. ASSUME NEW call \in Names, NEW c \in {1, 2}, Makes(p, call, c), Same(s),
             c = b => call \notin {"rmfb", "munmap", "destroy"},
             c = b /\ call = "fill" => vma[s] # None /\ vma[s] \in painted'
      PROVE  BufferUse(p, b)'
  <2>1. p \in open /\ p \in open'
    BY <1>6 DEF Makes
  <2>2. \A X : (Left(p, X)' => Left(p, X)) /\ (Left(p, X) => Left(p, X)' \/ <<call, c>> \in X)
    BY <1>6, LeftNext
  <2>3. Unused(p, b)'
    BY <1>6, <2>1, <2>2 DEF BufferUse, Unused, Same, Guesses
  <2>4. driver # "cma" => Undone(p, b)'
    <3>1. /\ Left(p, {<<"destroy", b>>}) => Left(p, {<<"destroy", b>>})'
          /\ Left(p, {<<"rmfb", b>>}) => Left(p, {<<"rmfb", b>>})'
          /\ Left(p, {<<"munmap", b>>}) => Left(p, {<<"munmap", b>>})'
      BY <1>6, <2>2
    <3> QED
      BY <1>6, <3>1 DEF BufferUse, Undone, Same
  <2>5. driver # "cma" => Agree(s)'
    BY <1>6 DEF BufferUse, Agree, Same
  <2>6. driver # "cma" => Filled(p, b)'
    <3>1. \/ Left(p, {<<"fill", b>>}) => Left(p, {<<"fill", b>>})'
          \/ vma[s] # None /\ vma[s] \in painted'
      BY <1>6, <2>2
    <3>2. driver # "cma" => Filled(p, b) /\ Agree(s)
      BY DEF BufferUse
    <3> QED
      BY <1>3, <1>6, <3>1, <3>2 DEF Filled, Agree, Same
  <2> QED
    BY <2>3, <2>4, <2>5, <2>6 DEF BufferUse
<1>7. CASE /\ driver = "cma" /\ todo'[p] = todo[p] /\ p \in open /\ p \in open'
           /\ fb'[s] = fb[s] /\ (vma'[s] = vma[s] \/ Guesses(s))
  BY <1>7 DEF Left, BufferUse, Unused, Guesses
<1>8. CASE Same(s) /\ p \notin open /\ p \in open' /\ todo'[p] \in Programs(p)
  BY <1>8 DEF Same, BufferUse, Unused, Undone, Agree, Filled
<1>9. CASE /\ p \notin open' /\ todo'[p] = <<>>
           /\ handle'[s] = None /\ fb'[s] = None /\ vma'[s] = None
  BY <1>9 DEF BufferUse, Unused, Undone, Agree, Filled
<1>10. CASE \E call \in Names, c \in {1, 2} :
              /\ Makes(p, call, c)
              /\ \/ c = b /\ Affects(s, call)
                 \/ /\ Same(s)
                    /\ c = b => call \notin {"rmfb", "munmap", "destroy"}
                    /\ c = b /\ call = "fill" => vma[s] # None /\ vma[s] \in painted'
  BY <1>5, <1>6, <1>10
<1>11. SlotStep(p, b)
  BY SlotMoves
<1> QED
  BY <1>4, <1>7, <1>8, <1>9, <1>10, <1>11 DEF SlotStep, s

-----------------------------------------------------------------------------
(* Types of processes and display.                                         *)

ProcType ==
  /\ open \subseteq Procs /\ todo \in [Procs -> Seq(CallSet)]
  /\ failed \subseteq open /\ dying \subseteq open /\ stuck \subseteq open

DisplayType ==
  /\ master \in open \cup {None} /\ blob \subseteq open
  /\ shown \in Slots \cup {None} /\ active \in BOOLEAN

LEMMA TypeParts == TypeOK <=> DumbTypeOK /\ ProcType /\ DisplayType
BY DEF TypeOK, ProcType, DisplayType, CallSet

LEMMA TypePartsNext == DumbTypeOK' /\ ProcType' /\ DisplayType' => TypeOK'
BY DEF TypeOK, ProcType, DisplayType, CallSet

(* A call that ends leaves the rest of the program. *)
LEMMA CallType ==
  ASSUME TypeOK, NEW p \in Procs, NEW call, NEW c, Call(p, call, c), Ok \/ Fails(p)
  PROVE  ProcType' /\ open' = open /\ p \in open
<1>1. /\ p \in open /\ UNCHANGED <<open, dying, stuck>>
      /\ failed' \subseteq failed \cup {p}
  BY DEF Call, At, Runs, Ok, Fails
<1>2. todo' \in [Procs -> Seq(CallSet)]
  <2>1. todo' = [todo EXCEPT ![p] = Tail(@)] /\ todo[p] \in Seq(CallSet) /\ todo[p] # <<>>
    BY CallsLeft DEF Call
  <2>2. Tail(todo[p]) \in Seq(CallSet)
    BY <2>1, TailIndex
  <2> QED
    BY <2>1, <2>2, TypeParts DEF ProcType
<1> QED
  BY <1>1, <1>2, TypeParts DEF ProcType

LEMMA TypeStep ==
  ASSUME TypeOK, ProgramInv, BufferInv, CountInv, RefsExact, [Next]_vars
  PROVE  TypeOK'
<1>0. DumbTypeOK'
  BY NextDumb, DumbTypeStep
<1> ProcType /\ DisplayType
  BY TypeParts
<1>1. ASSUME NEW p \in Procs, NEW call, NEW c, Call(p, call, c), Ok \/ Fails(p),
             UNCHANGED <<master, shown, active>>, blob' \subseteq blob \cup {p}
      PROVE  ProcType' /\ DisplayType'
  BY <1>1, CallType DEF DisplayType
<1>2. ASSUME UNCHANGED displayVars, UNCHANGED procVars
      PROVE  ProcType' /\ DisplayType'
  BY <1>2 DEF displayVars, procVars, ProcType, DisplayType
<1>3. ASSUME NEW p \in Procs, NEW b \in {1, 2}, CreateDumb(p, b)
      PROVE  ProcType' /\ DisplayType'
  BY <1>1, <1>2, <1>3 DEF CreateDumb, displayVars
<1>4. ASSUME NEW p \in Procs, NEW b \in {1, 2}, CreateDumbFails(p, b)
      PROVE  ProcType' /\ DisplayType'
  <2>1. CASE Call(p, "create", b) /\ Fails(p)
    BY <1>1, <1>4, <2>1 DEF CreateDumbFails, displayVars
  <2>2. CASE /\ At(p, "create", b) /\ dying' = dying \cup {p}
             /\ UNCHANGED <<open, todo, failed, stuck>>
    <3>1. p \in open
      BY <2>2 DEF At, Runs
    <3> QED
      BY <1>4, <2>2, <3>1 DEF CreateDumbFails, displayVars, ProcType, DisplayType
  <2> QED
    BY <1>4, <2>1, <2>2 DEF CreateDumbFails
<1>5. ASSUME NEW p \in Procs, NEW b \in {1, 2},
             \/ drmModeAddFB(p, b) \/ Mmap(p, b) \/ MmapFails(p, b) \/ Access(p, b)
             \/ Munmap(p, b) \/ DestroyDumb(p, b)
      PROVE  ProcType' /\ DisplayType'
  BY <1>1, <1>5
  DEF drmModeAddFB, Mmap, MmapFails, Access, Munmap, DestroyDumb, displayVars, Ok
<1>6. ASSUME NEW p \in Procs, NEW b \in {1, 2}, MmapKilled(p, b) \/ AccessKills(p, b)
      PROVE  ProcType' /\ DisplayType'
  <2>1. p \in open
    BY <1>6 DEF MmapKilled, AccessKills, At, Runs
  <2> QED
    BY <1>6, <2>1 DEF MmapKilled, AccessKills, displayVars, ProcType, DisplayType
<1>7. ASSUME NEW p \in Procs, NEW b \in {1, 2}, drmModeRmFB(p, b)
      PROVE  ProcType' /\ DisplayType'
  <2>1. ProcType' /\ open' = open
    BY <1>7, CallType DEF drmModeRmFB, Ok
  <2> QED
    BY <1>7, <2>1 DEF drmModeRmFB, HidesFb, DisplayType
<1>8. ASSUME NEW p \in Procs, NEW b \in {1, 2}, drmModeSetCrtc(p, b) \/ drmModeSetPlane(p, b)
      PROVE  ProcType' /\ DisplayType'
  <2>1. ProcType' /\ open' = open
    BY <1>8, CallType DEF drmModeSetCrtc, drmModeSetPlane, DisplayCall
  <2>2. <<p, b>> \in Slots
    BY SlotPairs
  <2>3. shown' \in Slots /\ active' \in BOOLEAN /\ UNCHANGED <<master, blob>>
    BY <1>8, <2>2 DEF drmModeSetCrtc, drmModeSetPlane, DisplayCall, DisplayType
  <2> QED
    BY <2>1, <2>3 DEF DisplayType
<1>9. ASSUME NEW p \in Procs, drmModeCreatePropertyBlob(p) \/ DisplayCallFails(p) \/ KeyPressed(p)
      PROVE  ProcType' /\ DisplayType'
  BY <1>1, <1>9
  DEF drmModeCreatePropertyBlob, DisplayCallFails, KeyPressed, DisplayCall, displayVars, Ok
<1>10. ASSUME NEW p \in Procs, drmModeAtomicCommit(p)
       PROVE  ProcType' /\ DisplayType'
  <2>1. ProcType' /\ open' = open
    BY <1>10, CallType DEF drmModeAtomicCommit, DisplayCall
  <2> QED
    BY <1>10, <2>1 DEF drmModeAtomicCommit, DisplayCall, DisplayType
<1>11. ASSUME NEW p \in Procs, HelperMaps(p)
       PROVE  ProcType' /\ DisplayType'
  BY <1>2, <1>11 DEF HelperMaps
<1>12. ASSUME NEW p \in Procs, Exit(p)
       PROVE  ProcType' /\ DisplayType'
  <2>1. /\ open' = open \ {p} /\ failed' = failed \ {p} /\ dying' = dying \ {p}
        /\ blob' = blob \ {p} /\ master' = IF master = p THEN None ELSE master
        /\ todo' = [todo EXCEPT ![p] = <<>>] /\ stuck' = stuck /\ p \notin stuck
    BY <1>12 DEF Exit
  <2>2. shown' \in Slots \cup {None} /\ active' \in BOOLEAN
    BY <1>12 DEF Exit, HidesFb, DisplayType
  <2>3. <<>> \in Seq(CallSet)
    OBVIOUS
  <2> QED
    BY <2>1, <2>2, <2>3 DEF ProcType, DisplayType
<1>13. ASSUME NEW p \in Procs, Start(p)
       PROVE  ProcType' /\ DisplayType'
  <2>1. PICK program \in Programs(p) : todo' = [todo EXCEPT ![p] = program]
    BY <1>13 DEF Start
  <2>2. program \in Seq(CallSet)
    BY StartGood DEF Good
  <2>3. ProcType'
    BY <1>13, <2>1, <2>2 DEF Start, ProcType
  <2>4. DisplayType'
    BY <1>13 DEF Start, DisplayType
  <2> QED
    BY <2>3, <2>4
<1>14. ASSUME NEW p \in Procs, Step(p)
       PROVE  ProcType' /\ DisplayType'
  BY <1>3, <1>4, <1>5, <1>6, <1>7, <1>8, <1>9, <1>10, <1>12, <1>14 DEF Step, close
<1>15. ASSUME UNCHANGED vars
       PROVE  ProcType' /\ DisplayType'
  <2>1. UNCHANGED displayVars /\ UNCHANGED procVars
    BY <1>15 DEF vars
  <2> QED
    BY <1>2, <2>1
<1>16. ProcType' /\ DisplayType'
  BY <1>9, <1>11, <1>12, <1>13, <1>14, <1>15 DEF Next
<1> QED
  BY <1>0, <1>16, TypePartsNext

-----------------------------------------------------------------------------
(* The display.                                                            *)

(* Steps that leave the display alone: what was left to show is still left *)
(* to a process, unless a call of it has failed.                           *)
Quiet ==
  /\ UNCHANGED <<master, shown, active, open>> /\ failed \subseteq failed'
  /\ \A s \in Slots : fb[s] # None => fb'[s] # None
  /\ \A p \in Procs :
       \/ todo'[p] = todo[p]
       \/ p \in failed'
       \/ \E call \in Names \ (Shows \cup {"commit_crtc"}), c \in {1, 2} : Makes(p, call, c)

LEMMA QuietCall ==
  ASSUME TypeOK, NEW q \in Procs, NEW call \in Names, NEW c \in {1, 2}, Call(q, call, c),
         UNCHANGED <<master, shown, active>>,
         failed' = failed \cup {q} \/ (failed' = failed /\ call \notin Shows \cup {"commit_crtc"}),
         \A s \in Slots : fb[s] # None => fb'[s] # None
  PROVE  Quiet
<1>1. ASSUME NEW p \in Procs
      PROVE  \/ todo'[p] = todo[p]
             \/ p \in failed'
             \/ \E d \in Names \ (Shows \cup {"commit_crtc"}), e \in {1, 2} : Makes(p, d, e)
  BY CallMakes
<1> QED
  BY <1>1 DEF Quiet, Call

LEMMA QuietPut ==
  ASSUME NEW hs, NEW vs, Put(hs, {}, vs), NEW s \in Slots
  PROVE  fb'[s] = fb[s]
BY PutSlots

LEMMA NextDisplay ==
  ASSUME TypeOK, [Next]_vars
  PROVE  \/ Quiet
         \/ \E p \in Procs, b \in {1, 2} :
              drmModeRmFB(p, b) \/ drmModeSetCrtc(p, b) \/ drmModeSetPlane(p, b)
         \/ \E p \in Procs : drmModeAtomicCommit(p) \/ Start(p) \/ Exit(p)
<1> DumbTypeOK
  BY DEF TypeOK
<1>1. ASSUME UNCHANGED <<fb, open, todo, master, shown, active>>, failed \subseteq failed'
      PROVE  Quiet
  BY <1>1 DEF Quiet
<1>2. ASSUME NEW p \in Procs, NEW b \in {1, 2}, CreateDumb(p, b)
      PROVE  Quiet
  <2>1. fb' = fb
    BY <1>2
    DEF CreateDumb, HelperDumbCreate, drm_gem_cma_dumb_create_handle, NewHandle,
        drm_gem_cma_dumb_create_no_handle, drm_gem_cma_dumb_create_alloc
  <2>2. CASE Call(p, "create", b) /\ (Ok \/ Fails(p))
    BY <1>2, <2>1, <2>2, QuietCall DEF CreateDumb, displayVars, Ok, Fails, Names, Shows
  <2>3. CASE UNCHANGED procVars
    BY <1>1, <1>2, <2>1, <2>3 DEF CreateDumb, displayVars, procVars
  <2> QED
    BY <1>2, <2>2, <2>3 DEF CreateDumb
<1>3. ASSUME NEW p \in Procs, NEW b \in {1, 2}, CreateDumbFails(p, b)
      PROVE  Quiet
  <2>1. fb' = fb /\ UNCHANGED <<master, shown, active>>
    BY <1>3 DEF CreateDumbFails, dumbVars, displayVars
  <2>2. CASE Call(p, "create", b) /\ Fails(p)
    BY <2>1, <2>2, QuietCall DEF Fails, Names
  <2>3. CASE UNCHANGED <<open, todo, failed>>
    BY <1>1, <2>1, <2>3
  <2> QED
    BY <1>3, <2>2, <2>3 DEF CreateDumbFails
<1>4. ASSUME NEW p \in Procs, NEW b \in {1, 2}, drmModeAddFB(p, b)
      PROVE  Quiet
  <2>1. \A s \in Slots : fb[s] # None => fb'[s] # None
    BY <1>4 DEF drmModeAddFB, AddFb, DumbTypeOK, dumbVars
  <2>2. /\ Call(p, "addfb", b) /\ UNCHANGED <<master, shown, active>>
        /\ failed' = failed \/ failed' = failed \cup {p}
    BY <1>4 DEF drmModeAddFB, displayVars, Ok, Fails
  <2>3. "addfb" \in Names /\ "addfb" \notin Shows \cup {"commit_crtc"}
    BY DEF Names, Shows
  <2> QED
    BY <2>1, <2>2, <2>3, QuietCall
<1>5. ASSUME NEW p \in Procs, NEW b \in {1, 2}, Mmap(p, b) \/ MmapFails(p, b)
      PROVE  Quiet
  <2>1. fb' = fb
    BY <1>5 DEF Mmap, MmapFails, drm_gem_cma_mmap, drm_gem_cma_mmap_fails, dumbVars
  <2>2. /\ Call(p, "mmap", b) /\ UNCHANGED <<master, shown, active>>
        /\ failed' = failed \/ failed' = failed \cup {p}
    BY <1>5 DEF Mmap, MmapFails, displayVars, Ok, Fails
  <2>3. "mmap" \in Names /\ "mmap" \notin Shows \cup {"commit_crtc"}
    BY DEF Names, Shows
  <2> QED
    BY <2>1, <2>2, <2>3, QuietCall
<1>6. ASSUME NEW p \in Procs, NEW b \in {1, 2}, MmapKilled(p, b) \/ AccessKills(p, b)
      PROVE  Quiet
  BY <1>1, <1>6 DEF MmapKilled, AccessKills, dumbVars, displayVars
<1>7. ASSUME NEW p \in Procs, NEW b \in {1, 2}, Access(p, b)
      PROVE  Quiet
  <2>1. /\ Call(p, "fill", b) \/ Call(p, "read", b)
        /\ UNCHANGED <<fb, failed, master, shown, active>>
    BY <1>7 DEF Access, displayVars
  <2> QED
    BY <2>1, QuietCall DEF Names, Shows
<1>8. ASSUME NEW p \in Procs, NEW b \in {1, 2}, Munmap(p, b) \/ DestroyDumb(p, b)
      PROVE  Quiet
  <2>1. \A s \in Slots : fb'[s] = fb[s]
    BY <1>8, QuietPut DEF Munmap, DestroyDumb
  <2>2. /\ Call(p, "munmap", b) \/ Call(p, "destroy", b)
        /\ UNCHANGED <<failed, master, shown, active>>
    BY <1>8 DEF Munmap, DestroyDumb, displayVars
  <2> QED
    BY <2>1, <2>2, QuietCall DEF Names, Shows
<1>9. ASSUME NEW p \in Procs, drmModeCreatePropertyBlob(p) \/ KeyPressed(p)
      PROVE  Quiet
  <2>1. /\ Call(p, "blob", 1) \/ Call(p, "getchar", 1)
        /\ UNCHANGED <<fb, failed, master, shown, active>>
    BY <1>9 DEF drmModeCreatePropertyBlob, KeyPressed, DisplayCall, displayVars, dumbVars, Ok
  <2> QED
    BY <2>1, QuietCall DEF Names, Shows
<1>10. ASSUME NEW p \in Procs, DisplayCallFails(p)
       PROVE  Quiet
  <2>1. PICK call, c : /\ call \in Names /\ Call(p, call, c)
                       /\ todo[p] # <<>> /\ Head(todo[p]) = <<call, c>>
    BY <1>10 DEF DisplayCallFails, DisplayCall, Call, At, Names
  <2>2. c \in {1, 2}
    <3>1. <<call, c>> \in CallSet
      BY <2>1 DEF TypeOK, CallSet
    <3> QED
      BY <3>1 DEF CallSet, getchar
  <2>3. UNCHANGED <<fb, master, shown, active>> /\ failed' = failed \cup {p}
    BY <1>10 DEF DisplayCallFails, DisplayCall, dumbVars, Fails
  <2> QED
    BY <2>1, <2>2, <2>3, QuietCall
<1>11. ASSUME NEW p \in Procs, HelperMaps(p)
       PROVE  Quiet
  BY <1>1, <1>11 DEF HelperMaps, drm_gem_cma_mmap, displayVars, procVars
<1>12. CASE UNCHANGED vars
  <2>1. UNCHANGED displayVars /\ UNCHANGED procVars /\ UNCHANGED dumbVars
    BY <1>12 DEF vars
  <2> QED
    BY <1>1, <2>1 DEF displayVars, procVars, dumbVars
<1>13. ASSUME NEW p \in Procs, Step(p)
       PROVE  \/ Quiet
              \/ \E b \in {1, 2} :
                   drmModeRmFB(p, b) \/ drmModeSetCrtc(p, b) \/ drmModeSetPlane(p, b)
              \/ drmModeAtomicCommit(p) \/ Exit(p)
  BY <1>2, <1>3, <1>4, <1>5, <1>6, <1>7, <1>8, <1>9, <1>10, <1>13 DEF Step, close
<1> QED
  BY <1>9, <1>11, <1>12, <1>13 DEF Next
(* The parts of DisplayInv: what is shown, and what a process may count on.*)
ShownInv ==
  shown # None => shown[1] = master /\ fb[shown] # None /\ fb[shown] \in painted

Claims(p) ==
  Left(p, Key) /\ Left(p, Each("rmfb")) =>
    /\ Left(p, LightsUp) \/ (master = p /\ active)
    /\ Left(p, Shows \X {1, 2}) \/ (shown # None /\ shown[1] = p)

LEMMA DisplayParts ==
  /\ DisplayInv <=> ShownInv /\ \A p \in open \ failed : Claims(p)
  /\ ShownInv' /\ (\A p \in open' \ failed' : Claims(p)') => DisplayInv'
BY DEF DisplayInv, ShownInv, Claims

(* A framebuffer that stays is still that of the same object, and painted. *)
LEMMA FbStays ==
  ASSUME IInv, [Next]_vars, NEW s \in Slots, fb[s] # None, fb'[s] # None
  PROVE  fb'[s] = fb[s] /\ (fb[s] \in painted => fb'[s] \in painted')
<1> TypeOK /\ ProgramInv /\ BufferInv /\ CountInv /\ RefsExact
  BY DEF IInv
<1>1. DumbStep
  BY NextDumb
<1>2. DumbTypeOK' /\ CountInv'
  BY <1>1, DumbTypeStep, CountStep
<1>3. PICK p \in Procs, b \in {1, 2} : s = <<p, b>>
  BY DEF Slots
<1>4. fb'[s] = fb[s]
  <2>1. SlotStep(p, b)
    BY SlotMoves
  <2>2. ASSUME NEW call \in Names, NEW c \in {1, 2}, Makes(p, call, c), c = b, Affects(s, call)
        PROVE  fb'[s] = fb[s]
    <3>1. call # "addfb"
      <4>1. call = "addfb" => Left(p, {<<"addfb", b>>})
        BY <2>2, CallsLeft DEF Makes
      <4>2. Left(p, {<<"addfb", b>>}) => fb[s] = None
        BY <1>3 DEF BufferInv, BufferUse, Unused
      <4> QED
        BY <4>1, <4>2
    <3> QED
      BY <2>2, <3>1 DEF Affects
  <2> QED
    BY <1>3, <2>1, <2>2 DEF SlotStep, Same
<1>5. refs'[fb'[s]] # 0 /\ refs'[fb'[s]] \in Nat
  BY <1>2, ReferencedNext DEF DumbTypeOK
<1> QED
  BY <1>1, <1>4, <1>5, PaintedStays

LEMMA ShownStays ==
  ASSUME IInv, [Next]_vars, shown' = shown, master' = master,
         shown # None => fb'[shown] # None
  PROVE  ShownInv'
<1>1. ShownInv /\ shown \in Slots \cup {None}
  BY DisplayParts, TypeParts DEF IInv, DisplayType
<1> QED
  BY <1>1, FbStays DEF ShownInv

(* Nothing that p counts on changes. *)
LEMMA ClaimStays ==
  ASSUME TypeOK, NEW p \in Procs, Claims(p),
         \/ todo'[p] = todo[p]
         \/ \E call \in Names \ (Shows \cup {"commit_crtc"}), c \in {1, 2} : Makes(p, call, c),
         master = p /\ active => master' = p /\ active',
         shown # None /\ shown[1] = p => shown' # None /\ shown'[1] = p
  PROVE  Claims(p)'
<1>1. CASE todo'[p] = todo[p]
  BY <1>1 DEF Claims, Left
<1>2. ASSUME NEW call \in Names \ (Shows \cup {"commit_crtc"}), NEW c \in {1, 2},
             Makes(p, call, c)
      PROVE  Claims(p)'
  <2>1. <<call, c>> \notin LightsUp /\ <<call, c>> \notin Shows \X {1, 2}
    BY DEF LightsUp, Shows
  <2>2. /\ Left(p, Key)' => Left(p, Key)
        /\ Left(p, Each("rmfb"))' => Left(p, Each("rmfb"))
        /\ Left(p, LightsUp) => Left(p, LightsUp)'
        /\ Left(p, Shows \X {1, 2}) => Left(p, Shows \X {1, 2})'
    BY <1>2, <2>1, LeftNext
  <2> QED
    BY <2>2 DEF Claims
<1> QED
  BY <1>1, <1>2

(* A process that counts on the display has become the master. *)
LEMMA ClaimOfOthers ==
  ASSUME ShownInv, NEW p \in Procs, Claims(p), master # p, todo'[p] = todo[p]
  PROVE  Claims(p)'
BY DEF ShownInv, Claims, Left

LEMMA QuietDisplay ==
  ASSUME IInv, [Next]_vars, Quiet
  PROVE  DisplayInv'
<1> TypeOK /\ ShownInv /\ (\A p \in open \ failed : Claims(p)) /\ shown \in Slots \cup {None}
  BY DisplayParts, TypeParts DEF IInv, DisplayType
<1>1. ShownInv'
  BY ShownStays DEF Quiet, ShownInv
<1>2. ASSUME NEW p \in open' \ failed'
      PROVE  Claims(p)'
  <2>1. p \in open \ failed /\ p \in Procs
    BY <1>2, TypeParts DEF Quiet, ProcType
  <2>2. UNCHANGED <<master, shown, active>>
    BY DEF Quiet
  <2>3. \/ todo'[p] = todo[p]
        \/ \E call \in Names \ (Shows \cup {"commit_crtc"}), c \in {1, 2} : Makes(p, call, c)
    BY <1>2, <2>1 DEF Quiet
  <2> QED
    BY <2>1, <2>2, <2>3, ClaimStays
<1> QED
  BY <1>1, <1>2, DisplayParts

LEMMA RmFbDisplay ==
  ASSUME IInv, [Next]_vars, NEW q \in Procs, NEW b \in {1, 2}, drmModeRmFB(q, b)
  PROVE  DisplayInv'
<1> TypeOK /\ ProgramInv /\ ShownInv /\ (\A p \in open \ failed : Claims(p))
    /\ shown \in Slots \cup {None}
  BY DisplayParts, TypeParts DEF IInv, DisplayType
<1>1. /\ Call(q, "rmfb", b) /\ Put({}, {<<q, b>>}, {}) /\ UNCHANGED <<master, failed>>
      /\ IF shown = <<q, b>> THEN shown' = None /\ active' = FALSE ELSE UNCHANGED <<shown, active>>
      /\ open' = open
  BY DEF drmModeRmFB, HidesFb, Call
<1>2. ShownInv'
  <2>1. CASE shown = <<q, b>>
    BY <1>1, <2>1 DEF ShownInv
  <2>2. CASE shown # <<q, b>>
    <3>1. shown # None => fb'[shown] = fb[shown]
      BY <1>1, <2>2, PutSlots
    <3> QED
      BY <1>1, <2>2, <3>1, ShownStays DEF ShownInv
  <2> QED
    BY <2>1, <2>2
<1>3. ASSUME NEW p \in open' \ failed'
      PROVE  Claims(p)'
  <2>1. p \in open \ failed /\ p \in Procs /\ Claims(p)
    BY <1>1, <1>3, TypeParts DEF ProcType
  <2>2. CASE p = q
    <3>1. Makes(p, "rmfb", b) /\ "rmfb" \in Names
      BY <1>1, <2>2, CallMakes DEF Names
    <3>2. ~Left(p, Key)'
      BY <2>1, <3>1, OrderNext
    <3> QED
      BY <3>2 DEF Claims
  <2>3. CASE p # q
    <3>1. todo'[p] = todo[p]
      BY <1>1, <2>1, <2>3, CallMakes
    <3>2. master = p => shown' = shown /\ active' = active
      BY <1>1, <2>3, SlotPairs, ProcAssumption DEF ShownInv
    <3>3. shown # None /\ shown[1] = p => shown' = shown
      BY <1>1, <2>3, SlotPairs
    <3> QED
      BY <1>1, <2>1, <3>1, <3>2, <3>3, ClaimStays
  <2> QED
    BY <2>2, <2>3
<1> QED
  BY <1>2, <1>3, DisplayParts

(* SetCrtc and SetPlane show a framebuffer of the master.                  *)
LEMMA ShowsPainted ==
  ASSUME IInv, [Next]_vars, NEW q \in Procs, NEW call \in Shows, NEW b \in {1, 2},
         Call(q, call, b), UNCHANGED dumbVars, fb[<<q, b>>] # None
  PROVE  fb[<<q, b>>] \in painted
<1> TypeOK /\ ProgramInv /\ BufferInv
  BY DEF IInv
<1>1. Makes(q, call, b) /\ call \in Names
  BY CallMakes DEF Names, Shows
<1>2. ~Left(q, {<<"fill", b>>})
  BY <1>1, OrderNext
<1> QED
  BY <1>2 DEF BufferInv, BufferUse, Unused, Filled

LEMMA ShowDisplay ==
  ASSUME IInv, [Next]_vars, NEW q \in Procs, NEW b \in {1, 2},
         drmModeSetCrtc(q, b) \/ drmModeSetPlane(q, b)
  PROVE  DisplayInv'
<1> TypeOK /\ ProgramInv /\ ShownInv /\ (\A p \in open \ failed : Claims(p))
    /\ shown \in Slots \cup {None}
  BY DisplayParts, TypeParts DEF IInv, DisplayType
<1>1. PICK call \in Shows :
        /\ Call(q, call, b) /\ UNCHANGED dumbVars /\ master' = master /\ failed' = failed
        /\ master = q /\ fb[<<q, b>>] # None /\ shown' = <<q, b>>
        /\ active' = TRUE \/ (active' = active /\ call # "setcrtc")
  BY DEF drmModeSetCrtc, drmModeSetPlane, DisplayCall, Shows, Ok
<1>2. <<q, b>> \in Slots /\ <<q, b>>[1] = q /\ <<q, b>> # None
  BY SlotPairs, ProcAssumption
<1>3. open' = open /\ Makes(q, call, b)
  BY <1>1, CallMakes
<1>4. ShownInv'
  <2>1. fb[<<q, b>>] \in painted
    BY <1>1, ShowsPainted
  <2> QED
    BY <1>1, <1>2, <2>1 DEF ShownInv, dumbVars
<1>5. ASSUME NEW p \in open' \ failed'
      PROVE  Claims(p)'
  <2>1. p \in open \ failed /\ p \in Procs /\ Claims(p)
    BY <1>1, <1>3, <1>5, TypeParts DEF ProcType
  <2>2. CASE p = q
    <3>1. /\ Left(p, Key)' => Left(p, Key)
          /\ Left(p, Each("rmfb"))' => Left(p, Each("rmfb"))
          /\ Left(p, LightsUp) => Left(p, LightsUp)' \/ <<call, b>> \in LightsUp
      BY <1>3, <2>2, LeftNext
    <3>2. <<call, b>> \in LightsUp => call = "setcrtc"
      BY <1>1 DEF LightsUp, Shows
    <3>3. active \in BOOLEAN
      BY TypeParts DEF DisplayType
    <3> QED
      BY <1>1, <1>2, <2>1, <2>2, <3>1, <3>2, <3>3 DEF Claims
  <2>3. CASE p # q
    <3>1. todo'[p] = todo[p]
      BY <1>1, <2>1, <2>3, CallMakes
    <3> QED
      BY <1>1, <2>1, <2>3, <3>1, ClaimOfOthers
  <2> QED
    BY <2>2, <2>3
<1> QED
  BY <1>4, <1>5, DisplayParts

LEMMA CommitDisplay ==
  ASSUME IInv, [Next]_vars, NEW q \in Procs, drmModeAtomicCommit(q)
  PROVE  DisplayInv'
<1> TypeOK /\ ProgramInv /\ ShownInv /\ (\A p \in open \ failed : Claims(p))
    /\ shown \in Slots \cup {None}
  BY DisplayParts, TypeParts DEF IInv, DisplayType
<1>1. /\ Call(q, "commit_crtc", 1) /\ UNCHANGED dumbVars /\ UNCHANGED <<master, shown, failed>>
      /\ active' = TRUE /\ master = q
  BY DEF drmModeAtomicCommit, DisplayCall, Ok
<1>2. open' = open /\ Makes(q, "commit_crtc", 1)
  BY <1>1, CallMakes
<1>3. ShownInv'
  <2>1. fb' = fb
    BY <1>1 DEF dumbVars
  <2> QED
    BY <1>1, <2>1, ShownStays DEF ShownInv
<1>4. ASSUME NEW p \in open' \ failed'
      PROVE  Claims(p)'
  <2>1. p \in open \ failed /\ p \in Procs /\ Claims(p)
    BY <1>1, <1>2, <1>4, TypeParts DEF ProcType
  <2>2. CASE p = q
    <3>1. <<"commit_crtc", 1>> \notin Shows \X {1, 2}
      BY DEF Shows
    <3>2. /\ Left(p, Key)' => Left(p, Key)
          /\ Left(p, Each("rmfb"))' => Left(p, Each("rmfb"))
          /\ Left(p, Shows \X {1, 2}) => Left(p, Shows \X {1, 2})'
      BY <1>2, <2>2, <3>1, LeftNext
    <3> QED
      BY <1>1, <2>1, <2>2, <3>2 DEF Claims
  <2>3. CASE p # q
    <3>1. todo'[p] = todo[p]
      BY <1>1, <2>1, <2>3, CallMakes
    <3> QED
      BY <1>1, <2>1, <2>3, <3>1, ClaimOfOthers
  <2> QED
    BY <2>2, <2>3
<1> QED
  BY <1>3, <1>4, DisplayParts

LEMMA StartDisplay ==
  ASSUME IInv, [Next]_vars, NEW q \in Procs, Start(q)
  PROVE  DisplayInv'
<1> TypeOK /\ ShownInv /\ (\A p \in open \ failed : Claims(p)) /\ shown \in Slots \cup {None}
    /\ todo \in [Procs -> Seq(CallSet)]
  BY DisplayParts, TypeParts DEF IInv, DisplayType, ProcType
<1>1. PICK program \in Programs(q) : todo' = [todo EXCEPT ![q] = program]
  BY DEF Start
<1>2. /\ q \notin open /\ open' = open \cup {q} /\ failed' = failed
      /\ master' = IF master = None THEN q ELSE master
      /\ UNCHANGED <<shown, active>> /\ fb' = fb
  BY DEF Start, dumbVars
<1>3. shown # None => master # None
  BY ProcAssumption DEF ShownInv, Slots
<1>4. ShownInv'
  <2>1. shown = None => ShownInv'
    BY <1>2 DEF ShownInv
  <2>2. shown # None => ShownInv'
    BY <1>2, <1>3, ShownStays DEF ShownInv
  <2> QED
    BY <2>1, <2>2
<1>5. ASSUME NEW p \in open' \ failed'
      PROVE  Claims(p)'
  <2>1. CASE p = q
    <3>1. todo'[p] = program
      BY <1>1, <2>1
    <3>2. Left(p, Each("rmfb"))' => Left(p, LightsUp)' /\ Left(p, Shows \X {1, 2})'
      BY <3>1, StartGood DEF Good, Left
    <3> QED
      BY <3>2 DEF Claims
  <2>2. CASE p # q
    <3>1. p \in open \ failed /\ p \in Procs /\ Claims(p)
      BY <1>2, <1>5, <2>2, TypeParts DEF ProcType
    <3>2. todo'[p] = todo[p]
      BY <1>1, <2>2, <3>1
    <3>3. master = p /\ active => master' = p /\ active'
      BY <1>2, <3>1, ProcAssumption
    <3> QED
      BY <1>2, <3>1, <3>2, <3>3, ClaimStays
  <2> QED
    BY <2>1, <2>2
<1> QED
  BY <1>4, <1>5, DisplayParts

LEMMA ExitDisplay ==
  ASSUME IInv, [Next]_vars, NEW q \in Procs, Exit(q)
  PROVE  DisplayInv'
<1> TypeOK /\ ShownInv /\ (\A p \in open \ failed : Claims(p)) /\ shown \in Slots \cup {None}
    /\ todo \in [Procs -> Seq(CallSet)]
  BY DisplayParts, TypeParts DEF IInv, DisplayType, ProcType
<1> DEFINE own == {q} \X {1, 2}
<1>1. /\ Put(own, own, own) /\ open' = open \ {q} /\ failed' = failed \ {q}
      /\ master' = IF master = q THEN None ELSE master
      /\ todo' = [todo EXCEPT ![q] = <<>>]
      /\ IF shown \in own THEN shown' = None /\ active' = FALSE ELSE UNCHANGED <<shown, active>>
  BY DEF Exit, HidesFb
<1>2. shown \in own => shown # None /\ shown[1] = q
  BY ProcAssumption
<1>3. shown \in Slots /\ shown \notin own => shown[1] # q
  BY DEF Slots
<1>4. ShownInv'
  <2>1. CASE shown \in own
    BY <1>1, <2>1 DEF ShownInv
  <2>2. CASE shown = None
    BY <1>1, <1>2, <2>2 DEF ShownInv
  <2>3. CASE shown \in Slots /\ shown \notin own
    <3>1. fb'[shown] = fb[shown]
      BY <1>1, <2>3, PutSlots
    <3>2. shown' = shown /\ shown # None
      BY <1>1, <2>3, ProcAssumption DEF Slots
    <3>3. master' = master
      BY <1>1, <1>3, <2>3, <3>2 DEF ShownInv
    <3> QED
      BY <3>1, <3>2, <3>3, ShownStays DEF ShownInv
  <2> QED
    BY <2>1, <2>2, <2>3
<1> HIDE DEF own
<1>5. ASSUME NEW p \in open' \ failed'
      PROVE  Claims(p)'
  <2>1. p \in open \ failed /\ p \in Procs /\ Claims(p) /\ p # q
    BY <1>1, <1>5, TypeParts DEF ProcType
  <2>2. todo'[p] = todo[p]
    BY <1>1, <2>1
  <2>3. master = p => master' = p /\ shown' = shown /\ active' = active
    BY <1>1, <1>2, <2>1 DEF ShownInv
  <2>4. shown # None /\ shown[1] = p => shown' = shown
    BY <1>1, <1>2, <2>1
  <2> QED
    BY <2>1, <2>2, <2>3, <2>4, ClaimStays
<1> QED
  BY <1>4, <1>5, DisplayParts

LEMMA DisplayStep ==
  ASSUME IInv, [Next]_vars
  PROVE  DisplayInv'
<1> TypeOK
  BY DEF IInv
<1> QED
  BY NextDisplay, QuietDisplay, RmFbDisplay, ShowDisplay, CommitDisplay, StartDisplay, ExitDisplay

-----------------------------------------------------------------------------
(* The theorems.                                                           *)

LEMMA InitIInv == Init => IInv
<1> SUFFICES ASSUME Init PROVE IInv
  OBVIOUS
<1>1. /\ driver \in Drivers /\ refs = [o \in Objects |-> 0]
      /\ memory = {} /\ painted = {} /\ foreign = {}
      /\ handle = [s \in Slots |-> None] /\ fb = [s \in Slots |-> None]
      /\ vma = [s \in Slots |-> None]
      /\ open = {} /\ master = None /\ todo = [p \in Procs |-> <<>>]
      /\ failed = {} /\ dying = {} /\ stuck = {} /\ blob = {}
      /\ shown = None /\ active = FALSE
  BY DEF Init, DumbInit
<1>2. TypeOK
  <2>1. DumbTypeOK
    BY <1>1 DEF DumbTypeOK
  <2>2. ProcType
    <3>1. <<>> \in Seq(CallSet)
      OBVIOUS
    <3> QED
      BY <1>1, <3>1 DEF ProcType
  <2>3. DisplayType
    BY <1>1 DEF DisplayType
  <2> QED
    BY <2>1, <2>2, <2>3, TypeParts
<1>3. \A p \in Procs : todo[p] = <<>> /\ InOrder(todo[p]) /\ \A X : ~Left(p, X)
  BY <1>1, NothingLeft DEF Left
<1>4. ProgramInv
  BY <1>3 DEF ProgramInv
<1>5. BufferInv
  <2>1. ASSUME NEW p \in Procs, NEW b \in {1, 2}
        PROVE  BufferUse(p, b)
    <3>1. handle[<<p, b>>] = None /\ fb[<<p, b>>] = None /\ vma[<<p, b>>] = None
      BY <1>1, SlotPairs
    <3> QED
      BY <1>3, <3>1 DEF BufferUse, Unused, Undone, Agree, Filled
  <2> QED
    BY <2>1 DEF BufferInv
<1>6. \A o \in Objects : Cardinality(References(o)) = 0 /\ refs[o] = 0
  <2>1. ASSUME NEW o \in Objects
        PROVE  Cardinality(References(o)) = 0
    <3>1. References(o) = {}
      BY <1>1, ObjectAssumption DEF References
    <3> QED
      BY <3>1, FS_EmptySet
  <2> QED
    BY <1>1, <2>1
<1>7. CountInv /\ RefsExact
  BY <1>1, <1>6 DEF CountInv, RefsExact
<1>8. HandleInv /\ ForeignOnlyIf
  BY <1>1 DEF HandleInv, ForeignOnlyIf
<1>9. DisplayInv
  BY <1>1 DEF DisplayInv
<1> QED
  BY <1>2, <1>4, <1>5, <1>7, <1>8, <1>9 DEF IInv

LEMMA StepIInv == IInv /\ [Next]_vars => IInv'
<1> SUFFICES ASSUME IInv, [Next]_vars PROVE IInv'
  OBVIOUS
<1>1. TypeOK /\ ProgramInv /\ BufferInv /\ CountInv /\ RefsExact /\ HandleInv /\ ForeignOnlyIf
  BY DEF IInv
<1>2. DumbStep
  BY <1>1, NextDumb
<1>3. TypeOK' /\ ProgramInv' /\ BufferInv' /\ DisplayInv'
  BY <1>1, TypeStep, ProgramStep, BufferStep, DisplayStep
<1>4. CountInv' /\ RefsExact' /\ HandleInv' /\ ForeignOnlyIf'
  BY <1>1, <1>2, CountStep, HandleStep, ForeignStep
<1> QED
  BY <1>3, <1>4 DEF IInv

(* The inductive invariant holds whatever the drivers, programs and number *)
(* of processes.                                                           *)
THEOREM Invariance == Spec => []IInv
BY InitIInv, StepIInv, PTL DEF Spec

(* Drivers, display and programs are always of their types: among others,  *)
(* no count of references falls below zero.                                *)
THEOREM TypeCorrect == Spec => []TypeOK
<1>1. IInv => TypeOK
  BY DEF IInv
<1> QED
  BY <1>1, Invariance, PTL

(* The CMA helpers' objects count the handles, framebuffers and mappings   *)
(* there are, and have memory exactly as long as there is one.             *)
THEOREM ReferencesAreExact == Spec => []RefsExact
<1>1. IInv => RefsExact
  BY DEF IInv
<1> QED
  BY <1>1, Invariance, PTL

(* A program at its end has nothing left of its buffers.                   *)
THEOREM NothingIsLeft == Spec => []LeavesNothing
<1>1. IInv => LeavesNothing
  <2> SUFFICES ASSUME IInv, driver # "cma", NEW p \in open, todo[p] = <<>>,
                      NEW s \in {p} \X {1, 2}
               PROVE  handle[s] = None /\ fb[s] = None /\ vma[s] = None /\ shown # s
    BY DEF LeavesNothing
  <2>1. PICK b \in {1, 2} : s = <<p, b>>
    OBVIOUS
  <2>2. p \in Procs
    BY TypeParts DEF IInv, ProcType
  <2>3. handle[s] = None /\ fb[s] = None /\ vma[s] = None
    BY <2>1, <2>2, NothingLeft DEF IInv, BufferInv, BufferUse, Undone, Left
  <2>4. s # None
    BY <2>1, <2>2, ProcAssumption
  <2> QED
    BY <2>3, <2>4, DisplayParts DEF IInv, ShownInv
<1> QED
  BY <1>1, Invariance, PTL

(* What the display shows has its memory and was filled.                   *)
THEOREM ShownIsFilled == Spec => []ShownIsPainted
<1>1. IInv => ShownIsPainted
  <2> SUFFICES ASSUME IInv, shown # None
               PROVE  fb[shown] \in memory \cap painted
    BY DEF ShownIsPainted
  <2>1. /\ TypeOK /\ CountInv /\ RefsExact /\ BufferInv
        /\ shown \in Slots /\ fb[shown] # None /\ fb[shown] \in painted
    BY DisplayParts, TypeParts DEF IInv, ShownInv, DisplayType
  <2>2. PICK p \in Procs, b \in {1, 2} : shown = <<p, b>>
    BY <2>1 DEF Slots
  <2>3. driver # "cma"
    BY <2>1, <2>2 DEF BufferInv, BufferUse, Unused
  <2>4. fb[shown] \in Objects /\ refs[fb[shown]] # 0 /\ refs[fb[shown]] \in Nat
    BY <2>1, Referenced DEF TypeOK, DumbTypeOK
  <2> QED
    BY <2>1, <2>3, <2>4 DEF RefsExact
<1> QED
  BY <1>1, Invariance, PTL

(* A program that waits for a key and none of whose calls has failed has   *)
(* the display.                                                            *)
THEOREM DisplayStaysLit == Spec => []LitUnlessFailed
<1>1. IInv => LitUnlessFailed
  <2> SUFFICES ASSUME IInv, NEW p \in open \ failed, AtKey(p), StillTo(p, "rmfb")
               PROVE  active /\ (StillTo(p, "getchar") \/ (shown # None /\ shown[1] = p))
    BY DEF LitUnlessFailed
  <2>1. TypeOK /\ p \in Procs /\ InOrder(todo[p]) /\ Claims(p)
    BY DisplayParts, TypeParts DEF IInv, ProcType, ProgramInv
  <2> DEFINE calls == todo[p]
  <2>2. /\ calls \in Seq(CallSet) /\ calls # <<>> /\ Head(calls) = <<"getchar", 1>>
        /\ Left(p, Key)
    <3>1. <<"getchar", 1>> \in Key
      BY DEF Key, getchar
    <3> QED
      BY <2>1, <3>1, CallsLeft DEF AtKey
  <2>3. Len(calls) \in Nat \ {0} /\ calls[1] \in Key /\ calls[1] = <<"getchar", 1>>
    BY <2>2, TailIndex DEF Key, getchar
  <2>4. \A i \in 1 .. Len(calls) : calls[i] \in CallSet
    BY <2>2
  <2>5. Left(p, Each("rmfb"))
    <3>1. PICK i \in 2 .. Len(calls) : calls[i][1] = "rmfb"
      BY DEF StillTo
    <3>2. i \in 1 .. Len(calls)
      BY <2>3
    <3>3. calls[i] \in Each("rmfb")
      BY <2>4, <3>1, <3>2 DEF CallSet, Each, getchar
    <3> QED
      BY <3>2, <3>3 DEF Left, Has
  <2>6. ~Left(p, LightsUp)
    <3>1. NotAfter(calls, Key, LightsUp)
      BY <2>1 DEF InOrder
    <3>2. calls[1] \notin LightsUp
      BY <2>3 DEF LightsUp
    <3>3. \A i \in 1 .. Len(calls) : calls[i] \notin LightsUp
      BY <2>3, <3>1, <3>2 DEF NotAfter
    <3> QED
      BY <3>3 DEF Left, Has
  <2>7. Left(p, Shows \X {1, 2}) => StillTo(p, "getchar")
    <3> SUFFICES ASSUME NEW i \in 1 .. Len(calls), calls[i] \in Shows \X {1, 2}
                 PROVE  StillTo(p, "getchar")
      BY DEF Left, Has
    <3>1. PICK j \in 1 .. Len(calls) : i < j /\ calls[j] \in Key
      BY <2>1 DEF InOrder, Later
    <3>2. j \in 2 .. Len(calls) /\ calls[j][1] = "getchar"
      BY <2>3, <3>1 DEF Key, getchar
    <3> QED
      BY <3>2 DEF StillTo
  <2> QED
    BY <2>1, <2>2, <2>5, <2>6, <2>7 DEF Claims
<1> QED
  BY <1>1, Invariance, PTL

(* A mapping shows foreign memory only for the two reasons there are.      *)
THEOREM ForeignIsExplained == Spec => []ForeignOnlyIf
<1>1. IInv => ForeignOnlyIf
  BY DEF IInv
<1> QED
  BY <1>1, Invariance, PTL

(* Arithmetic of the size of a dumb buffer.                                *)
LEMMA MulMonotone ==
  ASSUME NEW a \in Nat, NEW b \in Nat, NEW c \in Nat, a <= b
  PROVE  a * c <= b * c
<1>1. PICK d \in Nat : b = a + d
  <2>1. b - a \in Nat /\ b = a + (b - a)
    OBVIOUS
  <2> QED
    BY <2>1
<1>2. b * c = a * c + d * c /\ d * c \in Nat /\ a * c \in Nat
  BY <1>1
<1> QED
  BY <1>2

LEMMA SmallIsItself ==
  ASSUME NEW n \in Nat, n < 2^WordSize
  PROVE  U32(n) = n
<1> DEFINE m == 2^WordSize
<1>1. m \in Nat \ {0} /\ n < m
  BY WordAssumption
<1> HIDE DEF m
<1>2. n % m = n
  BY <1>1
<1> QED
  BY <1>2 DEF U32, m

LEMMA RowFits ==
  ASSUME NEW w \in Nat, NEW k \in Nat
  PROVE  /\ w * k \in Nat /\ BytesFor(k) * w \in Nat
         /\ (w * k) \div 8 \in Nat /\ (w * k) \div 8 <= BytesFor(k) * w
<1>1. BytesFor(k) \in Nat /\ k <= 8 * BytesFor(k)
  BY DEF BytesFor
<1> DEFINE B == BytesFor(k)
<1> HIDE DEF B
<1>2. B \in Nat /\ k <= 8 * B
  BY <1>1 DEF B
<1>3. k * w <= (8 * B) * w
  BY <1>2, MulMonotone
<1>4. (8 * B) * w = 8 * (B * w) /\ B * w \in Nat /\ w * k \in Nat /\ w * k = k * w
  BY <1>2
<1> DEFINE n == w * k
           m == B * w
<1>5. n <= 8 * m /\ n \in Nat /\ m \in Nat
  BY <1>3, <1>4
<1> HIDE DEF n, m
<1>6. n \div 8 \in Nat /\ n \div 8 <= m
  BY <1>5
<1> QED
  BY <1>4, <1>6 DEF n, m, B

(* drm/driver/cma makes a buffer too small only for the two reasons there  *)
(* are, whatever the width of the words.                                   *)
THEOREM ShortIsExplained == Spec => []ShortOnlyIf
<1>1. ShortOnlyIf
  <2> DEFINE Bits(r) == r.width * r.bpp
  <2> SUFFICES ASSUME NEW r \in Requests, CoreAccepts(r),
                      Bits(r) % 8 = 0, Bits(r) < 2^WordSize
               PROVE  ~(dumb_size(r) < BytesFor(Bits(r)) * r.height)
    <3>1. \A r \in Requests : Bits(r) \in Nat
      BY RequestAssumption
    <3>2. \A r \in Requests :
            CoreAccepts(r) /\ dumb_size(r) < BytesFor(Bits(r)) * r.height =>
              Bits(r) % 8 # 0 \/ ~(Bits(r) < 2^WordSize)
      OBVIOUS
    <3>3. \A r \in Requests : ~(Bits(r) < 2^WordSize) => Bits(r) >= 2^WordSize
      BY <3>1, WordAssumption
    <3> QED
      BY <3>2, <3>3 DEF ShortOnlyIf
  <2>1. r.width \in Nat /\ r.height \in Nat /\ r.bpp \in Nat
    BY RequestAssumption
  <2> DEFINE n == Bits(r)
             h == r.height
             stride == BytesFor(r.bpp) * r.width
  <2>2. n \in Nat /\ stride \in Nat /\ n \div 8 \in Nat /\ n \div 8 <= stride
    BY <2>1, RowFits
  <2>3. U32(n) = n
    BY <2>2, SmallIsItself
  <2>4. stride * h < 2^WordSize
    BY DEF CoreAccepts
  <2>5. BytesFor(n) = n \div 8
    <3>1. n \in Nat /\ n % 8 = 0
      BY <2>2
    <3> HIDE DEF n
    <3> QED
      BY <3>1 DEF BytesFor
  <2>6. dumb_size(r) = U32((n \div 8) * h)
    BY <2>3 DEF dumb_size
  <2> HIDE DEF n, stride, h
  <2>7. h \in Nat
    BY <2>1 DEF h
  <2>8. (n \div 8) * h \in Nat /\ stride * h \in Nat /\ (n \div 8) * h <= stride * h
    BY <2>2, <2>7, MulMonotone
  <2>9. (n \div 8) * h < 2^WordSize
    BY <2>4, <2>8, WordAssumption
  <2>10. dumb_size(r) = BytesFor(n) * h
    BY <2>5, <2>6, <2>8, <2>9, SmallIsItself
  <2> QED
    BY <2>5, <2>8, <2>10 DEF n, h
<1> QED
  BY <1>1, PTL


=============================================================================
