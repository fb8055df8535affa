----------------------------- MODULE PmmProofs -----------------------------
(***************************************************************************)
(* The physical memory manager is correct for every page size, bitmap      *)
(* size, memory map and sequence of calls.                                 *)
(***************************************************************************)
EXTENDS Pmm, FrameBitmapProofs

\* More time than the default for each leaf.
USE SMTT(20), ZenonT(20)

-----------------------------------------------------------------------------
(* The inductive invariant.  The last conjunct is what Boot needs: before  *)
(* init nothing is free and nothing is held.                               *)

Unbooted ==
  pmm.initialized = FALSE =>
    pmm.used = Pages /\ held = {} /\ reserved = {} /\ map = {}

IInv == TypeOK /\ CounterMatchesBitmap /\ OneOwnerPerPage /\ Unbooted

LEMMA MapIsRegions ==
  ASSUME TypeOK
  PROVE  map \in SUBSET Regions
BY PmmAssumption DEF TypeOK, Regions

LEMMA InitIInv == Init => IInv
<1> SUFFICES ASSUME Init PROVE IInv
  OBVIOUS
<1>1. TypeOK
  BY BitmapAssumption DEF Init, TypeOK, PmmType, NewPmm, Pages
<1>2. CounterMatchesBitmap
  <2>1. Pages \ pmm.used = {} /\ pmm.free_pages = 0
    BY DEF Init, NewPmm
  <2> QED BY <2>1, FS_EmptySet DEF CounterMatchesBitmap
<1>3. OneOwnerPerPage
  <2>1. pmm.used = Pages /\ held = {} /\ reserved = {} /\ map = {}
    BY DEF Init, NewPmm
  <2> QED BY <2>1, NoMapNoPages DEF OneOwnerPerPage
<1>4. Unbooted
  BY DEF Init, NewPmm, Unbooted
<1> QED BY <1>1, <1>2, <1>3, <1>4 DEF IInv

LEMMA BootIInv ==
  ASSUME IInv, NEW entries \in MemoryMaps, Boot(entries)
  PROVE  IInv'
<1> DEFINE usable == UsablePages(entries)
           tracked == TrackedPages(entries)
<1>1. entries \in SUBSET Regions
  BY PmmAssumption DEF Regions
<1>2. tracked \in 0 .. MAX_PAGES /\ usable \in SUBSET (0 .. tracked - 1)
  BY <1>1, TrackedPagesType, UsablePagesType
<1>3. held = {} /\ reserved = {}
  BY DEF Boot, IInv, Unbooted, TypeOK, PmmType
<1>4. /\ pmm' \in PmmType
      /\ pmm'.used = Pages \ (usable \ {0})
      /\ pmm'.tracked_pages = tracked
      /\ pmm'.free_pages = Cardinality(usable \ {0})
      /\ pmm'.initialized = TRUE
      /\ usable \in SUBSET Pages
  BY <1>1, InitEffect, Zenon DEF Boot
<1>5. held' = {} /\ reserved' = {} /\ map' = entries
  BY <1>3 DEF Boot
<1> HIDE DEF usable, tracked
<1>6. TypeOK'
  BY <1>4, <1>5 DEF TypeOK
<1>7. CounterMatchesBitmap'
  <2>1. Pages \ pmm'.used = usable \ {0}
    BY <1>4
  <2>2. \A p \in usable \ {0} : p # 0 /\ p < pmm'.tracked_pages
    BY <1>2, <1>4
  <2> QED BY <1>4, <2>1, <2>2 DEF CounterMatchesBitmap
<1>8. OneOwnerPerPage'
  BY <1>4, <1>5 DEF OneOwnerPerPage, usable
<1>9. Unbooted'
  BY <1>4 DEF Unbooted
<1> QED BY <1>6, <1>7, <1>8, <1>9 DEF IInv

LEMMA AllocIInv ==
  ASSUME IInv, NEW count \in 0 .. MaxCount, NEW max_phys \in Limits,
         Alloc(count, max_phys)
  PROVE  IInv'
<1> DEFINE result == alloc_pages_below(pmm, count, max_phys)
<1>1. pmm \in PmmType /\ count \in Nat /\ max_phys \in Nat
  BY BitmapAssumption, PmmAssumption DEF IInv, TypeOK
<1>2. UNCHANGED <<reserved, map>> /\ pmm' = result.pmm
  BY DEF Alloc
<1>3. CASE result.ret = None
  <2>1. pmm' = pmm /\ held' = held
    BY <1>1, <1>2, <1>3, RefusalEffect DEF Alloc
  <2> QED BY <1>2, <2>1 DEF IInv, TypeOK, CounterMatchesBitmap,
                            OneOwnerPerPage, Unbooted
<1>4. CASE result.ret # None
  <2> DEFINE R == Run(result.ret, count)
  <2>1. /\ pmm' \in PmmType /\ pmm.initialized
        /\ R \in SUBSET Pages /\ R \cap pmm.used = {} /\ Cardinality(R) = count
        /\ pmm'.used = pmm.used \cup R
        /\ pmm'.free_pages = pmm.free_pages - count
        /\ pmm'.tracked_pages = pmm.tracked_pages
        /\ pmm'.initialized = pmm.initialized
    BY <1>1, <1>2, <1>4, GrantEffect
  <2>2. held' = held \cup R
    BY <1>4 DEF Alloc
  <2> HIDE DEF R
  <2>3. TypeOK'
    BY <1>2, <2>1, <2>2 DEF TypeOK, IInv
  <2>4. CounterMatchesBitmap'
    <3>1. Pages \ pmm'.used = (Pages \ pmm.used) \ R
      BY <2>1
    <3>2. (Pages \ pmm.used) \cap R = R
      BY <2>1
    <3>3. IsFiniteSet(Pages \ pmm.used)
      BY PagesFinite, FS_Difference, Zenon
    <3>4. Cardinality(Pages \ pmm'.used) = Cardinality(Pages \ pmm.used) - count
      <4>1. Cardinality((Pages \ pmm.used) \ R) =
              Cardinality(Pages \ pmm.used) - Cardinality((Pages \ pmm.used) \cap R)
        BY <3>3, FS_Difference, Zenon
      <4> QED BY <2>1, <3>1, <3>2, <4>1, Zenon
    <3> QED BY <2>1, <3>1, <3>4 DEF IInv, CounterMatchesBitmap
  <2>5. OneOwnerPerPage'
    BY <1>2, <2>1, <2>2 DEF IInv, OneOwnerPerPage
  <2>6. Unbooted'
    BY <1>1, <2>1 DEF Unbooted, PmmType
  <2> QED BY <2>3, <2>4, <2>5, <2>6 DEF IInv
<1> QED BY <1>3, <1>4

LEMMA FreeIInv ==
  ASSUME IInv, NEW base \in Bases, NEW count \in 0 .. MaxCount, Free(base, count)
  PROVE  IInv'
<1> DEFINE F == Freeable(pmm, base, count)
<1>1. pmm \in PmmType /\ base \in Nat /\ count \in Nat
  BY BitmapAssumption, PmmAssumption DEF IInv, TypeOK
<1>2. F \in SUBSET pmm.used /\ \A q \in F : q # 0 /\ q < pmm.tracked_pages
  BY <1>1, FreeableType
<1>3. F \subseteq held /\ held' = held \ F /\ UNCHANGED <<reserved, map>>
  BY DEF Free
<1>4. IsFiniteSet(F) /\ Cardinality(F) \in Nat
  BY <1>1, FreeEffect
<1>f. pmm' = free_pages_range(pmm, base, count)
  BY DEF Free
<1>5. /\ pmm' \in PmmType
      /\ pmm'.used = pmm.used \ F
      /\ pmm'.free_pages = pmm.free_pages + Cardinality(F)
      /\ pmm'.tracked_pages = pmm.tracked_pages
      /\ pmm'.initialized = pmm.initialized
  BY <1>1, <1>f, FreeEffect, ZenonT(40)
<1> HIDE DEF F
<1>6. TypeOK'
  BY <1>3, <1>5 DEF TypeOK, IInv
<1>7. CounterMatchesBitmap'
  <2>1. Pages \ pmm'.used = (Pages \ pmm.used) \cup F
    BY <1>1, <1>2, <1>5 DEF PmmType
  <2>2. (Pages \ pmm.used) \cap F = {}
    BY <1>2
  <2>3. IsFiniteSet(Pages \ pmm.used) /\ Cardinality(Pages \ pmm.used) \in Nat
    BY PagesFinite, FS_Difference, FS_CardinalityType, Zenon
  <2>4. Cardinality(Pages \ pmm'.used) =
          Cardinality(Pages \ pmm.used) + Cardinality(F)
    <3>1. Cardinality(Pages \ pmm'.used) =
            Cardinality(Pages \ pmm.used) + Cardinality(F) - Cardinality({})
      BY <1>4, <2>1, <2>2, <2>3, FS_Union, ZenonT(40)
    <3> QED BY <1>4, <2>3, <3>1, FS_EmptySet
  <2> QED BY <1>2, <1>5, <2>1, <2>4 DEF IInv, CounterMatchesBitmap
<1>8. OneOwnerPerPage'
  BY <1>2, <1>3, <1>5 DEF IInv, OneOwnerPerPage
<1>9. Unbooted'
  <2>1. ASSUME pmm.initialized = FALSE PROVE F = {}
    BY <1>3, <2>1 DEF IInv, Unbooted
  <2> QED BY <1>3, <1>5, <2>1 DEF IInv, Unbooted
<1> QED BY <1>6, <1>7, <1>8, <1>9 DEF IInv

LEMMA ReserveIInv ==
  ASSUME IInv, NEW base \in Bases, NEW length \in Lengths, Reserve(base, length)
  PROVE  IInv'
<1> DEFINE T == ReservedPages(pmm, base, length)
<1>1. pmm \in PmmType /\ base \in Nat /\ length \in Nat
  BY BitmapAssumption, PmmAssumption DEF IInv, TypeOK
<1>2. T \in SUBSET (Pages \ pmm.used)
  BY <1>1, ReservedPagesType
<1>3. reserved' = reserved \cup T /\ UNCHANGED <<held, map>>
  BY DEF Reserve
<1>4. pmm' = [pmm EXCEPT !.used = pmm.used \cup T,
                         !.free_pages = pmm.free_pages - Cardinality(T)]
  BY DEF Reserve, reserve
<1>5. pmm.initialized = FALSE => T = {}
  BY DEF ReservedPages
<1> HIDE DEF T
<1>6. /\ IsFiniteSet(Pages \ pmm.used) /\ IsFiniteSet(T)
      /\ Cardinality(T) \in Nat /\ Cardinality(T) <= Cardinality(Pages \ pmm.used)
      /\ Cardinality(Pages \ pmm.used) \in Nat
  <2>1. IsFiniteSet(Pages \ pmm.used)
    BY PagesFinite, FS_Difference, Zenon
  <2> QED BY <1>2, <2>1, FS_Subset, FS_CardinalityType
<1>7. pmm.used \cup T \in SUBSET Pages /\ pmm.free_pages - Cardinality(T) \in Nat
  <2>1. pmm.used \in SUBSET Pages /\ pmm.free_pages \in Nat
    BY <1>1, PmmFields
  <2>2. pmm.free_pages = Cardinality(Pages \ pmm.used)
    BY DEF IInv, CounterMatchesBitmap
  <2>3. pmm.free_pages - Cardinality(T) \in Nat
    BY <1>6, <2>1, <2>2
  <2> QED BY <1>2, <2>1, <2>3
<1>8. /\ pmm' \in PmmType
      /\ pmm'.used = pmm.used \cup T
      /\ pmm'.free_pages = pmm.free_pages - Cardinality(T)
      /\ pmm'.tracked_pages = pmm.tracked_pages
      /\ pmm'.initialized = pmm.initialized
  BY <1>1, <1>4, <1>7, Zenon DEF PmmType
<1>9. TypeOK'
  BY <1>2, <1>3, <1>8 DEF TypeOK, IInv
<1>10. CounterMatchesBitmap'
  <2>1. Pages \ pmm'.used = (Pages \ pmm.used) \ T
    BY <1>8
  <2>2. (Pages \ pmm.used) \cap T = T
    BY <1>2
  <2>3. Cardinality((Pages \ pmm.used) \ T) =
          Cardinality(Pages \ pmm.used) - Cardinality((Pages \ pmm.used) \cap T)
    BY <1>6, FS_Difference, Zenon
  <2>4. Cardinality(Pages \ pmm'.used) =
          Cardinality(Pages \ pmm.used) - Cardinality(T)
    BY <2>1, <2>2, <2>3, Zenon
  <2> QED BY <1>8, <2>1, <2>4 DEF IInv, CounterMatchesBitmap
<1>11. OneOwnerPerPage'
  BY <1>2, <1>3, <1>8 DEF IInv, OneOwnerPerPage
<1>12. Unbooted'
  BY <1>3, <1>5, <1>8 DEF IInv, Unbooted
<1> QED BY <1>9, <1>10, <1>11, <1>12 DEF IInv

LEMMA NextIInv == IInv /\ [Next]_vars => IInv'
<1> SUFFICES ASSUME IInv, [Next]_vars PROVE IInv'
  OBVIOUS
<1>1. CASE \E entries \in MemoryMaps : Boot(entries)
  BY <1>1, BootIInv
<1>2. CASE \E count \in 0 .. MaxCount, max_phys \in Limits : Alloc(count, max_phys)
  BY <1>2, AllocIInv
<1>3. CASE \E base \in Bases, count \in 0 .. MaxCount : Free(base, count)
  BY <1>3, FreeIInv
<1>4. CASE \E base \in Bases, length \in Lengths : Reserve(base, length)
  BY <1>4, ReserveIInv
<1>5. CASE UNCHANGED vars
  BY <1>5 DEF vars, IInv, TypeOK, CounterMatchesBitmap, OneOwnerPerPage, Unbooted
<1> QED BY <1>1, <1>2, <1>3, <1>4, <1>5 DEF Next

\* The inductive invariant holds of every reachable state.
THEOREM PmmInvariant == Spec => []IInv
BY InitIInv, NextIInv, PTL DEF Spec

\* The state of the physical memory manager is well typed.
THEOREM PmmTypeCorrect == Spec => []TypeOK
<1>1. IInv => TypeOK
  BY DEF IInv
<1> QED BY <1>1, PmmInvariant, PTL

\* free_pages counts the clear bits of the bitmap after any sequence of init,
\* alloc, free and reserve calls.
THEOREM PmmCounterCorrect == Spec => []CounterMatchesBitmap
<1>1. IInv => CounterMatchesBitmap
  BY DEF IInv
<1> QED BY <1>1, PmmInvariant, PTL

\* A set bit of the bitmap has exactly one reason: no page is handed out twice
\* and none is lost.
THEOREM PmmOneOwner == Spec => []OneOwnerPerPage
<1>1. IInv => OneOwnerPerPage
  BY DEF IInv
<1> QED BY <1>1, PmmInvariant, PTL

\* Pages handed out are memory that the firmware reported as usable.
THEOREM PmmHeldUsable == Spec => []HeldPagesAreUsableMemory
<1>1. IInv => HeldPagesAreUsableMemory
  <2> SUFFICES ASSUME IInv, NEW p \in held
               PROVE  \E r \in map :
                        /\ r.usable /\ r.base <= p * PAGE_SIZE
                        /\ (p + 1) * PAGE_SIZE <= r.base + r.length
    BY DEF HeldPagesAreUsableMemory
  <2>1. p \in UsablePages(map)
    BY DEF IInv, TypeOK, OneOwnerPerPage
  <2>2. map \in SUBSET Regions
    BY MapIsRegions DEF IInv
  <2> QED BY <2>1, <2>2, UsablePagesInside
<1> QED BY <1>1, PmmInvariant, PTL

-----------------------------------------------------------------------------
(* Single pages: the hint is the lowest free page, or below it.            *)

\* A search for one page that starts at or below every free page ends at the
\* lowest of them.
LEMMA LowestGranted ==
  ASSUME NEW p \in PmmType, NEW max_phys \in Nat,
         \A q \in Pages \ p.used : q # 0 /\ p.next_hint <= q,
         NEW first \in Nat, alloc_pages_below(p, 1, max_phys).ret = first,
         NEW q \in Pages \ p.used
  PROVE  first <= q
<1> DEFINE b == BoundedPages(p, max_phys)
           start == SearchStart(p, 1, b)
           offsets == FreeOffsets(p, 1, b)
           least == Min(offsets)
<1>1. b \in Nat /\ q \in Nat /\ q # 0
  BY BoundedPagesType, PmmFields, BitmapAssumption DEF Pages
<1> HIDE DEF b
<1>2. ~Hopeless(p, 1, b) /\ offsets # {} /\ first = Slot(p, 1, b, least)
  <2>1. first # None
    BY BitmapAssumption
  <2>2. ~(Hopeless(p, 1, b) \/ offsets = {})
    BY <2>1, Zenon DEF alloc_pages_below, b
  <2>3. alloc_pages_below(p, 1, max_phys).ret = Slot(p, 1, b, least)
    BY <2>2 DEF alloc_pages_below, b
  <2> QED BY <2>2, <2>3
<1>3. b > 1
  BY <1>1, <1>2 DEF Hopeless
<1>4. start \in 1 .. b - 1 /\ start <= q
  BY <1>1, <1>3, PmmFields DEF SearchStart
<1>5. offsets \in SUBSET (0 .. b - 2)
  BY <1>1 DEF FreeOffsets
<1>6. least \in offsets /\ \A offset \in offsets : least <= offset
  BY <1>1, <1>2, <1>5, MinNat
<1>7. first \in 1 .. b - 1
  BY <1>1, <1>2, <1>3, <1>5, <1>6, SlotRange
<1>8. CASE q < b
  <2>1. Slot(p, 1, b, q - start) = q
    <3>1. start - 1 + (q - start) = q - 1 /\ q - 1 \in Nat /\ q - 1 < b - 1
      BY <1>1, <1>4, <1>8
    <3>2. (start - 1 + (q - start)) % (b - 1) = q - 1
      BY <1>1, <1>3, <3>1, ModSmall
    <3> QED BY <1>1, <3>2 DEF Slot
  <2>2. Run(q, 1) \cap p.used = {}
    BY <1>1 DEF Run
  <2>3. q - start \in offsets
    BY <1>1, <1>4, <1>8, <2>1, <2>2 DEF FreeOffsets
  <2>4. least <= q - start /\ least \in Nat
    BY <1>1, <1>5, <1>6, <2>3
  <2> HIDE DEF start, least
  <2>5. start - 1 + least \in Nat /\ start - 1 + least < b - 1
    BY <1>1, <1>4, <1>8, <2>4
  <2>6. (start - 1 + least) % (b - 1) = start - 1 + least
    BY <1>1, <1>3, <2>5, ModSmall
  <2>7. first = start + least
    BY <1>2, <1>4, <2>4, <2>6 DEF Slot, start
  <2> QED BY <1>1, <1>4, <2>4, <2>7
<1>9. CASE q >= b
  BY <1>1, <1>7, <1>9
<1> QED BY <1>1, <1>8, <1>9

LowestFirst ==
  HintIsLowest /\ (reply'.op = "alloc" => reply'.count <= 1) =>
    /\ HintIsLowest'
    /\ reply'.op = "alloc" /\ reply'.ret # None =>
         \A q \in Pages \ pmm.used : reply'.ret <= q

LEMMA BootLowest ==
  ASSUME IInv, NEW entries \in MemoryMaps, Boot(entries)
  PROVE  LowestFirst
<1>1. pmm'.used = Pages \ (UsablePages(entries) \ {0}) /\ pmm'.next_hint = 1
  BY DEF Boot, init
<1>2. HintIsLowest'
  BY <1>1, BitmapAssumption DEF HintIsLowest, Pages
<1>3. reply'.op # "alloc"
  BY DEF Boot
<1> QED BY <1>2, <1>3 DEF LowestFirst

LEMMA AllocLowest ==
  ASSUME IInv, NEW count \in 0 .. MaxCount, NEW max_phys \in Limits,
         Alloc(count, max_phys)
  PROVE  LowestFirst
<1> DEFINE result == alloc_pages_below(pmm, count, max_phys)
<1> SUFFICES ASSUME HintIsLowest, count <= 1
             PROVE  /\ HintIsLowest'
                    /\ result.ret # None => \A q \in Pages \ pmm.used : result.ret <= q
  <2>1. reply'.op = "alloc" /\ reply'.count = count /\ reply'.ret = result.ret
    BY DEF Alloc
  <2> HIDE DEF result
  <2> QED BY <2>1 DEF LowestFirst
<1>1. pmm \in PmmType /\ count \in Nat /\ max_phys \in Nat
  BY BitmapAssumption, PmmAssumption DEF IInv, TypeOK
<1>2. CASE result = [pmm |-> pmm, ret |-> None]
  BY <1>2 DEF Alloc, HintIsLowest
<1>3. CASE \E first \in 1 .. BoundedPages(pmm, max_phys) - count :
             /\ count > 0 /\ pmm.initialized /\ pmm.free_pages >= count
             /\ Run(first, count) \cap pmm.used = {}
             /\ result = Granted(pmm, count, first)
  <2>1. PICK first \in 1 .. BoundedPages(pmm, max_phys) - count :
             /\ count > 0 /\ Run(first, count) \cap pmm.used = {}
             /\ result = Granted(pmm, count, first)
    BY <1>3
  <2>2. count = 1
    BY <1>1, <2>1
  <2>3. first \in Nat /\ Run(first, 1) = {first}
    BY <2>1 DEF Run
  <2>4. result.ret = first
    BY <2>1 DEF Granted
  <2>5. \A q \in Pages \ pmm.used : q # 0 /\ pmm.next_hint <= q
    BY DEF IInv, CounterMatchesBitmap, HintIsLowest
  <2>6. ASSUME NEW q \in Pages \ pmm.used PROVE first <= q
    <3>1. alloc_pages_below(pmm, 1, max_phys).ret = first
      BY <2>2, <2>4
    <3> QED BY <1>1, <2>3, <2>5, <3>1, LowestGranted
  <2>7. pmm'.used = pmm.used \cup {first} /\ pmm'.next_hint = first + 1
    <3>1. pmm' = [pmm EXCEPT !.used = pmm.used \cup Run(first, count),
                             !.free_pages = pmm.free_pages - count,
                             !.next_hint = first + count]
      BY <2>1 DEF Alloc, Granted
    <3> QED BY <1>1, <2>2, <2>3, <3>1 DEF PmmType
  <2>8. HintIsLowest'
    <3> SUFFICES ASSUME NEW q \in Pages \ pmm'.used PROVE pmm'.next_hint <= q
      BY DEF HintIsLowest
    <3>1. q \in Pages \ pmm.used /\ q # first /\ q \in Nat
      BY <2>7, BitmapAssumption DEF Pages
    <3> QED BY <2>3, <2>6, <2>7, <3>1
  <2> QED BY <2>4, <2>6, <2>8
<1> QED BY <1>1, <1>2, <1>3, AllocOutcome

LEMMA FreeLowest ==
  ASSUME IInv, NEW base \in Bases, NEW count \in 0 .. MaxCount, Free(base, count)
  PROVE  LowestFirst
<1> DEFINE F == Freeable(pmm, base, count)
           h == Min({pmm.next_hint} \cup F)
<1> SUFFICES ASSUME HintIsLowest PROVE HintIsLowest'
  BY DEF LowestFirst, Free
<1>1. pmm \in PmmType /\ base \in Nat /\ count \in Nat
  BY BitmapAssumption, PmmAssumption DEF IInv, TypeOK
<1>2. F \in SUBSET pmm.used /\ pmm.used \in SUBSET Pages /\ pmm.next_hint \in Nat
  BY <1>1, FreeableType, PmmFields, BitmapAssumption
<1>3. pmm'.used = pmm.used \ F /\ pmm'.next_hint = h
  BY <1>1 DEF Free, free_pages_range, PmmType
<1> HIDE DEF F
<1>4. h \in Nat /\ \A y \in {pmm.next_hint} \cup F : h <= y
  <2>1. {pmm.next_hint} \cup F \in SUBSET Nat
    BY <1>2, BitmapAssumption DEF Pages
  <2> QED BY <2>1, MinNat
<1> HIDE DEF h
<1> SUFFICES ASSUME NEW q \in Pages \ pmm'.used PROVE h <= q
  BY <1>3 DEF HintIsLowest
<1>5. q \in F \/ pmm.next_hint <= q
  BY <1>3 DEF HintIsLowest
<1> QED BY <1>2, <1>4, <1>5, BitmapAssumption DEF Pages

LEMMA ReserveLowest ==
  ASSUME IInv, NEW base \in Bases, NEW length \in Lengths, Reserve(base, length)
  PROVE  LowestFirst
<1>1. pmm \in PmmType
  BY DEF IInv, TypeOK
<1>2. pmm.used \subseteq pmm'.used /\ pmm'.next_hint = pmm.next_hint
  BY <1>1 DEF Reserve, reserve, PmmType
<1>3. reply'.op # "alloc"
  BY DEF Reserve
<1> QED BY <1>2, <1>3 DEF LowestFirst, HintIsLowest

\* Between single-page requests the hint stays at or below every free page, and
\* such a request is answered with the lowest free page.
THEOREM PmmLowestFirst == Spec => SinglePagesLowestFirst
<1>1. IInv /\ [Next]_vars => [LowestFirst]_vars
  <2> SUFFICES ASSUME IInv, Next PROVE LowestFirst
    OBVIOUS
  <2> QED BY BootLowest, AllocLowest, FreeLowest, ReserveLowest DEF Next
<1>2. Spec => [][LowestFirst]_vars
  BY <1>1, PmmInvariant, PTL DEF Spec
<1> QED BY <1>2 DEF SinglePagesLowestFirst, LowestFirst

-----------------------------------------------------------------------------
(* The refinement.  A step of the bitmap allocator is a step of the        *)
(* abstract one with free <- the clear bits.                               *)

\* A page that begins below a page address ends there at the latest.
LEMMA PageBelowLimit ==
  ASSUME NEW f \in Nat, NEW limit \in Nat, NEW size \in Nat \ {0}, limit % size = 0
  PROVE  f * size < limit <=> (f + 1) * size <= limit
<1> DEFINE k == limit \div size
<1>1. k \in Nat /\ limit = k * size
  OBVIOUS
<1> HIDE DEF k
<1>2. f * size < k * size <=> f < k
  BY <1>1
<1>3. (f + 1) * size <= k * size <=> f + 1 <= k
  BY <1>1
<1> QED BY <1>1, <1>2, <1>3

\* A page number below the rounded-up limit is the number of a page that lies
\* below the limit, and the other way round.
LEMMA BoundIsLimit ==
  ASSUME NEW p \in PmmType, NEW max_phys \in Limits, NEW f \in Pages
  PROVE  f < BoundedPages(p, max_phys)
           <=> f < p.tracked_pages /\ f \in Frames!Below(max_phys)
<1>1. /\ PAGE_SIZE \in Nat \ {0} /\ MAX_PAGES \in Nat /\ U64_MAX \in Nat
      /\ MAX_PAGES * PAGE_SIZE + PAGE_SIZE < U64_MAX
  BY BitmapAssumption
<1>2. f \in Nat /\ f < MAX_PAGES /\ p.tracked_pages \in Nat /\ max_phys \in Nat
      /\ max_phys <= U64_MAX /\ (max_phys = U64_MAX \/ max_phys % PAGE_SIZE = 0)
  BY <1>1, PmmFields, PmmAssumption DEF Pages
<1>3. f \in Frames!Below(max_phys) <=> max_phys = U64_MAX \/ f * PAGE_SIZE < max_phys
  <2>1. f \in Frames!Below(max_phys)
          <=> max_phys = U64_MAX \/ (f + 1) * PAGE_SIZE <= max_phys
    BY DEF Frames!Below, Frames!Frames, Pages
  <2>2. max_phys # U64_MAX =>
          (f * PAGE_SIZE < max_phys <=> (f + 1) * PAGE_SIZE <= max_phys)
    BY <1>1, <1>2, PageBelowLimit, Zenon
  <2> QED BY <2>1, <2>2
<1>4. CASE max_phys = U64_MAX
  <2>1. BoundedPages(p, max_phys) = Min({p.tracked_pages, p.tracked_pages})
    BY <1>4 DEF BoundedPages
  <2>2. Min({p.tracked_pages, p.tracked_pages}) = p.tracked_pages
    BY <1>2, MinPair
  <2> QED BY <1>3, <1>4, <2>1, <2>2
<1>5. CASE max_phys # U64_MAX
  <2> DEFINE m == saturating_add(max_phys, PAGE_SIZE - 1) \div PAGE_SIZE
  <2>1. m \in Nat
    BY <1>1, <1>2 DEF saturating_add
  <2>2. BoundedPages(p, max_phys) = Min({p.tracked_pages, m})
    BY <1>5 DEF BoundedPages
  <2>3. f < m <=> f * PAGE_SIZE < max_phys
    <3>1. CASE max_phys + (PAGE_SIZE - 1) <= U64_MAX
      <4>1. m = (max_phys + PAGE_SIZE - 1) \div PAGE_SIZE
        <5>1. saturating_add(max_phys, PAGE_SIZE - 1) = max_phys + PAGE_SIZE - 1
          BY <1>1, <1>2, <3>1 DEF saturating_add
        <5> QED BY <5>1
      <4> QED BY <1>2, <4>1, RoundUp
    <3>2. CASE max_phys + (PAGE_SIZE - 1) > U64_MAX
      <4>1. f * PAGE_SIZE < max_phys
        <5>1. f * PAGE_SIZE <= MAX_PAGES * PAGE_SIZE
          BY <1>1, <1>2
        <5>2. f * PAGE_SIZE \in Nat /\ MAX_PAGES * PAGE_SIZE \in Nat
          BY <1>1, <1>2
        <5> QED BY <1>1, <1>2, <3>2, <5>1, <5>2
      <4>2. f < m
        <5> DEFINE P == PAGE_SIZE  q == U64_MAX \div P
        <5>1. m = q
          BY <1>1, <1>2, <3>2 DEF saturating_add
        <5>2. q \in Nat /\ U64_MAX < P * q + P
          BY <1>1
        <5>3. MAX_PAGES * P < P * q
          <6>1. MAX_PAGES * P \in Nat /\ P * q \in Nat
            BY <1>1, <5>2
          <6> HIDE DEF q
          <6> QED BY <1>1, <5>2, <6>1
        <5> HIDE DEF q
        <5>4. MAX_PAGES < q
          BY <1>1, <5>2, <5>3
        <5> QED BY <1>1, <1>2, <5>1, <5>2, <5>4
      <4> QED BY <4>1, <4>2
    <3> QED BY <1>1, <1>2, <3>1, <3>2
  <2> HIDE DEF m
  <2>4. Min({p.tracked_pages, m}) =
          IF p.tracked_pages <= m THEN p.tracked_pages ELSE m
    BY <1>2, <2>1, MinPair
  <2> QED BY <1>2, <1>3, <1>5, <2>1, <2>2, <2>3, <2>4
<1> QED BY <1>4, <1>5

\* A refused request could not have been granted: alloc_pages_below answers None
\* only when no run of count free pages lies below the limit.
LEMMA RefusalIsJustified ==
  ASSUME IInv, NEW count \in Nat, count > 0, NEW max_phys \in Limits,
         alloc_pages_below(pmm, count, max_phys).ret = None
  PROVE  Frames!Grantable(count, max_phys) = {}
<1> SUFFICES ASSUME NEW first \in Frames!Grantable(count, max_phys) PROVE FALSE
  OBVIOUS
<1> DEFINE free == Pages \ pmm.used
           b == BoundedPages(pmm, max_phys)
           last == first + count - 1
<1>1. pmm \in PmmType /\ max_phys \in Nat
  BY BitmapAssumption, PmmAssumption DEF IInv, TypeOK
<1>2. /\ pmm.tracked_pages \in Nat /\ pmm.free_pages \in Nat /\ MAX_PAGES \in Nat
      /\ pmm.initialized \in BOOLEAN
  BY <1>1, PmmFields, BitmapAssumption
<1>3. first \in Nat /\ Run(first, count) \subseteq free \cap Frames!Below(max_phys)
  BY <1>2 DEF Frames!Grantable, Frames!Frames, Frames!Run, Run
<1>4. first \in Run(first, count) /\ last \in Run(first, count)
  BY <1>3 DEF Run
<1>5. first # 0 /\ last \in Pages /\ last < pmm.tracked_pages
  BY <1>3, <1>4 DEF IInv, CounterMatchesBitmap
<1>6. pmm.initialized
  <2>1. free # {}
    BY <1>3, <1>4
  <2> QED BY <1>2, <2>1 DEF IInv, Unbooted
<1>7. last < b
  BY <1>1, <1>3, <1>4, <1>5, BoundIsLimit
<1>8. b \in Nat /\ b <= pmm.tracked_pages
  BY <1>1, <1>2, BoundedPagesType
<1> HIDE DEF b
<1>9. first \in 1 .. b - count
  BY <1>3, <1>5, <1>7, <1>8
<1>10. count <= pmm.free_pages
  <2>1. Run(first, count) \in SUBSET free /\ IsFiniteSet(free)
    BY <1>3, PagesFinite, FS_Difference, Zenon
  <2>2. Cardinality(Run(first, count)) <= Cardinality(free)
    BY <2>1, FS_Subset
  <2>3. Cardinality(Run(first, count)) = count
    BY <1>1, <1>9, RunPages DEF b
  <2>4. pmm.free_pages = Cardinality(free)
    BY DEF IInv, CounterMatchesBitmap
  <2> QED BY <2>2, <2>3, <2>4
<1>11. ~Hopeless(pmm, count, b)
  BY <1>2, <1>3, <1>6, <1>8, <1>9, <1>10 DEF Hopeless
<1>12. FreeOffsets(pmm, count, b) # {}
  <2>1. PICK offset \in 0 .. b - count - 1 : Slot(pmm, count, b, offset) = first
    BY <1>1, <1>8, <1>9, SlotsComplete
  <2>2. Run(first, count) \cap pmm.used = {}
    BY <1>3
  <2> QED BY <2>1, <2>2 DEF FreeOffsets
<1>13. alloc_pages_below(pmm, count, max_phys).ret
         = Slot(pmm, count, b, Min(FreeOffsets(pmm, count, b)))
  BY <1>11, <1>12 DEF alloc_pages_below, b
<1>14. Slot(pmm, count, b, Min(FreeOffsets(pmm, count, b))) \in Nat
  <2>1. FreeOffsets(pmm, count, b) \in SUBSET Nat
    BY <1>8 DEF FreeOffsets
  <2>2. Min(FreeOffsets(pmm, count, b)) \in Nat
    BY <1>12, <2>1, MinNat
  <2>3. b > count
    BY <1>8, <1>9
  <2> QED BY <1>1, <1>8, <2>2, <2>3, SlotRange
<1> QED BY <1>13, <1>14, BitmapAssumption

LEMMA InitRefines == Init => Frames!Init
BY DEF Init, NewPmm, Frames!Init

LEMMA BootRefines ==
  ASSUME IInv, NEW entries \in MemoryMaps, Boot(entries)
  PROVE  Frames!Boot
<1>1. entries \in SUBSET Regions
  BY PmmAssumption DEF Regions
<1>2. UsablePages(entries) \in SUBSET Pages
  BY <1>1, TrackedPagesType, UsablePagesType, BitmapAssumption DEF Pages
<1>3. pmm.used = Pages /\ held = {}
  BY DEF Boot, IInv, Unbooted, TypeOK, PmmType
<1>4. pmm'.used = Pages \ (UsablePages(entries) \ {0})
  BY DEF Boot, init
<1>5. (Pages \ pmm'.used) \in SUBSET (Pages \ {0})
  BY <1>2, <1>4
<1> QED BY <1>3, <1>5 DEF Boot, Frames!Boot, Frames!Frames, Pages

LEMMA AllocRefines ==
  ASSUME IInv, NEW count \in 0 .. MaxCount, NEW max_phys \in Limits,
         Alloc(count, max_phys)
  PROVE  Frames!Grant(count, max_phys) \/ Frames!Refuse(count, max_phys)
<1> DEFINE result == alloc_pages_below(pmm, count, max_phys)
<1>1. /\ pmm \in PmmType /\ count \in Nat
      /\ max_phys \in Nat /\ max_phys \in 0 .. U64_MAX
  BY BitmapAssumption, PmmAssumption DEF IInv, TypeOK
<1>2. CASE result = [pmm |-> pmm, ret |-> None]
  <2>1. pmm' = pmm /\ held' = held
    BY <1>2 DEF Alloc
  <2>2. reply' = [op |-> "alloc", count |-> count, limit |-> max_phys, ret |-> None]
    BY <1>2 DEF Alloc
  <2>3. count = 0 \/ Frames!Grantable(count, max_phys) = {}
    BY <1>1, <1>2, RefusalIsJustified
  <2> QED BY <2>1, <2>2, <2>3 DEF Frames!Refuse
<1>3. CASE \E first \in 1 .. BoundedPages(pmm, max_phys) - count :
             /\ count > 0 /\ pmm.initialized /\ pmm.free_pages >= count
             /\ Run(first, count) \cap pmm.used = {}
             /\ result = Granted(pmm, count, first)
  <2>1. PICK first \in 1 .. BoundedPages(pmm, max_phys) - count :
             /\ count > 0 /\ pmm.initialized /\ pmm.free_pages >= count
             /\ Run(first, count) \cap pmm.used = {}
             /\ result = Granted(pmm, count, first)
    BY <1>3
  <2>2. Run(first, count) \in SUBSET Pages /\ first \in Pages
    BY <1>1, <2>1, RunPages
  <2>3. result.ret = first /\ result.pmm.used = pmm.used \cup Run(first, count)
    <3>1. /\ result.ret = first
          /\ result.pmm = [pmm EXCEPT !.used = pmm.used \cup Run(first, count),
                                     !.free_pages = pmm.free_pages - count,
                                     !.next_hint = first + count]
      BY <2>1 DEF Granted
    <3> QED BY <1>1, <3>1 DEF PmmType
  <2>4. first # None
    BY <2>2, BitmapAssumption DEF Pages
  <2>5. /\ reply' = [op |-> "alloc", count |-> count, limit |-> max_phys,
                     ret |-> first]
        /\ held' = held \cup Run(first, count)
        /\ pmm'.used = pmm.used \cup Run(first, count)
    BY <2>3, <2>4 DEF Alloc
  <2>6. Run(first, count) \subseteq Frames!Below(max_phys)
    <3> SUFFICES ASSUME NEW f \in Run(first, count) PROVE f \in Frames!Below(max_phys)
      OBVIOUS
    <3>1. BoundedPages(pmm, max_phys) \in Nat
      BY <1>1, BoundedPagesType, PmmFields, BitmapAssumption
    <3>2. f < BoundedPages(pmm, max_phys) /\ f \in Pages
      BY <1>1, <2>2, <3>1 DEF Run
    <3> QED BY <1>1, <3>2, BoundIsLimit
  <2>7. first \in Frames!Grantable(count, max_phys)
    BY <2>1, <2>2, <2>6 DEF Frames!Grantable, Frames!Frames, Frames!Run, Run, Pages
  <2>8. (Pages \ pmm.used) \ Run(first, count) = Pages \ pmm'.used
    BY <2>5
  <2> QED BY <2>1, <2>2, <2>5, <2>7, <2>8
          DEF Frames!Grant, Frames!Frames, Frames!Run, Run, Pages
<1> QED BY <1>1, <1>2, <1>3, AllocOutcome

LEMMA FreeRefines ==
  ASSUME IInv, NEW base \in Bases, NEW count \in 0 .. MaxCount, Free(base, count)
  PROVE  Frames!GiveBack
<1> DEFINE F == Freeable(pmm, base, count)
<1>1. pmm \in PmmType /\ base \in Nat /\ count \in Nat
  BY BitmapAssumption, PmmAssumption DEF IInv, TypeOK
<1>2. F \in SUBSET pmm.used /\ pmm.used \in SUBSET Pages
  BY <1>1, FreeableType, PmmFields
<1>3. F \subseteq held /\ held' = held \ F /\ reply' = [op |-> "free", freed |-> F]
  BY DEF Free
<1>4. pmm'.used = pmm.used \ F
  BY <1>1 DEF Free, free_pages_range, PmmType
<1> HIDE DEF F
<1>5. held \ held' = F /\ held' \in SUBSET held
  BY <1>3
<1>6. Pages \ pmm'.used = (Pages \ pmm.used) \cup F
  BY <1>2, <1>4
<1> QED BY <1>3, <1>5, <1>6 DEF Frames!GiveBack

LEMMA ReserveRefines ==
  ASSUME IInv, NEW base \in Bases, NEW length \in Lengths, Reserve(base, length)
  PROVE  Frames!Withdraw
<1>1. pmm'.used = pmm.used \cup ReservedPages(pmm, base, length)
  BY DEF Reserve, reserve, IInv, TypeOK, PmmType
<1> QED BY <1>1 DEF Reserve, Frames!Withdraw

\* The bitmap allocator implements the abstract frame allocator: requests are
\* granted exactly when a suitable run is free.
THEOREM PmmRefinement == Spec => ImplementsFrameAllocator
<1>1. IInv /\ [Next]_vars => [Frames!Next]_(Frames!vars)
  <2> SUFFICES ASSUME IInv, [Next]_vars PROVE [Frames!Next]_(Frames!vars)
    OBVIOUS
  <2>1. CASE \E entries \in MemoryMaps : Boot(entries)
    BY <2>1, BootRefines DEF Frames!Next
  <2>2. CASE \E count \in 0 .. MaxCount, max_phys \in Limits : Alloc(count, max_phys)
    <3>1. PICK count \in 0 .. MaxCount, max_phys \in Limits : Alloc(count, max_phys)
      BY <2>2
    <3>2. Frames!Grant(count, max_phys) \/ Frames!Refuse(count, max_phys)
      BY <3>1, AllocRefines
    <3> QED BY <3>2, Zenon DEF Frames!Next
  <2>3. CASE \E base \in Bases, count \in 0 .. MaxCount : Free(base, count)
    BY <2>3, FreeRefines DEF Frames!Next
  <2>4. CASE \E base \in Bases, length \in Lengths : Reserve(base, length)
    BY <2>4, ReserveRefines DEF Frames!Next
  <2>5. CASE UNCHANGED vars
    BY <2>5 DEF vars, Frames!vars
  <2> QED BY <2>1, <2>2, <2>3, <2>4, <2>5 DEF Next
<1> QED BY <1>1, InitRefines, PmmInvariant, PTL DEF Spec, ImplementsFrameAllocator, Frames!Spec
=============================================================================
