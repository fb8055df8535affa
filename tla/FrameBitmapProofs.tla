-------------------------- MODULE FrameBitmapProofs --------------------------
(***************************************************************************)
(* What the functions of the physical memory manager compute, for every    *)
(* page size, bitmap size and memory map: the facts on which the proofs    *)
(* about the manager itself and about its clients rest.                    *)
(***************************************************************************)
EXTENDS FrameBitmap, TLAPS, FiniteSetTheorems, WellFoundedInduction

\* More time than the default for each leaf.
USE SMTT(20), ZenonT(20)

-----------------------------------------------------------------------------
(* Least and greatest elements.                                            *)

\* A nonempty set of naturals has a least element, and Min names it.
LEMMA MinNat ==
  ASSUME NEW S \in SUBSET Nat, S # {}
  PROVE  Min(S) \in S /\ \A y \in S : Min(S) <= y
<1> DEFINE R == {ss \in Nat \X Nat : ss[1] < ss[2]}
<1>1. IsWellFoundedOn(R, Nat)
  BY NatLessThanWellFounded, Zenon DEF OpToRel
<1> HIDE DEF R
<1>2. PICK x \in S : \A y \in S : ~(<<y, x>> \in R)
  BY <1>1, WFMin, Zenon
<1>3. ASSUME NEW y \in S PROVE x <= y
  <2>1. ~(<<y, x>> \in R)
    BY <1>2
  <2> QED BY <2>1 DEF R
<1> QED BY <1>3, Zenon DEF Min

\* A nonempty bounded set of naturals has a greatest element, and Max names it.
LEMMA MaxNat ==
  ASSUME NEW n \in Nat, NEW S \in SUBSET (0 .. n), S # {}
  PROVE  Max(S) \in S /\ \A y \in S : Max(S) >= y
<1> DEFINE D == {n - y : y \in S}
<1>1. D \in SUBSET Nat
  OBVIOUS
<1>2. D # {}
  BY Zenon
<1>3. Min(D) \in D /\ \A d \in D : Min(D) <= d
  BY <1>1, <1>2, MinNat, Zenon
<1>4. PICK x \in S : Min(D) = n - x
  BY <1>3, Zenon
<1>5. ASSUME NEW y \in S PROVE x >= y
  <2>1. n - y \in D
    OBVIOUS
  <2>2. Min(D) <= n - y
    BY <1>3, <2>1
  <2>3. x \in 0 .. n /\ y \in 0 .. n
    OBVIOUS
  <2>4. n - x <= n - y
    BY <1>4, <2>2
  <2> QED BY <2>3, <2>4
<1> QED BY <1>5, Zenon DEF Max

LEMMA MinPair ==
  ASSUME NEW a \in Int, NEW b \in Int
  PROVE  Min({a, b}) = IF a <= b THEN a ELSE b
BY DEF Min

LEMMA ModSmall ==
  ASSUME NEW a \in Nat, NEW s \in Nat, a < s
  PROVE  a % s = a
OBVIOUS

LEMMA ModWrap ==
  ASSUME NEW a \in Nat, NEW s \in Nat, a < s
  PROVE  (a + s) % s = a
OBVIOUS

LEMMA ModRange ==
  ASSUME NEW a \in Nat, NEW s \in Nat \ {0}
  PROVE  a % s \in 0 .. s - 1
OBVIOUS

\* The page at which rounding up ends: f starts below limit iff f < limit rounded up.
LEMMA RoundUp ==
  ASSUME NEW f \in Nat, NEW limit \in Nat
  PROVE  f * PAGE_SIZE < limit <=> f < (limit + PAGE_SIZE - 1) \div PAGE_SIZE
<1> DEFINE P == PAGE_SIZE  q == (limit + P - 1) \div P
<1>1. P \in Nat \ {0}
  BY BitmapAssumption
<1> HIDE DEF P
<1>2. q \in Nat /\ P * q <= limit + P - 1 /\ limit + P - 1 < P * q + P
  BY <1>1
<1> HIDE DEF q
<1>3. CASE f < q
  <2>1. P * (f + 1) <= P * q
    BY <1>1, <1>2, <1>3
  <2> QED BY <1>1, <1>2, <1>3, <2>1 DEF P, q
<1>4. CASE f >= q
  <2>1. P * q <= P * f
    BY <1>1, <1>2, <1>4
  <2> QED BY <1>1, <1>2, <1>4, <2>1 DEF P, q
<1> QED BY <1>2, <1>3, <1>4

-----------------------------------------------------------------------------
(* The search of alloc_pages_below.                                        *)

LEMMA BoundedPagesType ==
  ASSUME NEW p \in PmmType, NEW max_phys \in Nat
  PROVE  BoundedPages(p, max_phys) \in 0 .. p.tracked_pages
<1> DEFINE m == IF max_phys = U64_MAX THEN p.tracked_pages
                ELSE saturating_add(max_phys, PAGE_SIZE - 1) \div PAGE_SIZE
<1>1. saturating_add(max_phys, PAGE_SIZE - 1) \in Nat
  BY BitmapAssumption DEF saturating_add
<1>2. m \in Nat
  BY <1>1, BitmapAssumption DEF PmmType
<1> HIDE DEF m
<1>3. Min({p.tracked_pages, m}) \in 0 .. p.tracked_pages
  BY <1>2, MinPair DEF PmmType
<1> QED BY <1>3 DEF BoundedPages, m

\* Every slot of the search is a run inside the bound that leaves out page 0.
LEMMA SlotRange ==
  ASSUME NEW p \in PmmType, NEW count \in Nat, NEW bounded \in Nat,
         bounded > count, NEW offset \in Nat
  PROVE  Slot(p, count, bounded, offset) \in 1 .. bounded - count
<1>1. SearchStart(p, count, bounded) \in 1 .. bounded - count
  BY DEF SearchStart, PmmType
<1>2. SearchStart(p, count, bounded) - 1 + offset \in Nat
  BY <1>1
<1>3. bounded - count \in Nat \ {0}
  OBVIOUS
<1>4. (SearchStart(p, count, bounded) - 1 + offset) % (bounded - count)
        \in 0 .. (bounded - count) - 1
  BY <1>2, <1>3, ModRange, Zenon
<1> QED BY <1>3, <1>4 DEF Slot

\* The search misses no slot: it wraps round exactly once.
LEMMA SlotsComplete ==
  ASSUME NEW p \in PmmType, NEW count \in Nat, NEW bounded \in Nat,
         NEW first \in 1 .. bounded - count
  PROVE  \E offset \in 0 .. bounded - count - 1 :
           Slot(p, count, bounded, offset) = first
<1> DEFINE s == bounded - count
           start == SearchStart(p, count, bounded)
<1>1. start \in 1 .. s /\ s \in Nat
  BY DEF SearchStart, PmmType
<1> HIDE DEF start
<1>2. CASE first >= start
  <2>1. first - start \in 0 .. s - 1
    BY <1>1, <1>2
  <2>2. (start - 1 + (first - start)) % s = first - 1
    <3>1. start - 1 + (first - start) = first - 1
      BY <1>1
    <3> QED BY <1>1, <3>1, ModSmall
  <2>3. Slot(p, count, bounded, first - start) = first
    BY <2>2 DEF Slot, start
  <2> QED BY <2>1, <2>3
<1>3. CASE first < start
  <2>1. first - start + s \in 0 .. s - 1
    BY <1>1, <1>3
  <2>2. (start - 1 + (first - start + s)) % s = first - 1
    <3>1. start - 1 + (first - start + s) = (first - 1) + s
      BY <1>1
    <3> QED BY <1>1, <3>1, ModWrap
  <2>3. Slot(p, count, bounded, first - start + s) = first
    BY <2>2 DEF Slot, start
  <2> QED BY <2>1, <2>3
<1> QED BY <1>1, <1>2, <1>3

Granted(p, count, first) ==
  [pmm |-> [p EXCEPT !.used = @ \cup Run(first, count),
                     !.free_pages = @ - count,
                     !.next_hint = first + count],
   ret |-> first]

\* alloc_pages_below either answers None and changes nothing, or takes a run
\* that was free and lies below the bound.
LEMMA AllocOutcome ==
  ASSUME NEW p \in PmmType, NEW count \in Nat, NEW max_phys \in Nat
  PROVE  \/ alloc_pages_below(p, count, max_phys) = [pmm |-> p, ret |-> None]
         \/ \E first \in 1 .. BoundedPages(p, max_phys) - count :
              /\ count > 0 /\ p.initialized /\ p.free_pages >= count
              /\ Run(first, count) \cap p.used = {}
              /\ alloc_pages_below(p, count, max_phys) = Granted(p, count, first)
<1> DEFINE b == BoundedPages(p, max_phys)
           offsets == FreeOffsets(p, count, b)
           first == Slot(p, count, b, Min(offsets))
<1>1. b \in 0 .. p.tracked_pages
  BY BoundedPagesType
<1>2. b \in Nat
  BY <1>1 DEF PmmType
<1> HIDE DEF b
<1>3. CASE Hopeless(p, count, b) \/ offsets = {}
  BY <1>3, Zenon DEF alloc_pages_below, b
<1>4. CASE ~Hopeless(p, count, b) /\ offsets # {}
  <2>1. count > 0 /\ p.initialized /\ p.free_pages >= count /\ b > count
    BY <1>2, <1>4 DEF Hopeless, PmmType
  <2>2. offsets \in SUBSET Nat
    BY <1>2, <2>1 DEF FreeOffsets
  <2>3. Min(offsets) \in offsets
    BY <1>4, <2>2, MinNat
  <2>4. first \in 1 .. b - count
    BY <1>2, <2>1, <2>2, <2>3, SlotRange
  <2>5. Run(first, count) \cap p.used = {}
    BY <2>3, Zenon DEF FreeOffsets
  <2>6. alloc_pages_below(p, count, max_phys) = Granted(p, count, first)
    BY <1>4, Zenon DEF alloc_pages_below, Granted, b
  <2> HIDE DEF first
  <2> QED BY <2>1, <2>4, <2>5, <2>6 DEF b
<1> QED BY <1>3, <1>4

-----------------------------------------------------------------------------
(* What init, free_page and reserve compute.                               *)

Regions ==
  [base : 0 .. U64_MAX - PAGE_SIZE, length : 0 .. U64_MAX, usable : BOOLEAN]

LEMMA TrackedPagesType ==
  ASSUME NEW entries \in SUBSET Regions
  PROVE  TrackedPages(entries) \in 0 .. MAX_PAGES
<1> DEFINE ends == {0} \cup {RegionEnd(r) : r \in entries}
           highest == Max(ends)
<1>1. \A r \in entries : RegionEnd(r) \in 0 .. U64_MAX
  BY BitmapAssumption DEF Regions, RegionEnd, saturating_add
<1>2. ends \in SUBSET (0 .. U64_MAX) /\ ends # {}
  BY <1>1, BitmapAssumption
<1> HIDE DEF ends
<1>3. highest \in Nat
  <2>1. U64_MAX \in Nat
    BY BitmapAssumption
  <2>2. highest \in ends
    BY <1>2, <2>1, MaxNat, Zenon
  <2>3. highest \in 0 .. U64_MAX
    BY <1>2, <2>2, Zenon
  <2> QED BY <2>1, <2>3
<1> HIDE DEF highest
<1>4. (highest + PAGE_SIZE - 1) % (U64_MAX + 1) \in Nat
  BY <1>3, ModRange, BitmapAssumption
<1>5. PageUp(highest) \in Nat
  BY <1>4, BitmapAssumption DEF PageUp
<1>6. Min({PageUp(highest), MAX_PAGES}) \in 0 .. MAX_PAGES
  BY <1>5, MinPair, BitmapAssumption
<1> QED BY <1>6 DEF TrackedPages, highest, ends

LEMMA UsablePagesType ==
  ASSUME NEW entries \in SUBSET Regions
  PROVE  UsablePages(entries) \in SUBSET (0 .. TrackedPages(entries) - 1)
BY DEF UsablePages

LEMMA PagesFinite == IsFiniteSet(Pages)
BY FS_Interval, BitmapAssumption DEF Pages

\* Before init the memory map is empty, and so is the set of usable pages.
LEMMA NoMapNoPages == UsablePages({}) = {}
BY DEF UsablePages

\* Pages of a usable region lie wholly inside it.
LEMMA UsablePagesInside ==
  ASSUME NEW entries \in SUBSET Regions, NEW p \in UsablePages(entries)
  PROVE  \E r \in entries :
           /\ r.usable
           /\ r.base <= p * PAGE_SIZE
           /\ (p + 1) * PAGE_SIZE <= r.base + r.length
<1>1. p \in Nat
  BY TrackedPagesType, UsablePagesType, BitmapAssumption
<1>2. PICK r \in entries :
        r.usable /\ PageUp(r.base) <= p /\ p < PageDown(RegionEnd(r))
  BY DEF UsablePages
<1>3. r.base \in 0 .. U64_MAX - PAGE_SIZE /\ r.length \in 0 .. U64_MAX
  BY DEF Regions
<1>4. r.base <= p * PAGE_SIZE
  <2>1. PageUp(r.base) = (r.base + PAGE_SIZE - 1) \div PAGE_SIZE
    <3>1. r.base + PAGE_SIZE - 1 \in Nat /\ r.base + PAGE_SIZE - 1 < U64_MAX + 1
      BY <1>3, BitmapAssumption
    <3>2. (r.base + PAGE_SIZE - 1) % (U64_MAX + 1) = r.base + PAGE_SIZE - 1
      BY <3>1, ModSmall, BitmapAssumption
    <3> QED BY <3>2 DEF PageUp
  <2>2. (r.base + PAGE_SIZE - 1) \div PAGE_SIZE \in Nat
    BY <1>3, BitmapAssumption
  <2>3. ~(p * PAGE_SIZE < r.base)
    BY <1>1, <1>2, <1>3, <2>1, <2>2, RoundUp
  <2> QED BY <1>1, <1>3, <2>3, BitmapAssumption
<1>5. (p + 1) * PAGE_SIZE <= r.base + r.length
  <2> DEFINE e == RegionEnd(r)
             q == e \div PAGE_SIZE
  <2>1. e \in Nat /\ e <= r.base + r.length
    BY <1>3, BitmapAssumption DEF RegionEnd, saturating_add
  <2> HIDE DEF e
  <2>2. q \in Nat /\ PAGE_SIZE * q <= e
    BY <2>1, BitmapAssumption
  <2>3. p + 1 <= q
    BY <1>1, <1>2, <2>2 DEF PageDown, e
  <2> HIDE DEF q
  <2>4. (p + 1) * PAGE_SIZE <= PAGE_SIZE * q
    BY <1>1, <2>2, <2>3, BitmapAssumption
  <2> QED BY <1>1, <1>3, <2>1, <2>2, <2>4, BitmapAssumption
<1> QED BY <1>2, <1>4, <1>5

LEMMA FreeableType ==
  ASSUME NEW p \in PmmType, NEW base \in Nat, NEW count \in Nat
  PROVE  /\ Freeable(p, base, count) \in SUBSET p.used
         /\ \A q \in Freeable(p, base, count) : q # 0 /\ q < p.tracked_pages
BY DEF Freeable, PmmType

LEMMA ReservedPagesType ==
  ASSUME NEW p \in PmmType, NEW base \in Nat, NEW length \in Nat
  PROVE  ReservedPages(p, base, length) \in SUBSET (Pages \ p.used)
<1>1. PageDown(base) \in Nat
  BY BitmapAssumption DEF PageDown
<1>2. saturating_add(base, length) \in Nat
  BY BitmapAssumption DEF saturating_add
<1>3. PageUp(saturating_add(base, length)) \in Nat
  <2>1. (saturating_add(base, length) + PAGE_SIZE - 1) % (U64_MAX + 1) \in Nat
    BY <1>2, ModRange, BitmapAssumption
  <2> QED BY <2>1, BitmapAssumption DEF PageUp
<1> QED BY <1>1, <1>3, BitmapAssumption DEF ReservedPages, PmmType, Pages

LEMMA PmmFields ==
  ASSUME NEW p \in PmmType
  PROVE  /\ p.used \in SUBSET Pages /\ p.tracked_pages \in 0 .. MAX_PAGES
         /\ p.free_pages \in Nat /\ p.next_hint \in 0 .. MAX_PAGES
         /\ p.initialized \in BOOLEAN
BY DEF PmmType

\* A granted run: where it lies and how many pages it has.
LEMMA RunPages ==
  ASSUME NEW p \in PmmType, NEW count \in Nat, count > 0, NEW max_phys \in Nat,
         NEW first \in 1 .. BoundedPages(p, max_phys) - count
  PROVE  /\ Run(first, count) \in SUBSET Pages
         /\ first + count \in 0 .. MAX_PAGES
         /\ first \in Pages
         /\ IsFiniteSet(Run(first, count))
         /\ Cardinality(Run(first, count)) = count
<1>1. BoundedPages(p, max_phys) \in 0 .. MAX_PAGES
  BY BoundedPagesType, BitmapAssumption DEF PmmType
<1>2. first \in Nat /\ first + count <= MAX_PAGES /\ MAX_PAGES \in Nat
  BY <1>1, BitmapAssumption
<1>3. Run(first, count) \in SUBSET Pages
  BY <1>2 DEF Run, Pages
<1>4. /\ IsFiniteSet(Run(first, count))
      /\ Cardinality(Run(first, count)) = count
  <2>1. first + count - 1 \in Int /\ ~(first > first + count - 1)
    BY <1>2
  <2>2. (first + count - 1) - first + 1 = count
    BY <1>2
  <2> QED BY <1>2, <2>1, <2>2, FS_Interval DEF Run
<1> QED BY <1>2, <1>3, <1>4 DEF Pages

-----------------------------------------------------------------------------
(* The records that init, alloc_pages_below and free_pages_range return.   *)

LEMMA InitEffect ==
  ASSUME NEW entries \in SUBSET Regions
  PROVE  /\ init(entries) \in PmmType
         /\ init(entries).used = Pages \ (UsablePages(entries) \ {0})
         /\ init(entries).tracked_pages = TrackedPages(entries)
         /\ init(entries).free_pages = Cardinality(UsablePages(entries) \ {0})
         /\ init(entries).next_hint = 1
         /\ init(entries).initialized = TRUE
         /\ UsablePages(entries) \in SUBSET Pages
<1> DEFINE usable == UsablePages(entries)
           tracked == TrackedPages(entries)
           free == Cardinality(usable) - (IF 0 \in usable THEN 1 ELSE 0)
<1>1. tracked \in 0 .. MAX_PAGES /\ usable \in SUBSET (0 .. tracked - 1)
  BY TrackedPagesType, UsablePagesType
<1>2. init(entries) = [used |-> Pages \ (usable \ {0}), tracked_pages |-> tracked,
                       free_pages |-> free, next_hint |-> 1, initialized |-> TRUE]
  BY DEF init
<1> HIDE DEF usable, tracked
<1>3. usable \in SUBSET Pages
  BY <1>1, BitmapAssumption DEF Pages
<1>4. free = Cardinality(usable \ {0}) /\ free \in Nat
  <2>1. IsFiniteSet(usable) /\ IsFiniteSet(usable \ {0})
    BY <1>3, PagesFinite, FS_Subset
  <2>2. Cardinality(usable) \in Nat /\ Cardinality(usable \ {0}) \in Nat
    BY <2>1, FS_CardinalityType
  <2>3. CASE 0 \in usable
    BY <2>1, <2>2, <2>3, FS_RemoveElement
  <2>4. CASE 0 \notin usable
    <3>1. usable \ {0} = usable
      BY <2>4
    <3>2. free = Cardinality(usable) - 0
      BY <2>4, Zenon
    <3> HIDE DEF free
    <3> QED BY <2>2, <3>1, <3>2
  <2> QED BY <2>3, <2>4
<1> HIDE DEF free
<1>5. 1 \in 0 .. MAX_PAGES
  BY BitmapAssumption
<1> DEFINE used == Pages \ (usable \ {0})
<1>6. used \in SUBSET Pages
  OBVIOUS
<1> HIDE DEF used
<1>7. init(entries) \in PmmType
  <2>1. init(entries) = [used |-> used, tracked_pages |-> tracked, free_pages |-> free,
                         next_hint |-> 1, initialized |-> TRUE]
    BY <1>2 DEF used
  <2> QED BY <1>1, <1>4, <1>5, <1>6, <2>1 DEF PmmType
<1> QED BY <1>2, <1>3, <1>4, <1>7 DEF usable, tracked

\* A granted request takes a run of free pages, counts them and nothing else.
LEMMA GrantEffect ==
  ASSUME NEW p \in PmmType, NEW count \in Nat, NEW max_phys \in Nat,
         alloc_pages_below(p, count, max_phys).ret # None
  PROVE  LET got == alloc_pages_below(p, count, max_phys)
             R   == Run(got.ret, count)
         IN  /\ got.pmm \in PmmType
             /\ got.ret \in Pages /\ got.ret \in 1 .. BoundedPages(p, max_phys) - count
             /\ count > 0 /\ p.initialized
             /\ R \in SUBSET Pages /\ R \cap p.used = {}
             /\ IsFiniteSet(R) /\ Cardinality(R) = count
             /\ got.pmm.used = p.used \cup R
             /\ got.pmm.free_pages = p.free_pages - count
             /\ got.pmm.tracked_pages = p.tracked_pages
             /\ got.pmm.next_hint = got.ret + count
             /\ got.pmm.initialized = p.initialized
<1> DEFINE got == alloc_pages_below(p, count, max_phys)
<1>1. PICK first \in 1 .. BoundedPages(p, max_phys) - count :
        /\ count > 0 /\ p.initialized /\ p.free_pages >= count
        /\ Run(first, count) \cap p.used = {}
        /\ got = Granted(p, count, first)
  BY AllocOutcome
<1>2. /\ Run(first, count) \in SUBSET Pages /\ first + count \in 0 .. MAX_PAGES
      /\ first \in Pages /\ IsFiniteSet(Run(first, count))
      /\ Cardinality(Run(first, count)) = count
  BY <1>1, RunPages
<1> DEFINE R == Run(first, count)
<1>3. got.ret = first /\ got.pmm = [p EXCEPT !.used = p.used \cup R,
                                             !.free_pages = p.free_pages - count,
                                             !.next_hint = first + count]
  BY <1>1 DEF Granted
<1> HIDE DEF got
<1>4. p.used \cup R \in SUBSET Pages /\ p.free_pages - count \in Nat
  BY <1>1, <1>2, PmmFields
<1> HIDE DEF R
<1>5. /\ got.pmm \in PmmType /\ got.pmm.used = p.used \cup R
      /\ got.pmm.free_pages = p.free_pages - count
      /\ got.pmm.tracked_pages = p.tracked_pages
      /\ got.pmm.next_hint = first + count
      /\ got.pmm.initialized = p.initialized
  BY <1>2, <1>3, <1>4, Zenon DEF PmmType
<1> QED BY <1>1, <1>2, <1>3, <1>5, Zenon DEF R, got

LEMMA RefusalEffect ==
  ASSUME NEW p \in PmmType, NEW count \in Nat, NEW max_phys \in Nat,
         alloc_pages_below(p, count, max_phys).ret = None
  PROVE  alloc_pages_below(p, count, max_phys).pmm = p
<1>1. CASE alloc_pages_below(p, count, max_phys) = [pmm |-> p, ret |-> None]
  BY <1>1
<1>2. CASE \E first \in 1 .. BoundedPages(p, max_phys) - count :
             alloc_pages_below(p, count, max_phys) = Granted(p, count, first)
  <2>1. PICK first \in 1 .. BoundedPages(p, max_phys) - count :
             alloc_pages_below(p, count, max_phys) = Granted(p, count, first)
    BY <1>2
  <2>2. first = None
    BY <2>1 DEF Granted
  <2>3. BoundedPages(p, max_phys) \in Int
    BY BoundedPagesType, BitmapAssumption DEF PmmType
  <2> QED BY <2>2, <2>3, BitmapAssumption
<1> QED BY <1>1, <1>2, AllocOutcome

LEMMA FreeEffect ==
  ASSUME NEW p \in PmmType, NEW base \in Nat, NEW count \in Nat
  PROVE  LET F   == Freeable(p, base, count)
             new == free_pages_range(p, base, count)
         IN  /\ new \in PmmType
             /\ F \in SUBSET p.used /\ \A q \in F : q # 0 /\ q < p.tracked_pages
             /\ IsFiniteSet(F) /\ Cardinality(F) \in Nat
             /\ new.used = p.used \ F
             /\ new.free_pages = p.free_pages + Cardinality(F)
             /\ new.tracked_pages = p.tracked_pages
             /\ new.initialized = p.initialized
<1> DEFINE F == Freeable(p, base, count)
           h == Min({p.next_hint} \cup F)
           new == free_pages_range(p, base, count)
<1>1. F \in SUBSET p.used /\ \A q \in F : q # 0 /\ q < p.tracked_pages
  BY FreeableType
<1>2. new = [p EXCEPT !.used = p.used \ F,
                      !.free_pages = p.free_pages + Cardinality(F),
                      !.next_hint = h]
  BY DEF free_pages_range
<1> HIDE DEF F, new
<1>3. IsFiniteSet(F) /\ Cardinality(F) \in Nat
  <2>1. F \in SUBSET Pages
    BY <1>1, PmmFields
  <2> QED BY <2>1, PagesFinite, FS_Subset, FS_CardinalityType
<1>4. h \in 0 .. MAX_PAGES
  <2>1. {p.next_hint} \cup F \in SUBSET (0 .. MAX_PAGES)
    <3>1. p.used \in SUBSET Pages /\ p.next_hint \in 0 .. MAX_PAGES
      BY PmmFields
    <3>2. Pages \in SUBSET (0 .. MAX_PAGES)
      BY BitmapAssumption DEF Pages
    <3> QED BY <1>1, <3>1, <3>2, Zenon
  <2>2. {p.next_hint} \cup F \in SUBSET Nat
    BY <2>1, BitmapAssumption
  <2>3. h \in {p.next_hint} \cup F
    BY <2>2, MinNat
  <2> QED BY <2>1, <2>3
<1> HIDE DEF h
<1>5. p.used \ F \in SUBSET Pages /\ p.free_pages + Cardinality(F) \in Nat
  BY <1>3, PmmFields
<1>6. /\ new \in PmmType
      /\ new.used = p.used \ F
      /\ new.free_pages = p.free_pages + Cardinality(F)
      /\ new.tracked_pages = p.tracked_pages
      /\ new.initialized = p.initialized
  BY <1>2, <1>4, <1>5, Zenon DEF PmmType
<1> QED BY <1>1, <1>3, <1>6 DEF F, new
=============================================================================
