---------------------------- MODULE FrameBitmap ----------------------------
(***************************************************************************)
(* The functions of seed/saios/src/driver/memory.rs and of its facade      *)
(* seed/saios/src/pmm.rs, without state: the allocator is one record, as   *)
(* in the source, and every function is an operator from the record and    *)
(* its arguments to the new record (and, for an allocation, the answer).   *)
(* The bitmap is the set "used" of pages whose bit is set.  Modules of the *)
(* allocator's clients call these operators where the code calls pmm::.    *)
(*                                                                         *)
(* Addresses are bytes; the page at an address is address / PAGE_SIZE.     *)
(***************************************************************************)
EXTENDS Integers, FiniteSets, FiniteSetsExt

CONSTANTS
  PAGE_SIZE,   \* bytes in a page
  MAX_PAGES,   \* pages the bitmap can hold
  U64_MAX,     \* u64::MAX
  None         \* Option::None

ASSUME BitmapAssumption ==
  /\ PAGE_SIZE \in Nat \ {0}
  /\ MAX_PAGES \in Nat \ {0}
  /\ U64_MAX \in Nat
  /\ MAX_PAGES * PAGE_SIZE + PAGE_SIZE < U64_MAX
  /\ None \notin Nat

Pages == 0 .. MAX_PAGES - 1

\* The fields of the record.
PmmType ==
  [used : SUBSET Pages, tracked_pages : 0 .. MAX_PAGES, free_pages : Nat,
   next_hint : 0 .. MAX_PAGES, initialized : BOOLEAN]

\* Pmm::new: every bit set, nothing tracked.
NewPmm ==
  [used |-> Pages, tracked_pages |-> 0, free_pages |-> 0, next_hint |-> 0,
   initialized |-> FALSE]

saturating_add(a, b) == IF a + b > U64_MAX THEN U64_MAX ELSE a + b

\* align_up(value, PAGE_SIZE) / PAGE_SIZE, with the wrap-around of u64 addition.
PageUp(value) == ((value + PAGE_SIZE - 1) % (U64_MAX + 1)) \div PAGE_SIZE

\* align_down(value, PAGE_SIZE) / PAGE_SIZE
PageDown(value) == value \div PAGE_SIZE

RegionEnd(r) == saturating_add(r.base, r.length)

TrackedPages(entries) ==
  LET highest == Max({0} \cup {RegionEnd(r) : r \in entries})
  IN  Min({PageUp(highest), MAX_PAGES})

\* Mutant: a region's first byte is rounded down, its last one up.
UsablePages_rounded_outward(entries) ==
  {p \in 0 .. TrackedPages(entries) - 1 :
     \E r \in entries :
       r.usable /\ PageDown(r.base) <= p /\ p < PageUp(RegionEnd(r))}

\* The pages init clears: those that lie wholly inside a usable region.
UsablePages(entries) ==
  {p \in 0 .. TrackedPages(entries) - 1 :
     \E r \in entries :
       r.usable /\ PageUp(r.base) <= p /\ p < PageDown(RegionEnd(r))}

init(entries) ==
  LET usable == UsablePages(entries)
  IN  [used          |-> Pages \ (usable \ {0}),
       tracked_pages |-> TrackedPages(entries),
       free_pages    |-> Cardinality(usable) - (IF 0 \in usable THEN 1 ELSE 0),
       next_hint     |-> 1,
       initialized   |-> TRUE]

Run(first, count) == first .. first + count - 1

\* bounded_tracked_pages: the first page number the request may not use.
BoundedPages(p, max_phys) ==
  LET max_page_exclusive ==
        IF max_phys = U64_MAX THEN p.tracked_pages
        ELSE saturating_add(max_phys, PAGE_SIZE - 1) \div PAGE_SIZE
  IN  Min({p.tracked_pages, max_page_exclusive})

\* The page at which the search for count pages below bounded begins.
SearchStart(p, count, bounded) ==
  IF p.next_hint >= 1 /\ p.next_hint < bounded - count + 1 THEN p.next_hint ELSE 1

\* The first page of the offset-th run examined; the search wraps round once.
Slot(p, count, bounded, offset) ==
  1 + ((SearchStart(p, count, bounded) - 1 + offset) % (bounded - count))

\* Mutant: only the first page of a run is tested.
FreeOffsets_first_page(p, count, bounded) ==
  {offset \in 0 .. bounded - count - 1 :
     Slot(p, count, bounded, offset) \notin p.used}

\* Mutant: the search stops at the last slot instead of wrapping round.
FreeOffsets_no_wrap(p, count, bounded) ==
  {offset \in 0 .. bounded - count - SearchStart(p, count, bounded) :
     Run(Slot(p, count, bounded, offset), count) \cap p.used = {}}

\* The offsets, in search order, at which the whole run is free.
FreeOffsets(p, count, bounded) ==
  {offset \in 0 .. bounded - count - 1 :
     Run(Slot(p, count, bounded, offset), count) \cap p.used = {}}

\* The early returns of alloc_pages_below.
Hopeless(p, count, bounded) ==
  \/ count = 0
  \/ ~p.initialized
  \/ p.free_pages < count
  \/ p.tracked_pages - 1 < count
  \/ bounded - 1 < count

alloc_pages_below(p, count, max_phys) ==
  LET bounded == BoundedPages(p, max_phys)
      offsets == FreeOffsets(p, count, bounded)
      first   == Slot(p, count, bounded, Min(offsets))
  IN  IF Hopeless(p, count, bounded) \/ offsets = {}
      THEN [pmm |-> p, ret |-> None]
      ELSE [pmm |-> [p EXCEPT !.used = @ \cup Run(first, count),
                              !.free_pages = @ - count,
                              !.next_hint = first + count],
            ret |-> first]

\* The pages that free_page accepts among the count pages from base.
Freeable(p, base, count) ==
  IF p.initialized /\ base % PAGE_SIZE = 0
  THEN {q \in Run(base \div PAGE_SIZE, count) \cap p.used :
          q # 0 /\ q < p.tracked_pages}
  ELSE {}

\* Mutant: a refused page still counts as freed.
free_pages_range_counts_refused(p, base, count) ==
  LET freed == Freeable(p, base, count)
  IN  [p EXCEPT !.used = @ \ freed,
                !.free_pages = @ + (IF freed = {} THEN 0 ELSE count),
                !.next_hint = Min({@} \cup freed)]

\* Mutant: a freed page below the hint does not lower it.
free_pages_range_keeps_hint(p, base, count) ==
  LET freed == Freeable(p, base, count)
  IN  [p EXCEPT !.used = @ \ freed,
                !.free_pages = @ + Cardinality(freed)]

\* free_page on each page of the range in turn: a refused page is skipped.
free_pages_range(p, base, count) ==
  LET freed == Freeable(p, base, count)
  IN  [p EXCEPT !.used = @ \ freed,
                !.free_pages = @ + Cardinality(freed),
                !.next_hint = Min({@} \cup freed)]

ReservedPages(p, base, length) ==
  IF p.initialized /\ length > 0
  THEN {q \in PageDown(base) .. PageUp(saturating_add(base, length)) - 1 :
          q < p.tracked_pages /\ q \notin p.used}
  ELSE {}

reserve(p, base, length) ==
  LET taken == ReservedPages(p, base, length)
  IN  [p EXCEPT !.used = @ \cup taken, !.free_pages = @ - Cardinality(taken)]
=============================================================================
