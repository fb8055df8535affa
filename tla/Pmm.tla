-------------------------------- MODULE Pmm --------------------------------
(***************************************************************************)
(* The physical memory manager as a component: its record, driven by every *)
(* sequence of init, alloc_pages_below, free_pages_range and reserve calls *)
(* its clients can make.                                                   *)
(*                                                                         *)
(* held, reserved, map and reply are history variables: what clients hold, *)
(* what reserve() took, the memory map passed to init, the last call.      *)
(***************************************************************************)
EXTENDS FrameBitmap

CONSTANTS
  MaxCount,    \* largest page count a call asks for
  MemoryMaps,  \* memory maps the firmware may pass: sets of regions
  Limits,      \* values of max_phys clients pass
  Bases,       \* addresses clients pass to free_page, first bytes to reserve
  Lengths      \* byte lengths clients pass to reserve

ASSUME PmmAssumption ==
  /\ MaxCount \in Nat
  \* the limits the kernel passes (u64::MAX, and FALLBACK_IDENTITY_HEAP_MAX_PHYS of
  \* main.rs) are page addresses; alloc_pages_below rounds any other one up, and
  \* would then grant the page that contains it
  /\ Limits \subseteq 0 .. U64_MAX
  /\ \A limit \in Limits : limit = U64_MAX \/ limit % PAGE_SIZE = 0
  /\ Bases \cup Lengths \subseteq 0 .. U64_MAX
  \* no region begins in the last page of the address space
  /\ MemoryMaps \subseteq
       SUBSET [base : 0 .. U64_MAX - PAGE_SIZE, length : 0 .. U64_MAX,
               usable : BOOLEAN]

VARIABLES pmm, held, reserved, map, reply

vars == <<pmm, held, reserved, map, reply>>

-----------------------------------------------------------------------------
(* The state machine: boot, then any sequence of calls.  A client frees    *)
(* only pages it holds, or passes an address that free_page refuses (an    *)
(* unaligned one, page 0, one past the tracked range, one already free).   *)

Init ==
  /\ pmm = NewPmm
  /\ held = {}
  /\ reserved = {}
  /\ map = {}
  /\ reply = [op |-> "none"]

\* main.rs calls pmm::init once, before anything allocates.
Boot(entries) ==
  /\ ~pmm.initialized
  /\ pmm' = init(entries)
  /\ map' = entries
  /\ reply' = [op |-> "init"]
  /\ UNCHANGED <<held, reserved>>

Alloc(count, max_phys) ==
  LET result == alloc_pages_below(pmm, count, max_phys)
  IN  /\ pmm' = result.pmm
      /\ held' = held \cup
                 (IF result.ret = None THEN {} ELSE Run(result.ret, count))
      /\ reply' = [op |-> "alloc", count |-> count, limit |-> max_phys,
                   ret |-> result.ret]
      /\ UNCHANGED <<reserved, map>>

Free(base, count) ==
  /\ Freeable(pmm, base, count) \subseteq held
  /\ pmm' = free_pages_range(pmm, base, count)
  /\ held' = held \ Freeable(pmm, base, count)
  /\ reply' = [op |-> "free", freed |-> Freeable(pmm, base, count)]
  /\ UNCHANGED <<reserved, map>>

Reserve(base, length) ==
  /\ pmm' = reserve(pmm, base, length)
  /\ reserved' = reserved \cup ReservedPages(pmm, base, length)
  /\ reply' = [op |-> "reserve"]
  /\ UNCHANGED <<held, map>>

Next ==
  \/ \E entries \in MemoryMaps : Boot(entries)
  \/ \E count \in 0 .. MaxCount, max_phys \in Limits : Alloc(count, max_phys)
  \/ \E base \in Bases, count \in 0 .. MaxCount : Free(base, count)
  \/ \E base \in Bases, length \in Lengths : Reserve(base, length)

Spec == Init /\ [][Next]_vars

-----------------------------------------------------------------------------
(* Properties.                                                             *)

\* The allocator's record and the history variables have their types: every
\* page number that init, alloc and free produce is within the bitmap.
TypeOK ==
  /\ pmm \in PmmType
  /\ held \subseteq Pages
  /\ reserved \subseteq Pages
  /\ map \in MemoryMaps \cup {{}}

\* free_pages, which alloc_pages_below trusts to refuse early and which
\* memory::verify reports, is the number of clear bits in the bitmap after any
\* sequence of calls; no clear bit lies outside the tracked range.
CounterMatchesBitmap ==
  /\ pmm.free_pages = Cardinality(Pages \ pmm.used)
  /\ \A p \in Pages \ pmm.used : p # 0 /\ p < pmm.tracked_pages

\* Every page of the bitmap has exactly one owner: a set bit is a page that a
\* client holds, that reserve() took, or that init never released.  So no page
\* is handed out twice and a page given back is never lost.
OneOwnerPerPage ==
  LET withheld == Pages \ (UsablePages(map) \ {0})
  IN  /\ pmm.used = held \cup reserved \cup withheld
      /\ held \cap reserved = {}
      /\ (held \cup reserved) \cap withheld = {}

\* alloc_pages_below never hands out a page that firmware did not report as
\* usable: all of its bytes lie inside one usable region.
HeldPagesAreUsableMemory ==
  \A p \in held : \E r \in map :
    r.usable /\ r.base <= p * PAGE_SIZE /\ (p + 1) * PAGE_SIZE <= r.base + r.length

HintIsLowest == \A q \in Pages \ pmm.used : pmm.next_hint <= q

\* As long as requests are for single pages, next_hint stays at or below every
\* free page, whatever is freed and reserved in between, and alloc_page answers
\* the lowest free page.  vmm::alloc_zeroed_table needs this: at boot it frees a
\* page that lies too high and asks again, which can only answer the same page.
SinglePagesLowestFirst ==
  [][HintIsLowest /\ (reply'.op = "alloc" => reply'.count <= 1) =>
       /\ HintIsLowest'
       /\ reply'.op = "alloc" /\ reply'.ret # None =>
            \A q \in Pages \ pmm.used : reply'.ret <= q]_vars

\* The bitmap, the counter and the hinted wrap-around search together are the
\* abstract frame allocator: they grant whenever a run of frames is free that
\* lies below the limit to its last byte (the search from next_hint misses none),
\* and only such frames.  The limits are page addresses, as the kernel's are.
Frames == INSTANCE FrameAllocator
            WITH free <- Pages \ pmm.used, Counts <- 0 .. MaxCount

ImplementsFrameAllocator == Frames!Spec
=============================================================================
