-------------------------------- MODULE Heap --------------------------------
(***************************************************************************)
(* The kernel heap of seed/saios/src/heap.rs, on top of the physical       *)
(* memory manager: a bump allocator over chunks of contiguous pages that   *)
(* grows on demand and never takes memory back.                            *)
(*                                                                         *)
(* An allocation that does not fit runs the loop of grow_heap_locked, one  *)
(* step per iteration with the heap lock held, and then tries once more.   *)
(* Meanwhile no other kernel code runs; between calls the other users of   *)
(* the physical memory manager take and return single pages.               *)
(*                                                                         *)
(* blocks, frames, others and request.feasible are history variables.      *)
(***************************************************************************)
EXTENDS FrameBitmap, Sequences

CONSTANTS
  MemoryMaps,                    \* memory maps the firmware may pass
  IdentityLimits,                \* values of IDENTITY_HEAP_MAX_PHYS
  INITIAL_HEAP_BYTES,
  FALLBACK_INITIAL_HEAP_BYTES,
  RESERVED_VIRTUAL_HEAP_BYTES,
  FALLBACK_MAX_HEAP_BYTES,
  HEAP_GROW_STEP_SMALL_BYTES,
  HEAP_GROW_STEP_LARGE_BYTES,
  MAX_HEAP_CHUNKS,
  Sizes, Aligns,                 \* layouts that clients ask for
  MaxOthers                      \* pages other clients hold at a time

ASSUME HeapAssumption ==
  /\ Sizes \subseteq Nat \ {0}
  /\ Aligns \subseteq Nat \ {0}
  /\ MAX_HEAP_CHUNKS \in Nat \ {0}
  /\ HEAP_GROW_STEP_SMALL_BYTES \in Nat \ {0}
  /\ HEAP_GROW_STEP_LARGE_BYTES \in Nat \ {0}
  \* the limits of the heap are whole pages
  /\ RESERVED_VIRTUAL_HEAP_BYTES \in {n * PAGE_SIZE : n \in 0 .. RESERVED_VIRTUAL_HEAP_BYTES}
  /\ FALLBACK_MAX_HEAP_BYTES \in {n * PAGE_SIZE : n \in 0 .. FALLBACK_MAX_HEAP_BYTES}
  /\ INITIAL_HEAP_BYTES \in Nat /\ FALLBACK_INITIAL_HEAP_BYTES \in Nat
  /\ IdentityLimits \subseteq Nat
  /\ MemoryMaps \subseteq SUBSET [base : 0 .. U64_MAX - PAGE_SIZE, length : 0 .. U64_MAX,
                                usable : BOOLEAN]

VARIABLES
  pmm,       \* the physical memory manager
  limit,     \* IDENTITY_HEAP_MAX_PHYS, U64_MAX when not set (0 in the code)
  heap,      \* HeapState
  request,   \* the call that holds the heap lock, or [op |-> "none"]
  reply,     \* answer to the last completed allocation
  blocks,    \* blocks handed out: records [start, end, align]
  frames,    \* pages the heap obtained
  others     \* pages other clients hold

vars == <<pmm, limit, heap, request, reply, blocks, frames, others>>

Idle == [op |-> "none"]

-----------------------------------------------------------------------------
(* The functions of heap.rs.                                               *)

NewHeap ==
  [chunks |-> <<>>, active_chunk |-> 0, committed_bytes |-> 0, max_bytes |-> 0,
   target_bytes |-> 0, initialized |-> FALSE]

align_up(value, align) == ((value + align - 1) \div align) * align

bytes_to_pages_ceil(bytes) == Max({1, (bytes + PAGE_SIZE - 1) \div PAGE_SIZE})

\* pmm::alloc_pages, or alloc_pages_below in identity mode.
alloc_pages(p, pages) ==
  alloc_pages_below(p, pages, limit)

\* The page counts alloc_best_effort_pages tries: max_pages, halved down to 1.
Halvings(max_pages) ==
  ({max_pages} \cup {max_pages \div (2 ^ k) : k \in 1 .. max_pages}) \cap (1 .. max_pages)

\* The largest of them that the physical memory manager grants.
BestEffort(p, max_pages) ==
  LET granted == {n \in Halvings(max_pages) : alloc_pages(p, n).ret # None}
  IN  IF granted = {} THEN 0 ELSE Max(granted)

\* The loop's condition rules out the cases in which add_chunk refuses (a full
\* chunk table, nothing left of max_bytes).
add_chunk(h, base, bytes) ==
  LET size == Min({bytes, h.max_bytes - h.committed_bytes})
  IN  [h EXCEPT !.chunks = Append(@, [base |-> base, current |-> base,
                                      end |-> base + size]),
                !.committed_bytes = @ + size]

\* The chunk try_alloc_from_chunks examines in its i-th iteration.
Examined(h, i) == 1 + ((h.active_chunk + i) % Len(h.chunks))

Fits(chunk, size, align) == align_up(chunk.current, align) + size <= chunk.end

\* The iterations that would succeed; the first of them is taken.
Fitting(h, size, align) ==
  {i \in 0 .. Len(h.chunks) - 1 : Fits(h.chunks[Examined(h, i)], size, align)}

try_alloc_from_chunks_no_padding(h, size, align) ==
  IF Fitting(h, size, align) = {} THEN [heap |-> h, ret |-> None]
  ELSE LET idx == Examined(h, Min(Fitting(h, size, align)))
       IN  [heap |-> [h EXCEPT !.chunks[idx].current = @ + size,
                               !.active_chunk = idx - 1],
            ret  |-> align_up(h.chunks[idx].current, align)]

try_alloc_from_chunks(h, size, align) ==
  IF Fitting(h, size, align) = {} THEN [heap |-> h, ret |-> None]
  ELSE LET idx   == Examined(h, Min(Fitting(h, size, align)))
           start == align_up(h.chunks[idx].current, align)
       IN  [heap |-> [h EXCEPT !.chunks[idx].current = start + size,
                               !.active_chunk = idx - 1],
            ret  |-> start]

-----------------------------------------------------------------------------
(* Calls.                                                                  *)

Init ==
  /\ pmm \in {init(entries) : entries \in MemoryMaps}
  /\ limit \in IdentityLimits
  /\ heap = NewHeap
  /\ request = Idle
  /\ reply = Idle
  /\ blocks = {} /\ frames = {} /\ others = {}

\* heap::init up to its call of grow_heap_locked; main calls it once.
HeapInit ==
  LET fallback_mode == limit # U64_MAX
      total_ram     == pmm.tracked_pages * PAGE_SIZE
      max_bytes     == Min({total_ram, IF fallback_mode THEN FALLBACK_MAX_HEAP_BYTES
                                       ELSE RESERVED_VIRTUAL_HEAP_BYTES})
      initial       == Min({max_bytes, IF fallback_mode THEN FALLBACK_INITIAL_HEAP_BYTES
                                       ELSE INITIAL_HEAP_BYTES})
  IN  /\ request = Idle /\ ~heap.initialized
      /\ heap' = [NewHeap EXCEPT !.max_bytes = max_bytes, !.target_bytes = max_bytes]
      /\ request' = [op |-> "init", desired |-> initial,
                     step |-> HEAP_GROW_STEP_LARGE_BYTES]
      /\ UNCHANGED <<pmm, limit, reply, blocks, frames, others>>

\* The answer to an allocation: the block, or None for a null pointer.
Answer(size, align, result, feasible) ==
  /\ heap' = result.heap
  /\ reply' = [op |-> "alloc", size |-> size, align |-> align,
               served |-> result.ret # None, feasible |-> feasible]
  /\ blocks' = blocks \cup
       (IF result.ret = None THEN {}
        ELSE {[start |-> result.ret, end |-> result.ret + size, align |-> align]})

\* Whether room for size bytes is left in the budget and in the chunk table, and
\* pages contiguous pages are free.
Room(size, pages) ==
  /\ heap.target_bytes - heap.committed_bytes >= size
  /\ Len(heap.chunks) < MAX_HEAP_CHUNKS
  /\ alloc_pages(pmm, pages).ret # None

GrowthStep_small(size) == HEAP_GROW_STEP_SMALL_BYTES

GrowthStep(size) ==
  IF size > HEAP_GROW_STEP_SMALL_BYTES THEN HEAP_GROW_STEP_LARGE_BYTES
  ELSE HEAP_GROW_STEP_SMALL_BYTES

\* GlobalAlloc::alloc: served from the chunks, or the heap has to grow first, or
\* it is at its target and the answer is null.
Alloc(size, align) ==
  LET result == try_alloc_from_chunks(heap, size, align)
      step   == GrowthStep(size)
      budget == heap.target_bytes - heap.committed_bytes
  IN  /\ request = Idle /\ heap.initialized
      /\ IF result.ret = None /\ budget > 0
         THEN /\ request' = [op |-> "alloc", size |-> size, align |-> align,
                             step |-> step,
                             desired |-> heap.committed_bytes
                                           + Min({budget, Max({size, step})}),
                             feasible |-> Room(size, bytes_to_pages_ceil(Min({step, budget})))]
              /\ UNCHANGED <<heap, reply, blocks>>
         ELSE /\ Answer(size, align, result, FALSE)
              /\ UNCHANGED request
      /\ UNCHANGED <<pmm, limit, frames, others>>

\* The pages grow_heap_locked gets in its next iteration; 0 ends the loop.
NextGrowth ==
  LET desired == Min({request.desired, heap.max_bytes})
  IN  IF heap.committed_bytes < desired /\ Len(heap.chunks) < MAX_HEAP_CHUNKS
      THEN BestEffort(pmm, bytes_to_pages_ceil(
             Min({desired - heap.committed_bytes, request.step})))
      ELSE 0

\* One iteration of grow_heap_locked.
Grow ==
  /\ request.op \in {"init", "alloc"}
  /\ \E pages \in {NextGrowth} \ {0} : \E got \in {alloc_pages(pmm, pages)} :
       /\ pmm' = got.pmm
       /\ frames' = frames \cup Run(got.ret, pages)
       /\ heap' = add_chunk(heap, got.ret * PAGE_SIZE, pages * PAGE_SIZE)
  /\ UNCHANGED <<limit, request, reply, blocks, others>>

\* The loop ends and alloc tries once more.
Retry ==
  /\ request.op = "alloc"
  /\ NextGrowth = 0
  /\ \E result \in {try_alloc_from_chunks(heap, request.size, request.align)} :
       Answer(request.size, request.align, result, request.feasible)
  /\ request' = Idle
  /\ UNCHANGED <<pmm, limit, frames, others>>

\* The loop ends and init asserts that the heap has a chunk.
HeapInitDone ==
  /\ request.op = "init"
  /\ NextGrowth = 0
  /\ heap' = [heap EXCEPT !.initialized = heap.chunks # <<>>]
  /\ request' = IF heap.chunks # <<>> THEN Idle ELSE [op |-> "panic"]
  /\ UNCHANGED <<pmm, limit, reply, blocks, frames, others>>

Panicked == request.op = "panic" /\ UNCHANGED vars

\* Page tables and device buffers: single pages, taken and returned.
OtherAlloc ==
  \E below \in {limit, U64_MAX} : \E got \in {alloc_pages_below(pmm, 1, below)} :
      /\ request = Idle
      /\ Cardinality(others) < MaxOthers
      /\ got.ret # None
      /\ pmm' = got.pmm
      /\ others' = others \cup {got.ret}
      /\ UNCHANGED <<limit, heap, request, reply, blocks, frames>>

OtherFree(page) ==
  /\ request = Idle
  /\ pmm' = free_pages_range(pmm, page * PAGE_SIZE, 1)
  /\ others' = others \ {page}
  /\ UNCHANGED <<limit, heap, request, reply, blocks, frames>>

Next ==
  \/ HeapInit
  \/ \E size \in Sizes, align \in Aligns : Alloc(size, align)
  \/ Grow
  \/ Retry
  \/ HeapInitDone
  \/ Panicked
  \/ OtherAlloc
  \/ \E page \in others : OtherFree(page)

Spec == Init /\ [][Next]_vars

-----------------------------------------------------------------------------
(* Properties.                                                             *)

\* No two blocks that alloc has handed out share a byte, whatever mixture of
\* chunks, alignments and growth produced them, and each is aligned as asked.
BlocksAreDisjoint ==
  /\ \A a, b \in blocks : a # b => a.end <= b.start \/ b.end <= a.start
  /\ \A a \in blocks : a.start % a.align = 0

\* A block lies in pages that the heap itself obtained from the physical memory
\* manager, and no other client holds any of them.
BlocksAreHeapMemory ==
  /\ frames \cap others = {}
  /\ frames \cup others \subseteq pmm.used
  /\ \A a \in blocks : \A byte \in a.start .. a.end - 1 : byte \div PAGE_SIZE \in frames

ChunkPages(chunk) == chunk.base \div PAGE_SIZE .. (chunk.end - 1) \div PAGE_SIZE

\* Every page the heap obtained is in a chunk and counted: growth leaks none,
\* although add_chunk clips a chunk to what is left of max_bytes and the chunk
\* table is bounded.
CommittedIsObtained ==
  /\ frames = UNION {ChunkPages(heap.chunks[i]) : i \in DOMAIN heap.chunks}
  /\ heap.committed_bytes = PAGE_SIZE * Cardinality(frames)
  /\ heap.committed_bytes <= heap.max_bytes
  /\ Len(heap.chunks) <= MAX_HEAP_CHUNKS

\* The heap's blocks, chunks and counters stay sound under every interleaving of
\* allocations, growth and page allocations of other clients.
BlocksAreSound == BlocksAreDisjoint /\ BlocksAreHeapMemory /\ CommittedIsObtained

\* A request of at most one large growth step is refused only for lack of
\* memory: if budget and a chunk slot were left and the pages of one growth step
\* were free and contiguous when alloc was called, the retry succeeds.
OneStepRequestsServed ==
  (/\ reply.op = "alloc" /\ reply.feasible
   /\ reply.size <= HEAP_GROW_STEP_LARGE_BYTES
   /\ PAGE_SIZE % reply.align = 0)
    => reply.served

=============================================================================
