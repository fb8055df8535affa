----------------------------- MODULE HeapProofs -----------------------------
(***************************************************************************)
(* The kernel heap never hands out a byte twice, or one it does not own,   *)
(* for every memory map, page size, chunk table size, growth step and      *)
(* sequence of requests.                                                   *)
(***************************************************************************)
EXTENDS Heap, FrameBitmapProofs, SequenceTheorems

\* More time than the default for each leaf.
USE SMTT(20), ZenonT(20)

-----------------------------------------------------------------------------
(* Arithmetic of pages and alignment.                                      *)

LEMMA Scaled ==
  ASSUME NEW a \in Nat, NEW b \in Nat, a <= b
  PROVE  a * PAGE_SIZE <= b * PAGE_SIZE /\ a * PAGE_SIZE \in Nat
<1>1. PAGE_SIZE \in Nat
  BY BitmapAssumption
<1>2. PICK d \in Nat : b = a + d
  <2>1. b - a \in Nat /\ b = a + (b - a)
    OBVIOUS
  <2> QED BY <2>1
<1>3. b * PAGE_SIZE = a * PAGE_SIZE + d * PAGE_SIZE
  BY <1>1, <1>2
<1>4. d * PAGE_SIZE \in Nat /\ a * PAGE_SIZE \in Nat
  BY <1>1
<1> QED BY <1>3, <1>4

\* The page of a byte.
LEMMA PageOf ==
  ASSUME NEW q \in Nat, NEW b \in Nat, q * PAGE_SIZE <= b, b < (q + 1) * PAGE_SIZE
  PROVE  b \div PAGE_SIZE = q
<1> DEFINE d == b \div PAGE_SIZE
<1>1. PAGE_SIZE \in Nat \ {0}
  BY BitmapAssumption
<1>2. d \in Nat /\ d * PAGE_SIZE <= b /\ b < (d + 1) * PAGE_SIZE
  BY <1>1
<1> HIDE DEF d
<1>3. CASE d < q
  <2>1. (d + 1) * PAGE_SIZE <= q * PAGE_SIZE
    BY <1>2, <1>3, Scaled
  <2>2. (d + 1) * PAGE_SIZE \in Nat /\ q * PAGE_SIZE \in Nat
    BY <1>1, <1>2
  <2> QED BY <1>2, <2>1, <2>2
<1>4. CASE q < d
  <2>1. (q + 1) * PAGE_SIZE <= d * PAGE_SIZE
    BY <1>2, <1>4, Scaled
  <2>2. (q + 1) * PAGE_SIZE \in Nat /\ d * PAGE_SIZE \in Nat
    BY <1>1, <1>2
  <2> QED BY <1>2, <2>1, <2>2
<1> QED BY <1>2, <1>3, <1>4 DEF d

\* A byte of a run of pages lies in one of them.
LEMMA PageInRun ==
  ASSUME NEW f \in Nat, NEW n \in Nat, NEW b \in Nat,
         f * PAGE_SIZE <= b, b < (f + n) * PAGE_SIZE
  PROVE  b \div PAGE_SIZE \in Run(f, n)
<1> DEFINE d == b \div PAGE_SIZE
<1>1. PAGE_SIZE \in Nat \ {0}
  BY BitmapAssumption
<1>2. d \in Nat /\ d * PAGE_SIZE <= b /\ b < (d + 1) * PAGE_SIZE
  BY <1>1
<1> HIDE DEF d
<1>3. ~(d < f)
  <2> SUFFICES ASSUME d < f PROVE FALSE
    OBVIOUS
  <2>1. (d + 1) * PAGE_SIZE <= f * PAGE_SIZE
    BY <1>2, Scaled
  <2>2. (d + 1) * PAGE_SIZE \in Nat /\ f * PAGE_SIZE \in Nat
    BY <1>1, <1>2
  <2> QED BY <1>2, <2>1, <2>2
<1>4. ~(d >= f + n)
  <2> SUFFICES ASSUME d >= f + n PROVE FALSE
    OBVIOUS
  <2>1. (f + n) * PAGE_SIZE <= d * PAGE_SIZE
    BY <1>2, Scaled
  <2>2. (f + n) * PAGE_SIZE \in Nat /\ d * PAGE_SIZE \in Nat
    BY <1>1, <1>2
  <2> QED BY <1>2, <2>1, <2>2
<1>5. d \in Run(f, n)
  BY <1>2, <1>3, <1>4 DEF Run
<1> QED BY <1>5 DEF d

\* The pages of a chunk made of the n pages from f.
LEMMA PagesOfChunk ==
  ASSUME NEW f \in Nat, NEW n \in Nat \ {0}
  PROVE  (f * PAGE_SIZE) \div PAGE_SIZE .. ((f + n) * PAGE_SIZE - 1) \div PAGE_SIZE = Run(f, n)
<1>1. PAGE_SIZE \in Nat \ {0}
  BY BitmapAssumption
<1>2. (f * PAGE_SIZE) \div PAGE_SIZE = f
  <2>1. f * PAGE_SIZE \in Nat /\ (f + 1) * PAGE_SIZE = f * PAGE_SIZE + PAGE_SIZE
    BY <1>1
  <2> QED BY <1>1, <2>1, PageOf
<1>3. ((f + n) * PAGE_SIZE - 1) \div PAGE_SIZE = f + n - 1
  <2> DEFINE q == f + n - 1
             b == (f + n) * PAGE_SIZE - 1
  <2>1. q \in Nat /\ q + 1 = f + n
    OBVIOUS
  <2>2. q * PAGE_SIZE \in Nat /\ (q + 1) * PAGE_SIZE = q * PAGE_SIZE + PAGE_SIZE
    BY <1>1, <2>1
  <2>3. b = (q + 1) * PAGE_SIZE - 1
    BY <2>1
  <2> HIDE DEF q, b
  <2>4. b \in Nat /\ q * PAGE_SIZE <= b /\ b < (q + 1) * PAGE_SIZE
    BY <1>1, <2>2, <2>3
  <2>5. b \div PAGE_SIZE = q
    BY <2>1, <2>4, PageOf
  <2> QED BY <2>5 DEF b, q
<1> QED BY <1>2, <1>3 DEF Run

LEMMA CeilBound ==
  ASSUME NEW bytes \in Nat, NEW m \in Nat \ {0}, bytes <= m * PAGE_SIZE
  PROVE  bytes_to_pages_ceil(bytes) \in 1 .. m
<1> DEFINE d == (bytes + PAGE_SIZE - 1) \div PAGE_SIZE
<1>1. PAGE_SIZE \in Nat \ {0}
  BY BitmapAssumption
<1>2. d \in Nat /\ d * PAGE_SIZE <= bytes + PAGE_SIZE - 1
  BY <1>1
<1>3. ~(d > m)
  <2> SUFFICES ASSUME d > m PROVE FALSE
    OBVIOUS
  <2> HIDE DEF d
  <2>1. (m + 1) * PAGE_SIZE <= d * PAGE_SIZE
    BY <1>2, Scaled
  <2>2. (m + 1) * PAGE_SIZE = m * PAGE_SIZE + PAGE_SIZE /\ m * PAGE_SIZE \in Nat
    BY <1>1
  <2>3. d * PAGE_SIZE \in Nat
    BY <1>1, <1>2
  <2> QED BY <1>1, <1>2, <2>1, <2>2, <2>3
<1> HIDE DEF d
<1>4. Max({1, d}) = IF 1 >= d THEN 1 ELSE d
  BY <1>2 DEF Max
<1>5. Max({1, d}) \in 1 .. m
  BY <1>2, <1>3, <1>4
<1> QED BY <1>5 DEF bytes_to_pages_ceil, d

LEMMA AlignUp ==
  ASSUME NEW value \in Nat, NEW align \in Nat \ {0}
  PROVE  /\ align_up(value, align) \in Nat
         /\ align_up(value, align) >= value
         /\ align_up(value, align) % align = 0
<1> DEFINE d == (value + align - 1) \div align
<1>1. value + align - 1 \in Nat
  OBVIOUS
<1>2. d \in Nat /\ value + align - 1 < (d + 1) * align
  BY <1>1
<1> HIDE DEF d
<1>3. d * align \in Nat /\ (d + 1) * align = d * align + align
  BY <1>2
<1>4. d * align >= value
  BY <1>2, <1>3
<1>5. (d * align) % align = 0
  BY <1>2
<1> QED BY <1>3, <1>4, <1>5 DEF align_up, d

\* t is s with e at its end.
Appended(s, e, S, t) ==
  /\ t \in Seq(S \cup {e}) /\ Len(t) = Len(s) + 1 /\ t[Len(s) + 1] = e
  /\ DOMAIN t = 1 .. Len(s) + 1 /\ DOMAIN s = 1 .. Len(s) /\ Len(s) \in Nat
  /\ Len(s) + 1 \in DOMAIN t
  /\ \A i \in DOMAIN s : i \in DOMAIN t /\ t[i] = s[i]

\* The pages alloc_pages_below grants begin at a page.
LEMMA GrantIsPage ==
  ASSUME NEW p \in PmmType, NEW count \in Nat, NEW max_phys \in Nat,
         alloc_pages_below(p, count, max_phys).ret # None
  PROVE  alloc_pages_below(p, count, max_phys).ret \in Nat
BY GrantEffect DEF Pages

\* add_chunk writes the entry at chunk_count and leaves the earlier ones alone.
LEMMA AppendFacts ==
  ASSUME NEW S, NEW s \in Seq(S), NEW e
  PROVE  Appended(s, e, S, Append(s, e))
<1>1. s \in Seq(S \cup {e}) /\ DOMAIN s = 1 .. Len(s) /\ Len(s) \in Nat
  BY LenProperties
<1>2. \A i \in DOMAIN s : Append(s, e)[i] = s[i] /\ i \in 1 .. Len(s) + 1
  BY <1>1, AppendProperties
<1> QED BY <1>1, <1>2, AppendProperties, LenProperties DEF Appended

\* A growth step is at least the size of a request of up to a large step
\* (the step alloc chooses when it grows the heap).
LEMMA StepCovers ==
  ASSUME NEW size \in Sizes, size <= HEAP_GROW_STEP_LARGE_BYTES
  PROVE  GrowthStep(size) \in Nat \ {0} /\ size \in Nat /\ size <= GrowthStep(size)
<1>1. size \in Nat /\ HEAP_GROW_STEP_SMALL_BYTES \in Nat \ {0} /\ HEAP_GROW_STEP_LARGE_BYTES \in Nat \ {0}
  BY HeapAssumption, Zenon
<1> QED BY <1>1 DEF GrowthStep

LEMMA Transitive ==
  ASSUME NEW a \in Nat, NEW b \in Nat, NEW c \in Nat, a <= b, b <= c
  PROVE  a <= c
OBVIOUS

LEMMA NoEntries == ASSUME NEW S PROVE <<>> \in Seq(S) /\ DOMAIN <<>> = {} /\ Len(<<>>) = 0
OBVIOUS

\* min and max of two numbers, as the heap's code uses them.
LEMMA Pairs ==
  ASSUME NEW a \in Int, NEW b \in Int
  PROVE  /\ Min({a, b}) = IF a <= b THEN a ELSE b
         /\ Max({a, b}) = IF a >= b THEN a ELSE b
BY DEF Min, Max

-----------------------------------------------------------------------------
(* The inductive invariant.                                                *)

Chunk == [base : Nat, current : Nat, end : Nat]

HeapType ==
  [chunks : Seq(Chunk), active_chunk : Nat, committed_bytes : Nat, max_bytes : Nat,
   target_bytes : Nat, initialized : BOOLEAN]

Typed ==
  /\ pmm \in PmmType
  /\ limit \in Nat
  /\ heap \in HeapType

\* A chunk is a run of pages the heap obtained, and current lies inside it.
ChunkIsRun(c, F) ==
  /\ \E f \in Nat, n \in Nat \ {0} :
       c.base = f * PAGE_SIZE /\ c.end = (f + n) * PAGE_SIZE /\ Run(f, n) \subseteq F
  /\ c.base <= c.current /\ c.current <= c.end

Apart(c, d) == c.end <= d.base \/ d.end <= c.base

ChunksHold(C, F) ==
  /\ \A i \in DOMAIN C : ChunkIsRun(C[i], F)
  /\ \A i, j \in DOMAIN C : i # j => Apart(C[i], C[j])

PagesOf(C) == UNION {ChunkPages(C[i]) : i \in DOMAIN C}

\* Below its current pointer a chunk is blocks and padding, above it free.
BlockHolds(a, C) ==
  /\ a.start \in Nat /\ a.end \in Nat /\ a.start % a.align = 0
  /\ \E i \in DOMAIN C : C[i].base <= a.start /\ a.end <= C[i].current

DisjointBlocks(a, b) == a.end <= b.start \/ b.end <= a.start

BlocksHold(B, C) ==
  /\ \A a \in B : BlockHolds(a, C)
  /\ \A a, b \in B : a # b => DisjointBlocks(a, b)

ChunksInv == ChunksHold(heap.chunks, frames) /\ BlocksHold(blocks, heap.chunks)

\* The limit of the heap is a number of pages; what is committed counts them.
FramesInv ==
  /\ IsFiniteSet(frames)
  /\ frames \cap others = {}
  /\ frames \cup others \subseteq pmm.used
  /\ \E m \in Nat : heap.max_bytes = m * PAGE_SIZE
  /\ CommittedIsObtained

\* The call in progress; before heap::init has run there is nothing.
RequestInv ==
  /\ request.op = "alloc" => /\ request.size \in Sizes /\ request.align \in Aligns
                             /\ heap.initialized = TRUE
  /\ request.op \in {"init", "alloc"} => request.desired \in Nat /\ request.step \in Nat \ {0}
  /\ heap.initialized = FALSE => blocks = {}
  /\ heap.initialized = FALSE /\ request = Idle => frames = {}

HeapInv == Typed /\ ChunksInv /\ FramesInv /\ RequestInv

LEMMA HeapTypes ==
  ASSUME NEW h \in HeapType
  PROVE  /\ h.chunks \in Seq(Chunk) /\ DOMAIN h.chunks = 1 .. Len(h.chunks)
         /\ Len(h.chunks) \in Nat
         /\ \A i \in DOMAIN h.chunks : h.chunks[i] \in Chunk
         /\ h.active_chunk \in Nat /\ h.committed_bytes \in Nat /\ h.max_bytes \in Nat
         /\ h.target_bytes \in Nat /\ h.initialized \in BOOLEAN
<1>1. h.chunks \in Seq(Chunk)
  BY DEF HeapType
<1>2. DOMAIN h.chunks = 1 .. Len(h.chunks) /\ Len(h.chunks) \in Nat
  BY <1>1, LenProperties
<1>3. \A i \in DOMAIN h.chunks : h.chunks[i] \in Chunk
  BY <1>1, <1>2, ElementOfSeq
<1> QED BY <1>1, <1>2, <1>3 DEF HeapType

\* The invariant gives what the run checks.
LEMMA HeapInvSound == HeapInv => BlocksAreSound
<1> SUFFICES ASSUME HeapInv PROVE BlocksAreSound
  OBVIOUS
<1>1. BlocksAreDisjoint
  BY DEF HeapInv, ChunksInv, BlocksHold, BlockHolds, DisjointBlocks, BlocksAreDisjoint
<1>2. ASSUME NEW a \in blocks, NEW byte \in a.start .. a.end - 1
      PROVE  byte \div PAGE_SIZE \in frames
  <2>1. a.start \in Nat /\ a.end \in Nat
    BY DEF HeapInv, ChunksInv, BlocksHold, BlockHolds
  <2>2. PICK i \in DOMAIN heap.chunks :
          heap.chunks[i].base <= a.start /\ a.end <= heap.chunks[i].current
    BY DEF HeapInv, ChunksInv, BlocksHold, BlockHolds
  <2> DEFINE c == heap.chunks[i]
  <2>3. ChunkIsRun(c, frames)
    BY DEF HeapInv, ChunksInv, ChunksHold
  <2>4. PICK f \in Nat, n \in Nat \ {0} :
          c.base = f * PAGE_SIZE /\ c.end = (f + n) * PAGE_SIZE /\ Run(f, n) \subseteq frames
    BY <2>3 DEF ChunkIsRun
  <2>5. c.base \in Nat /\ c.current \in Nat /\ c.end \in Nat
    BY HeapTypes, Zenon DEF HeapInv, Typed, Chunk
  <2>6. byte \in Nat /\ c.base <= byte /\ byte < c.end
    BY <2>1, <2>2, <2>3, <2>5 DEF ChunkIsRun
  <2>7. byte \div PAGE_SIZE \in Run(f, n)
    BY <2>4, <2>6, PageInRun
  <2> QED BY <2>4, <2>7
<1>3. BlocksAreHeapMemory
  BY <1>2 DEF HeapInv, FramesInv, BlocksAreHeapMemory
<1> QED BY <1>1, <1>3 DEF BlocksAreSound, HeapInv, FramesInv

LEMMA HeapInitHolds == Init => HeapInv
<1> SUFFICES ASSUME Init PROVE HeapInv
  OBVIOUS
<1>1. PICK entries \in MemoryMaps : pmm = init(entries)
  BY DEF Init
<1>2. entries \in SUBSET Regions
  BY HeapAssumption DEF Regions
<1>3. pmm \in PmmType
  BY <1>1, <1>2, InitEffect, Zenon
<1>4. <<>> \in Seq(Chunk) /\ DOMAIN <<>> = {} /\ Len(<<>>) = 0
  OBVIOUS
<1>5. heap = NewHeap /\ heap.chunks = <<>> /\ heap.committed_bytes = 0 /\ heap.max_bytes = 0
  BY DEF Init, NewHeap
<1>6. Typed
  BY <1>3, <1>4, <1>5, HeapAssumption DEF Init, Typed, HeapType, NewHeap
<1>7. ChunksInv
  BY <1>4, <1>5 DEF Init, ChunksInv, ChunksHold, BlocksHold
<1>8. FramesInv
  <2>1. frames = {} /\ others = {}
    BY DEF Init
  <2>2. IsFiniteSet(frames) /\ Cardinality(frames) = 0
    BY <2>1, FS_EmptySet
  <2>3. heap.max_bytes = 0 * PAGE_SIZE /\ PAGE_SIZE * 0 = 0
    BY <1>5, BitmapAssumption
  <2>4. frames = UNION {ChunkPages(heap.chunks[i]) : i \in DOMAIN heap.chunks}
    BY <1>4, <1>5, <2>1
  <2> QED BY <1>4, <1>5, <2>1, <2>2, <2>3, <2>4, HeapAssumption DEF FramesInv, CommittedIsObtained
<1>9. RequestInv
  BY DEF Init, RequestInv, Idle
<1> QED BY <1>6, <1>7, <1>8, <1>9 DEF HeapInv

-----------------------------------------------------------------------------
(* Allocation from the chunks.                                             *)

\* try_alloc_from_chunks either finds nothing and changes nothing, or moves the
\* current pointer of one chunk past the block it answers.
BlockFound(h, size, align, result) ==
  /\ result.ret \in Nat /\ result.ret % align = 0
  /\ \E idx \in DOMAIN h.chunks :
       /\ h.chunks[idx].current <= result.ret
       /\ result.ret + size <= h.chunks[idx].end
       /\ result.heap = [h EXCEPT !.chunks[idx].current = result.ret + size,
                                  !.active_chunk = idx - 1]

LEMMA TryAlloc ==
  ASSUME NEW h \in HeapType, NEW size \in Sizes, NEW align \in Aligns
  PROVE  LET result == try_alloc_from_chunks(h, size, align)
         IN  (result.ret = None /\ result.heap = h) \/ BlockFound(h, size, align, result)
<1> DEFINE result == try_alloc_from_chunks(h, size, align)
           fitting == Fitting(h, size, align)
<1>1. size \in Nat \ {0} /\ align \in Nat \ {0}
  BY HeapAssumption
<1>2. CASE fitting = {}
  BY <1>2 DEF try_alloc_from_chunks
<1>3. CASE fitting # {}
  <2>1. fitting \in SUBSET Nat
    BY HeapTypes DEF Fitting
  <2>2. Min(fitting) \in fitting
    BY <1>3, <2>1, MinNat
  <2> DEFINE i == Min(fitting)
             idx == Examined(h, i)
             start == align_up(h.chunks[idx].current, align)
  <2>3. /\ i \in 0 .. Len(h.chunks) - 1
        /\ start + size <= h.chunks[idx].end
    BY <2>2, Zenon DEF Fitting, Fits
  <2>4. /\ result.ret = start
        /\ result.heap = [h EXCEPT !.chunks[idx].current = start + size, !.active_chunk = idx - 1]
    BY <1>3 DEF try_alloc_from_chunks
  <2>5. idx \in DOMAIN h.chunks
    <3> HIDE DEF i
    <3>1. h.active_chunk + i \in Nat /\ Len(h.chunks) \in Nat \ {0}
      BY <2>3, HeapTypes
    <3>2. (h.active_chunk + i) % Len(h.chunks) \in 0 .. Len(h.chunks) - 1
      BY <3>1, ModRange, Zenon
    <3> QED BY <3>1, <3>2, HeapTypes DEF Examined
  <2> HIDE DEF idx
  <2>6. h.chunks[idx].current \in Nat
    BY <2>5, HeapTypes DEF Chunk
  <2>7. start \in Nat /\ start >= h.chunks[idx].current /\ start % align = 0
    BY <1>1, <2>6, AlignUp
  <2> HIDE DEF start, result
  <2>8. h.chunks[idx].current <= start
    BY <2>6, <2>7
  <2>9. BlockFound(h, size, align, result)
    BY <2>3, <2>4, <2>5, <2>7, <2>8, Zenon DEF BlockFound
  <2> QED BY <2>9 DEF result
<1> QED BY <1>2, <1>3

\* A block cut from chunk idx overlaps no block and leaves the chunks in order.
LEMMA CutBlock ==
  ASSUME NEW C \in Seq(Chunk), NEW F, NEW B, ChunksHold(C, F), BlocksHold(B, C),
         NEW size \in Nat \ {0}, NEW align \in Nat \ {0},
         NEW start \in Nat, start % align = 0,
         NEW idx \in DOMAIN C, C[idx].current <= start, start + size <= C[idx].end
  PROVE  LET D == [C EXCEPT ![idx].current = start + size]
         IN  /\ D \in Seq(Chunk) /\ Len(D) = Len(C)
             /\ ChunksHold(D, F) /\ PagesOf(D) = PagesOf(C)
             /\ BlocksHold(B \cup {[start |-> start, end |-> start + size, align |-> align]}, D)
<1> DEFINE new == [start |-> start, end |-> start + size, align |-> align]
           D == [C EXCEPT ![idx].current = start + size]
<1>1. DOMAIN C = 1 .. Len(C) /\ Len(C) \in Nat
  BY LenProperties
<1>2. \A i \in DOMAIN C : /\ C[i] \in Chunk /\ C[i].base \in Nat /\ C[i].current \in Nat
                          /\ C[i].end \in Nat /\ C[i].base <= C[i].current
                          /\ C[i].current <= C[i].end
  <2> TAKE i \in DOMAIN C
  <2>1. C[i] \in Chunk
    BY <1>1, ElementOfSeq
  <2>2. ChunkIsRun(C[i], F)
    BY DEF ChunksHold
  <2> QED BY <2>1, <2>2 DEF Chunk, ChunkIsRun
<1>3. start + size \in Nat /\ start <= start + size
  OBVIOUS
<1>4. /\ DOMAIN D = DOMAIN C
      /\ \A i \in DOMAIN C : i # idx => D[i] = C[i]
      /\ D[idx] = [C[idx] EXCEPT !.current = start + size]
  OBVIOUS
<1>5. /\ D[idx].base = C[idx].base /\ D[idx].end = C[idx].end
      /\ D[idx].current = start + size /\ D[idx] \in Chunk
  BY <1>2, <1>3, <1>4, Zenon DEF Chunk
<1>6. D \in [1 .. Len(C) -> Chunk]
  BY <1>1, <1>2, <1>4, <1>5
<1> HIDE DEF D
<1>7. D \in Seq(Chunk) /\ Len(D) = Len(C)
  BY <1>1, <1>6, SeqDef, LenProperties
<1>8. \A i \in DOMAIN C : D[i].base = C[i].base /\ D[i].end = C[i].end
  BY <1>4, <1>5, Zenon
<1>9. ChunksHold(D, F)
  <2>1. ASSUME NEW i \in DOMAIN C PROVE ChunkIsRun(D[i], F)
    <3>1. ChunkIsRun(C[i], F)
      BY DEF ChunksHold
    <3>2. D[i].base <= D[i].current /\ D[i].current <= D[i].end
      <4>1. CASE i = idx
        <5>1. C[idx].base <= start + size
          BY <1>2, <1>3
        <5> QED BY <1>5, <4>1, <5>1
      <4>2. CASE i # idx
        BY <1>2, <1>4, <4>2
      <4> QED BY <4>1, <4>2
    <3> QED BY <1>8, <3>1, <3>2 DEF ChunkIsRun
  <2>2. \A i, j \in DOMAIN D : i # j => Apart(D[i], D[j])
    BY <1>4, <1>8 DEF ChunksHold, Apart
  <2> QED BY <1>4, <2>1, <2>2 DEF ChunksHold
<1>10. PagesOf(D) = PagesOf(C)
  <2>1. \A i \in DOMAIN C : ChunkPages(D[i]) = ChunkPages(C[i])
    BY <1>8 DEF ChunkPages
  <2> QED BY <1>4, <2>1, Zenon DEF PagesOf
<1>11. ASSUME NEW a \in B PROVE BlockHolds(a, D) /\ DisjointBlocks(a, new) /\ DisjointBlocks(new, a)
  <2>1. a.start \in Nat /\ a.end \in Nat /\ a.start % a.align = 0
    BY DEF BlocksHold, BlockHolds
  <2>2. PICK i \in DOMAIN C : C[i].base <= a.start /\ a.end <= C[i].current
    BY DEF BlocksHold, BlockHolds
  <2>3. CASE i = idx
    <3>1. a.end <= start /\ a.end <= start + size
      BY <1>2, <1>3, <2>1, <2>2, <2>3
    <3>2. D[i].base <= a.start /\ a.end <= D[i].current
      BY <1>5, <2>2, <2>3, <3>1
    <3> QED BY <1>4, <2>1, <3>1, <3>2, Zenon DEF BlockHolds, DisjointBlocks
  <2>4. CASE i # idx
    <3>1. Apart(C[i], C[idx])
      BY <2>4 DEF ChunksHold
    <3>2. C[i].end <= C[idx].base \/ C[idx].end <= C[i].base
      BY <3>1 DEF Apart
    <3>3. /\ C[i].current <= C[i].end /\ C[i].current \in Nat /\ C[i].end \in Nat
          /\ C[i].base \in Nat /\ C[idx].base \in Nat /\ C[idx].end \in Nat
          /\ C[idx].base <= start
      BY <1>2
    <3>4. a.end <= start \/ start + size <= a.start
      <4>1. CASE C[i].end <= C[idx].base
        <5>1. a.end <= C[i].end
          BY <2>1, <2>2, <3>3, Transitive, Zenon
        <5>2. a.end <= C[idx].base
          BY <2>1, <3>3, <4>1, <5>1, Transitive, Zenon
        <5> QED BY <2>1, <3>3, <5>2
      <4>2. CASE C[idx].end <= C[i].base
        <5>1. C[idx].end <= a.start
          BY <2>1, <2>2, <3>3, <4>2, Transitive, Zenon
        <5> QED BY <1>3, <2>1, <3>3, <5>1
      <4> QED BY <3>2, <4>1, <4>2
    <3>5. D[i].base <= a.start /\ a.end <= D[i].current
      BY <1>4, <2>2, <2>4
    <3> QED BY <1>4, <2>1, <3>4, <3>5 DEF BlockHolds, DisjointBlocks
  <2> QED BY <2>3, <2>4
<1>12. BlockHolds(new, D)
  <2>1. C[idx].base <= start
    BY <1>2
  <2>2. D[idx].base <= new.start /\ new.end <= D[idx].current
    BY <1>3, <1>5, <2>1
  <2>3. new.start \in Nat /\ new.end \in Nat /\ new.start % new.align = 0
    BY <1>3
  <2> QED BY <1>4, <2>2, <2>3, Zenon DEF BlockHolds
<1> HIDE DEF new
<1>13. BlocksHold(B \cup {new}, D)
  BY <1>11, <1>12 DEF BlocksHold
<1> QED BY <1>7, <1>9, <1>10, <1>13 DEF D, new

\* The answer to a request, with or without a block.
LEMMA AnswerStep ==
  ASSUME HeapInv, NEW size \in Sizes, NEW align \in Aligns, NEW feasible,
         heap.initialized = TRUE,
         Answer(size, align, try_alloc_from_chunks(heap, size, align), feasible),
         UNCHANGED <<pmm, limit, frames, others>>,
         request' = request \/ request' = Idle
  PROVE  HeapInv'
<1> DEFINE result == try_alloc_from_chunks(heap, size, align)
           start == result.ret
<1>1. size \in Nat \ {0} /\ align \in Nat \ {0}
  BY HeapAssumption
<1>2. /\ heap' = result.heap
      /\ blocks' = blocks \cup
           (IF start = None THEN {}
            ELSE {[start |-> start, end |-> start + size, align |-> align]})
  BY DEF Answer
<1>3. heap \in HeapType /\ ChunksHold(heap.chunks, frames) /\ BlocksHold(blocks, heap.chunks)
  BY DEF HeapInv, Typed, ChunksInv
<1>4. CASE start = None /\ result.heap = heap
  <2>1. heap' = heap /\ blocks' = blocks
    BY <1>2, <1>4, Zenon
  <2>2. RequestInv'
    BY <2>1 DEF HeapInv, RequestInv, Idle
  <2>3. ChunksInv' /\ Typed'
    BY <2>1, Zenon DEF HeapInv, Typed, ChunksInv
  <2>4. FramesInv'
    BY <2>1 DEF HeapInv, FramesInv, CommittedIsObtained
  <2> QED BY <2>2, <2>3, <2>4, Zenon DEF HeapInv
<1>5. CASE BlockFound(heap, size, align, result)
  <2>1. PICK idx \in DOMAIN heap.chunks :
                /\ heap.chunks[idx].current <= start
                /\ start + size <= heap.chunks[idx].end
                /\ result.heap = [heap EXCEPT !.chunks[idx].current = start + size,
                                              !.active_chunk = idx - 1]
    BY <1>5, Zenon DEF BlockFound
  <2> DEFINE new == [start |-> start, end |-> start + size, align |-> align]
             D == [heap.chunks EXCEPT ![idx].current = start + size]
  <2>2. start \in Nat /\ start % align = 0 /\ start # None
    BY <1>5, BitmapAssumption DEF BlockFound
  <2>3. heap' = [heap EXCEPT !.chunks = D, !.active_chunk = idx - 1] /\ blocks' = blocks \cup {new}
    BY <1>2, <2>1, <2>2
  <2>4. heap.chunks \in Seq(Chunk) /\ idx \in Nat \ {0}
    BY <1>3, HeapTypes
  <2> HIDE DEF start, result
  <2>5. /\ D \in Seq(Chunk) /\ Len(D) = Len(heap.chunks)
        /\ ChunksHold(D, frames) /\ PagesOf(D) = PagesOf(heap.chunks)
        /\ BlocksHold(blocks \cup {new}, D)
    BY <1>1, <1>3, <2>1, <2>2, <2>4, CutBlock, Zenon
  <2> HIDE DEF D, new
  <2>6. idx - 1 \in Nat
    BY <2>4
  <2>7. /\ heap' \in HeapType /\ heap'.chunks = D
        /\ heap'.committed_bytes = heap.committed_bytes /\ heap'.max_bytes = heap.max_bytes
        /\ heap'.initialized = heap.initialized
    BY <1>3, <2>3, <2>5, <2>6, Zenon DEF HeapType
  <2>8. Typed'
    BY <2>7 DEF HeapInv, Typed
  <2>9. ChunksInv'
    BY <2>3, <2>5, <2>7 DEF ChunksInv
  <2>10. FramesInv'
    BY <2>5, <2>7, Zenon DEF HeapInv, FramesInv, CommittedIsObtained, PagesOf
  <2>11. RequestInv'
    BY <2>7 DEF HeapInv, RequestInv, Idle
  <2> QED BY <2>8, <2>9, <2>10, <2>11 DEF HeapInv
<1> QED BY <1>3, <1>4, <1>5, TryAlloc

-----------------------------------------------------------------------------
(* Growth.                                                                 *)

LEMMA RunsApart ==
  ASSUME NEW f \in Nat, NEW n \in Nat \ {0}, NEW g \in Nat, NEW k \in Nat \ {0},
         Run(f, n) \cap Run(g, k) = {}
  PROVE  f + n <= g \/ g + k <= f
<1>1. f <= g => f + n <= g
  <2> SUFFICES ASSUME f <= g, g < f + n PROVE FALSE
    OBVIOUS
  <2>1. g \in Run(f, n) /\ g \in Run(g, k)
    BY DEF Run
  <2> QED BY <2>1
<1>2. g <= f => g + k <= f
  <2> SUFFICES ASSUME g <= f, f < g + k PROVE FALSE
    OBVIOUS
  <2>1. f \in Run(f, n) /\ f \in Run(g, k)
    BY DEF Run
  <2> QED BY <2>1
<1> QED BY <1>1, <1>2

RunChunk(f, n) ==
  [base |-> f * PAGE_SIZE, current |-> f * PAGE_SIZE, end |-> (f + n) * PAGE_SIZE]

\* A chunk of new pages touches no chunk the heap has.
NewChunkHolds(C, D, F, G, B) ==
  /\ D \in Seq(Chunk) /\ Len(D) = Len(C) + 1
  /\ ChunksHold(D, G) /\ BlocksHold(B, D)
  /\ PagesOf(D) = PagesOf(C) \cup (G \ F)

LEMMA NewChunk ==
  ASSUME NEW C \in Seq(Chunk), NEW F, NEW B, ChunksHold(C, F), BlocksHold(B, C),
         NEW f \in Nat, NEW n \in Nat \ {0}, Run(f, n) \cap F = {}
  PROVE  NewChunkHolds(C, Append(C, RunChunk(f, n)), F, F \cup Run(f, n), B)
<1> DEFINE base == f * PAGE_SIZE
           end == (f + n) * PAGE_SIZE
           c == RunChunk(f, n)
           D == Append(C, c)
           last == Len(C) + 1
<1>1. base \in Nat /\ end \in Nat /\ base <= end
  <2>1. f + n \in Nat /\ f <= f + n
    OBVIOUS
  <2> QED BY <2>1, Scaled
<1>2. c = [base |-> base, current |-> base, end |-> end]
  BY DEF RunChunk
<1> HIDE DEF base, end
<1>3. c \in Chunk /\ c.base = base /\ c.current = base /\ c.end = end
  BY <1>1, <1>2 DEF Chunk
<1> HIDE DEF c
<1>4. DOMAIN C = 1 .. Len(C) /\ Len(C) \in Nat
  BY LenProperties
<1>5. D \in Seq(Chunk) /\ Len(D) = Len(C) + 1 /\ D[last] = c
      /\ \A i \in 1 .. Len(C) : D[i] = C[i]
  BY <1>3, AppendProperties
<1> HIDE DEF D
<1>6. DOMAIN D = 1 .. Len(C) + 1
  BY <1>5, LenProperties, Zenon
<1>7. DOMAIN D = DOMAIN C \cup {last} /\ last \notin DOMAIN C /\ D[last] = c
      /\ \A i \in DOMAIN C : D[i] = C[i]
  BY <1>4, <1>5, <1>6
<1> HIDE DEF last
<1>8. ASSUME NEW i \in DOMAIN C PROVE ChunkIsRun(C[i], F \cup Run(f, n)) /\ Apart(C[i], c) /\ Apart(c, C[i])
  <2>1. ChunkIsRun(C[i], F)
    BY DEF ChunksHold
  <2>2. PICK g \in Nat, k \in Nat \ {0} :
          C[i].base = g * PAGE_SIZE /\ C[i].end = (g + k) * PAGE_SIZE /\ Run(g, k) \subseteq F
    BY <2>1, Zenon DEF ChunkIsRun
  <2>3. ChunkIsRun(C[i], F \cup Run(f, n))
    BY <2>1, <2>2 DEF ChunkIsRun
  <2>4. Run(f, n) \cap Run(g, k) = {}
    BY <2>2
  <2>5. f + n <= g \/ g + k <= f
    BY <2>4, RunsApart, Zenon
  <2>6. f + n \in Nat /\ g + k \in Nat
    OBVIOUS
  <2>7. (f + n) * PAGE_SIZE <= g * PAGE_SIZE \/ (g + k) * PAGE_SIZE <= f * PAGE_SIZE
    BY <2>5, <2>6, Scaled
  <2>8. c.end <= C[i].base \/ C[i].end <= c.base
    BY <1>3, <2>2, <2>7 DEF base, end
  <2> QED BY <2>3, <2>8 DEF Apart
<1>9. ChunkIsRun(c, F \cup Run(f, n))
  <2>1. c.base = f * PAGE_SIZE /\ c.end = (f + n) * PAGE_SIZE
    BY <1>3 DEF base, end
  <2>2. c.base <= c.current /\ c.current <= c.end
    BY <1>1, <1>3
  <2> QED BY <2>1, <2>2 DEF ChunkIsRun
<1>10. ChunksHold(D, F \cup Run(f, n))
  <2>1. \A i \in DOMAIN D : ChunkIsRun(D[i], F \cup Run(f, n))
    BY <1>7, <1>8, <1>9, Zenon
  <2>2. \A i, j \in DOMAIN C : i # j => Apart(C[i], C[j])
    BY DEF ChunksHold
  <2>3. \A i, j \in DOMAIN D : i # j => Apart(D[i], D[j])
    BY <1>7, <1>8, <2>2
  <2> QED BY <2>1, <2>3, Zenon DEF ChunksHold
<1>11. BlocksHold(B, D)
  BY <1>7 DEF BlocksHold, BlockHolds
<1>12. ChunkPages(c) = Run(f, n)
  BY <1>3, PagesOfChunk DEF ChunkPages, base, end
<1>13. PagesOf(D) = PagesOf(C) \cup Run(f, n)
  BY <1>7, <1>12 DEF PagesOf
<1>14. (F \cup Run(f, n)) \ F = Run(f, n)
  OBVIOUS
<1> QED BY <1>5, <1>10, <1>11, <1>13, <1>14 DEF D, c, NewChunkHolds

LEMMA BestEffortGranted ==
  ASSUME NEW p, NEW n \in Nat, BestEffort(p, n) # 0
  PROVE  BestEffort(p, n) \in 1 .. n /\ alloc_pages(p, BestEffort(p, n)).ret # None
<1> DEFINE granted == {k \in Halvings(n) : alloc_pages(p, k).ret # None}
<1>1. granted # {} /\ BestEffort(p, n) = Max(granted)
  BY DEF BestEffort
<1>2. granted \in SUBSET (1 .. n)
  BY DEF Halvings
<1>3. granted \in SUBSET (0 .. n)
  BY <1>2
<1>4. Max(granted) \in granted
  BY <1>1, <1>3, MaxNat, Zenon
<1> QED BY <1>1, <1>2, <1>4

\* What the heap may still obtain is a number of pages, so that add_chunk clips
\* nothing off the pages grow_heap_locked got.
LEMMA GrowthFits ==
  ASSUME HeapInv, request.op \in {"init", "alloc"}, NextGrowth # 0,
         NEW m \in Nat, heap.max_bytes = m * PAGE_SIZE
  PROVE  LET k == Cardinality(frames)
         IN  /\ k \in Nat /\ heap.committed_bytes = k * PAGE_SIZE
             /\ Len(heap.chunks) < MAX_HEAP_CHUNKS
             /\ NextGrowth \in Nat \ {0} /\ k + NextGrowth <= m
             /\ alloc_pages(pmm, NextGrowth).ret # None
<1> DEFINE k == Cardinality(frames)
           desired == Min({request.desired, heap.max_bytes})
           bytes == Min({desired - heap.committed_bytes, request.step})
           most == bytes_to_pages_ceil(bytes)
<1>1. PAGE_SIZE \in Nat \ {0}
  BY BitmapAssumption
<1>2. k \in Nat
  BY FS_CardinalityType DEF HeapInv, FramesInv
<1> HIDE DEF k
<1>3. heap.committed_bytes = k * PAGE_SIZE
  BY <1>1, <1>2 DEF HeapInv, FramesInv, CommittedIsObtained, k
<1>4. /\ heap.committed_bytes < desired /\ Len(heap.chunks) < MAX_HEAP_CHUNKS
      /\ NextGrowth = BestEffort(pmm, most)
  BY DEF NextGrowth
<1>5. heap.max_bytes \in Nat /\ heap.committed_bytes \in Nat
  BY HeapTypes DEF HeapInv, Typed
<1>6. request.desired \in Nat /\ request.step \in Nat
  BY DEF HeapInv, RequestInv
<1>7. desired \in Nat /\ desired <= heap.max_bytes
  BY <1>5, <1>6, Pairs
<1> HIDE DEF desired
<1>8. k < m
  <2> SUFFICES ASSUME m <= k PROVE FALSE
    BY <1>2
  <2>1. m * PAGE_SIZE <= k * PAGE_SIZE
    BY <1>2, Scaled
  <2> QED BY <1>3, <1>4, <1>5, <1>7, <2>1
<1>9. m - k \in Nat \ {0} /\ (m - k) * PAGE_SIZE = heap.max_bytes - heap.committed_bytes
  BY <1>1, <1>2, <1>3, <1>8
<1>10. bytes \in Nat /\ bytes <= (m - k) * PAGE_SIZE
  <2>1. desired - heap.committed_bytes \in Nat
        /\ desired - heap.committed_bytes <= heap.max_bytes - heap.committed_bytes
    BY <1>4, <1>5, <1>7
  <2> HIDE DEF k
  <2>2. bytes \in Nat /\ bytes <= desired - heap.committed_bytes
    BY <1>6, <2>1, Pairs
  <2> HIDE DEF bytes
  <2> QED BY <1>5, <1>7, <1>9, <2>1, <2>2
<1> HIDE DEF bytes
<1>11. most \in 1 .. m - k
  BY <1>9, <1>10, CeilBound
<1> HIDE DEF most
<1>12. most \in Nat
  BY <1>9, <1>11
<1>13. NextGrowth \in 1 .. most /\ alloc_pages(pmm, NextGrowth).ret # None
  BY <1>4, <1>12, BestEffortGranted
<1>14. NextGrowth \in Nat \ {0} /\ k + NextGrowth <= m
  BY <1>2, <1>9, <1>11, <1>12, <1>13
<1> QED BY <1>2, <1>3, <1>4, <1>13, <1>14 DEF k

LEMMA GrowStep == HeapInv /\ Grow => HeapInv'
<1> SUFFICES ASSUME HeapInv, Grow PROVE HeapInv'
  OBVIOUS
<1>1. request.op \in {"init", "alloc"} /\ UNCHANGED <<limit, request, reply, blocks, others>>
  BY DEF Grow
<1> DEFINE n == NextGrowth
           got == alloc_pages(pmm, n)
           f == got.ret
           R == Run(f, n)
           k == Cardinality(frames)
<1>2. /\ n # 0
      /\ pmm' = got.pmm
      /\ frames' = frames \cup R
      /\ heap' = add_chunk(heap, f * PAGE_SIZE, n * PAGE_SIZE)
  BY DEF Grow
<1>3. PICK m \in Nat : heap.max_bytes = m * PAGE_SIZE
  BY DEF HeapInv, FramesInv
<1>4. /\ k \in Nat /\ heap.committed_bytes = k * PAGE_SIZE
      /\ Len(heap.chunks) < MAX_HEAP_CHUNKS
      /\ n \in Nat \ {0} /\ k + n <= m /\ got.ret # None
  BY <1>1, <1>2, <1>3, GrowthFits
<1> HIDE DEF n
<1>5. pmm \in PmmType /\ limit \in Nat /\ heap \in HeapType
  BY DEF HeapInv, Typed
<1>6. /\ got.pmm \in PmmType /\ f \in Pages /\ R \cap pmm.used = {}
      /\ IsFiniteSet(R) /\ Cardinality(R) = n /\ got.pmm.used = pmm.used \cup R
  BY <1>4, <1>5, GrantEffect DEF alloc_pages
<1> HIDE DEF got, R, f
<1>7. /\ IsFiniteSet(frames) /\ frames \cap others = {}
      /\ frames \cup others \subseteq pmm.used
  BY DEF HeapInv, FramesInv
<1>8. R \cap frames = {} /\ R \cap others = {}
  BY <1>6, <1>7
<1>9. f \in Nat /\ PAGE_SIZE \in Nat \ {0}
  BY <1>6, BitmapAssumption DEF Pages
<1>10. IsFiniteSet(frames \cup R) /\ Cardinality(frames \cup R) = k + n
  <2>1. IsFiniteSet(frames \cap R) /\ Cardinality(frames \cap R) = 0
    BY <1>8, FS_EmptySet, ZenonT(40)
  <2>2. Cardinality(frames \cup R) = k + n - 0
    BY <1>6, <1>7, <2>1, FS_Union
  <2>3. IsFiniteSet(frames \cup R)
    BY <1>6, <1>7, FS_Union, Zenon
  <2>4. k + n - 0 = k + n
    BY <1>4
  <2> QED BY <2>2, <2>3, <2>4
<1> HIDE DEF k
<1> DEFINE D == Append(heap.chunks, RunChunk(f, n))
<1>11. /\ (f + n) * PAGE_SIZE = f * PAGE_SIZE + n * PAGE_SIZE
       /\ (k + n) * PAGE_SIZE = k * PAGE_SIZE + n * PAGE_SIZE
       /\ n * PAGE_SIZE \in Nat /\ k * PAGE_SIZE \in Nat /\ m * PAGE_SIZE \in Nat
  BY <1>4, <1>9
<1>12. (k + n) * PAGE_SIZE <= m * PAGE_SIZE
  BY <1>4, Scaled
<1>13. Min({n * PAGE_SIZE, heap.max_bytes - heap.committed_bytes}) = n * PAGE_SIZE
  <2>1. n * PAGE_SIZE <= m * PAGE_SIZE - k * PAGE_SIZE
    BY <1>11, <1>12
  <2> QED BY <1>3, <1>4, <1>11, <2>1, Pairs
<1>14. heap' = [heap EXCEPT !.chunks = D, !.committed_bytes = @ + n * PAGE_SIZE]
  BY <1>2, <1>11, <1>13, Zenon DEF add_chunk, RunChunk
<1>15. heap.chunks \in Seq(Chunk)
  BY <1>5, HeapTypes
<1>16. ChunksHold(heap.chunks, frames) /\ BlocksHold(blocks, heap.chunks)
  BY DEF HeapInv, ChunksInv
<1>17. /\ D \in Seq(Chunk) /\ Len(D) = Len(heap.chunks) + 1
       /\ ChunksHold(D, frames \cup R) /\ BlocksHold(blocks, D)
       /\ PagesOf(D) = PagesOf(heap.chunks) \cup R
  <2>1. Run(f, n) \cap frames = {} /\ R = Run(f, n)
    BY <1>8 DEF R
  <2>2. n \in Nat \ {0}
    BY <1>4
  <2>3. f \in Nat
    BY <1>9
  <2> DEFINE C == heap.chunks
  <2>4. C \in Seq(Chunk) /\ ChunksHold(C, frames) /\ BlocksHold(blocks, C)
    BY <1>15, <1>16
  <2> HIDE DEF C, D
  <2>5. NewChunkHolds(C, Append(C, RunChunk(f, n)), frames, frames \cup Run(f, n), blocks)
    BY <2>1, <2>2, <2>3, <2>4, NewChunk
  <2>6. D = Append(C, RunChunk(f, n))
    BY DEF D, C
  <2>7. (frames \cup Run(f, n)) \ frames = Run(f, n)
    BY <2>1
  <2> QED BY <2>1, <2>5, <2>6, <2>7 DEF C, NewChunkHolds
<1> HIDE DEF D
<1>18. heap.committed_bytes + n * PAGE_SIZE = (k + n) * PAGE_SIZE
       /\ heap.committed_bytes + n * PAGE_SIZE \in Nat
  BY <1>4, <1>11
<1>19. /\ heap' \in HeapType /\ heap'.chunks = D
       /\ heap'.committed_bytes = heap.committed_bytes + n * PAGE_SIZE
       /\ heap'.max_bytes = heap.max_bytes /\ heap'.initialized = heap.initialized
  BY <1>5, <1>14, <1>17, <1>18, Zenon DEF HeapType
<1>20. Typed'
  BY <1>1, <1>2, <1>5, <1>6, <1>19 DEF Typed
<1>21. ChunksInv'
  BY <1>1, <1>2, <1>17, <1>19 DEF ChunksInv
<1>22. FramesInv'
  <2>1. CommittedIsObtained'
    <3>1. frames' = PagesOf(heap'.chunks)
      BY <1>2, <1>17, <1>19, ZenonT(40) DEF HeapInv, FramesInv, CommittedIsObtained, PagesOf
    <3>2. heap'.committed_bytes = PAGE_SIZE * Cardinality(frames')
      <4>1. PAGE_SIZE * (k + n) = (k + n) * PAGE_SIZE
        BY <1>4, <1>9
      <4> QED BY <1>2, <1>10, <1>18, <1>19, <4>1
    <3>3. heap'.committed_bytes <= heap'.max_bytes
      BY <1>3, <1>12, <1>18, <1>19
    <3>4. Len(heap'.chunks) <= MAX_HEAP_CHUNKS
      BY <1>4, <1>5, <1>17, <1>19, HeapAssumption, HeapTypes
    <3> QED BY <3>1, <3>2, <3>3, <3>4 DEF CommittedIsObtained, PagesOf
  <2>2. frames' \cap others' = {} /\ frames' \cup others' \subseteq pmm'.used
    BY <1>1, <1>2, <1>6, <1>7, <1>8, ZenonT(40)
  <2> QED BY <1>2, <1>3, <1>10, <1>19, <2>1, <2>2 DEF FramesInv
<1>23. RequestInv'
  BY <1>1, <1>19 DEF HeapInv, RequestInv, Idle
<1> QED BY <1>20, <1>21, <1>22, <1>23 DEF HeapInv

-----------------------------------------------------------------------------
(* The other steps.                                                        *)

\* Growth steps and steps outside the heap leave the chunks and blocks alone.
LEMMA SameHeap ==
  ASSUME HeapInv, UNCHANGED <<limit, heap, blocks, frames>>,
         pmm' \in PmmType, frames \cap others' = {}, frames \cup others' \subseteq pmm'.used,
         RequestInv'
  PROVE  HeapInv'
<1>1. Typed' /\ ChunksInv'
  BY DEF HeapInv, Typed, ChunksInv
<1>2. FramesInv'
  BY DEF HeapInv, FramesInv, CommittedIsObtained
<1> QED BY <1>1, <1>2, ZenonT(40) DEF HeapInv

LEMMA HeapInitStep == HeapInv /\ HeapInit => HeapInv'
<1> SUFFICES ASSUME HeapInv, HeapInit PROVE HeapInv'
  OBVIOUS
<1> DEFINE total == pmm.tracked_pages * PAGE_SIZE
           most == IF limit # U64_MAX THEN FALLBACK_MAX_HEAP_BYTES
                   ELSE RESERVED_VIRTUAL_HEAP_BYTES
           first == IF limit # U64_MAX THEN FALLBACK_INITIAL_HEAP_BYTES
                    ELSE INITIAL_HEAP_BYTES
           max == Min({total, most})
           initial == Min({max, first})
<1>1. /\ request = Idle /\ ~heap.initialized
      /\ heap' = [NewHeap EXCEPT !.max_bytes = max, !.target_bytes = max]
      /\ request' = [op |-> "init", desired |-> initial, step |-> HEAP_GROW_STEP_LARGE_BYTES]
      /\ UNCHANGED <<pmm, limit, reply, blocks, frames, others>>
  BY DEF HeapInit
<1>2. pmm \in PmmType /\ heap \in HeapType
  BY DEF HeapInv, Typed
<1>3. heap.initialized = FALSE
  BY <1>1, <1>2, HeapTypes
<1>4. blocks = {} /\ frames = {}
  BY <1>1, <1>3 DEF HeapInv, RequestInv
<1>5. PICK t \in Nat : total = t * PAGE_SIZE
  BY <1>2, BitmapAssumption DEF PmmType
<1>6. PICK r \in Nat : most = r * PAGE_SIZE
  <2>1. PICK a \in Nat : RESERVED_VIRTUAL_HEAP_BYTES = a * PAGE_SIZE
    BY HeapAssumption
  <2>2. PICK b \in Nat : FALLBACK_MAX_HEAP_BYTES = b * PAGE_SIZE
    BY HeapAssumption
  <2> QED BY <2>1, <2>2
<1>7. total \in Nat /\ most \in Nat
  BY <1>5, <1>6, Scaled
<1> HIDE DEF total, most
<1>8. max \in Nat /\ \E m \in Nat : max = m * PAGE_SIZE
  BY <1>5, <1>6, <1>7, Pairs
<1> HIDE DEF max
<1>9. initial \in Nat
  <2>1. first \in Nat
    BY HeapAssumption
  <2> HIDE DEF first
  <2> QED BY <1>8, <2>1, Pairs
<1> HIDE DEF initial
<1>10. heap' = [chunks |-> <<>>, active_chunk |-> 0, committed_bytes |-> 0, max_bytes |-> max,
                target_bytes |-> max, initialized |-> FALSE]
  BY <1>1, Zenon DEF NewHeap
<1>11. <<>> \in Seq(Chunk) /\ DOMAIN <<>> = {} /\ Len(<<>>) = 0
  BY NoEntries, ZenonT(40)
<1>12. heap' \in HeapType /\ heap'.chunks = <<>> /\ heap'.committed_bytes = 0
       /\ heap'.max_bytes = max
  BY <1>8, <1>10, <1>11, Zenon DEF HeapType
<1>13. Typed'
  BY <1>1, <1>12 DEF HeapInv, Typed
<1>14. ChunksInv'
  BY <1>1, <1>4, <1>11, <1>12, Zenon DEF ChunksInv, ChunksHold, BlocksHold
<1>15. FramesInv'
  <2>1. IsFiniteSet(frames') /\ Cardinality(frames') = 0
    BY <1>1, <1>4, FS_EmptySet
  <2>2. PAGE_SIZE * 0 = 0 /\ 0 <= max
    BY <1>8, BitmapAssumption
  <2>3. frames' = UNION {ChunkPages(heap'.chunks[i]) : i \in DOMAIN heap'.chunks}
    BY <1>1, <1>4, <1>11, <1>12
  <2>4. CommittedIsObtained'
    BY <1>11, <1>12, <2>1, <2>2, <2>3, HeapAssumption DEF CommittedIsObtained, ChunkPages
  <2>5. /\ frames' \cap others' = {} /\ frames' \cup others' \subseteq pmm'.used
    BY <1>1 DEF HeapInv, FramesInv
  <2> QED BY <1>8, <1>12, <2>1, <2>4, <2>5 DEF FramesInv
<1>16. RequestInv'
  BY <1>1, <1>4, <1>9, HeapAssumption DEF RequestInv, Idle
<1> QED BY <1>13, <1>14, <1>15, <1>16 DEF HeapInv

LEMMA AllocStep ==
  ASSUME HeapInv, NEW size \in Sizes, NEW align \in Aligns, Alloc(size, align)
  PROVE  HeapInv'
<1> DEFINE result == try_alloc_from_chunks(heap, size, align)
           step == GrowthStep(size)
           budget == heap.target_bytes - heap.committed_bytes
           desired == heap.committed_bytes + Min({budget, Max({size, step})})
<1>1. request = Idle /\ heap.initialized /\ UNCHANGED <<pmm, limit, frames, others>>
  BY DEF Alloc
<1>2. heap \in HeapType /\ pmm \in PmmType
  BY DEF HeapInv, Typed
<1>3. heap.initialized = TRUE
  BY <1>1, <1>2, HeapTypes
<1>4. CASE result.ret = None /\ budget > 0
  <2>1. /\ UNCHANGED <<heap, reply, blocks>>
        /\ request' = [op |-> "alloc", size |-> size, align |-> align, step |-> step,
                       desired |-> desired,
                       feasible |-> Room(size, bytes_to_pages_ceil(Min({step, budget})))]
    BY <1>4, Zenon DEF Alloc
  <2>2. step \in Nat \ {0} /\ size \in Nat
    BY HeapAssumption DEF GrowthStep
  <2>3. desired \in Nat
    <3>1. budget \in Nat /\ heap.committed_bytes \in Nat
      BY <1>2, <1>4, HeapTypes
    <3> HIDE DEF step, budget
    <3>2. Max({size, step}) \in Nat
      <4>1. size \in Int /\ step \in Int
        BY <2>2
      <4>2. Max({size, step}) = IF size >= step THEN size ELSE step
        BY <4>1, Pairs
      <4> QED BY <2>2, <4>2
    <3>3. Min({budget, Max({size, step})}) \in Nat
      BY <3>1, <3>2, Pairs
    <3> QED BY <3>1, <3>3
  <2> HIDE DEF desired, step
  <2>4. /\ request'.op = "alloc" /\ request'.size = size /\ request'.align = align
        /\ request'.desired = desired /\ request'.step = step
    BY <2>1
  <2>5. RequestInv'
    BY <1>3, <2>1, <2>2, <2>3, <2>4, Zenon DEF RequestInv, Idle
  <2> QED BY <1>1, <1>2, <2>1, <2>5, SameHeap, Zenon DEF HeapInv, FramesInv
<1>5. CASE ~(result.ret = None /\ budget > 0)
  <2>1. Answer(size, align, result, FALSE) /\ request' = request
    BY <1>5, Zenon DEF Alloc
  <2> QED BY <1>1, <1>3, <2>1, AnswerStep, Zenon
<1> QED BY <1>4, <1>5, ZenonT(40)

LEMMA RetryStep == HeapInv /\ Retry => HeapInv'
<1> SUFFICES ASSUME HeapInv, Retry PROVE HeapInv'
  OBVIOUS
<1>1. /\ request.op = "alloc" /\ request' = Idle
      /\ UNCHANGED <<pmm, limit, frames, others>>
      /\ Answer(request.size, request.align,
                try_alloc_from_chunks(heap, request.size, request.align), request.feasible)
  BY DEF Retry
<1>2. request.size \in Sizes /\ request.align \in Aligns /\ heap.initialized = TRUE
  BY <1>1 DEF HeapInv, RequestInv
<1> QED BY <1>1, <1>2, AnswerStep, Zenon

LEMMA HeapInitDoneStep == HeapInv /\ HeapInitDone => HeapInv'
<1> SUFFICES ASSUME HeapInv, HeapInitDone PROVE HeapInv'
  OBVIOUS
<1> DEFINE ready == heap.chunks # <<>>
<1>1. /\ heap' = [heap EXCEPT !.initialized = ready]
      /\ request' = IF ready THEN Idle ELSE [op |-> "panic"]
      /\ UNCHANGED <<pmm, limit, reply, blocks, frames, others>>
  BY DEF HeapInitDone
<1>2. heap \in HeapType
  BY DEF HeapInv, Typed
<1>3. heap' \in HeapType
  <2>1. ready \in BOOLEAN
    OBVIOUS
  <2> HIDE DEF ready
  <2> QED BY <1>1, <1>2, <2>1 DEF HeapType
<1>4. /\ heap'.chunks = heap.chunks /\ heap'.committed_bytes = heap.committed_bytes
      /\ heap'.max_bytes = heap.max_bytes
  BY <1>1, <1>2 DEF HeapType
<1>5. heap'.initialized = ready
  BY <1>1, <1>2, Zenon DEF HeapType
<1>6. Typed' /\ ChunksInv'
  BY <1>1, <1>3, <1>4 DEF HeapInv, Typed, ChunksInv
<1>7. FramesInv'
  BY <1>1, <1>4 DEF HeapInv, FramesInv, CommittedIsObtained
<1>8. RequestInv'
  <2>1. CASE ready
    BY <1>1, <1>5, <2>1, Zenon DEF RequestInv, Idle
  <2>2. CASE ~ready
    <3>1. DOMAIN heap.chunks = {}
      BY <2>2
    <3>2. blocks' = {}
      BY <1>1, <3>1 DEF HeapInv, ChunksInv, BlocksHold, BlockHolds
    <3>3. request'.op = "panic" /\ request' # Idle
      BY <1>1, <2>2 DEF Idle
    <3> QED BY <3>2, <3>3 DEF RequestInv
  <2> QED BY <2>1, <2>2
<1> QED BY <1>6, <1>7, <1>8 DEF HeapInv

LEMMA OtherAllocStep == HeapInv /\ OtherAlloc => HeapInv'
<1> SUFFICES ASSUME HeapInv, OtherAlloc PROVE HeapInv'
  OBVIOUS
<1>1. PICK below \in {limit, U64_MAX} :
        /\ alloc_pages_below(pmm, 1, below).ret # None
        /\ pmm' = alloc_pages_below(pmm, 1, below).pmm
        /\ others' = others \cup {alloc_pages_below(pmm, 1, below).ret}
        /\ UNCHANGED <<limit, heap, request, reply, blocks, frames>>
  BY DEF OtherAlloc
<1> DEFINE got == alloc_pages_below(pmm, 1, below)
<1>2. pmm \in PmmType /\ below \in Nat
  BY BitmapAssumption DEF HeapInv, Typed
<1>g. got.ret # None
  BY <1>1, ZenonT(40)
<1>3. /\ got.pmm \in PmmType /\ got.ret \in Pages /\ Run(got.ret, 1) \cap pmm.used = {}
      /\ got.pmm.used = pmm.used \cup Run(got.ret, 1)
  BY <1>2, <1>g, GrantEffect
<1> HIDE DEF got
<1>4. Run(got.ret, 1) = {got.ret}
  <2>1. got.ret \in Int
    BY <1>3, BitmapAssumption DEF Pages
  <2> QED BY <2>1 DEF Run
<1>5. got.ret \notin pmm.used
  BY <1>3, <1>4
<1>6. frames \cap others = {} /\ frames \cup others \subseteq pmm.used
  BY Zenon DEF HeapInv, FramesInv
<1>7. /\ pmm' \in PmmType /\ frames \cap others' = {} /\ frames \cup others' \subseteq pmm'.used
  BY <1>1, <1>3, <1>4, <1>5, <1>6 DEF got
<1>8. RequestInv'
  BY <1>1 DEF HeapInv, RequestInv, Idle
<1> QED BY <1>1, <1>7, <1>8, SameHeap

LEMMA OtherFreeStep ==
  ASSUME HeapInv, NEW page \in others, OtherFree(page)
  PROVE  HeapInv'
<1> DEFINE base == page * PAGE_SIZE
           freed == Freeable(pmm, base, 1)
<1>1. /\ pmm' = free_pages_range(pmm, base, 1) /\ others' = others \ {page}
      /\ UNCHANGED <<limit, heap, request, reply, blocks, frames>>
  BY DEF OtherFree
<1>2. frames \cap others = {} /\ frames \cup others \subseteq pmm.used /\ pmm \in PmmType
  BY DEF HeapInv, Typed, FramesInv
<1>3. page \in Nat
  <2>1. page \in Pages
    BY <1>2 DEF PmmType
  <2> QED BY <2>1 DEF Pages
<1>4. base \in Nat /\ base \div PAGE_SIZE = page
  <2>1. base \in Nat /\ base < (page + 1) * PAGE_SIZE /\ page * PAGE_SIZE <= base
    BY <1>3, BitmapAssumption
  <2> QED BY <1>3, <2>1, PageOf
<1> HIDE DEF base
<1>5. pmm' \in PmmType /\ pmm'.used = pmm.used \ freed
  <2> DEFINE count == 1
  <2>1. pmm \in PmmType /\ base \in Nat /\ count \in Nat
    BY <1>2, <1>4
  <2> HIDE DEF count
  <2>2. /\ free_pages_range(pmm, base, count) \in PmmType
        /\ free_pages_range(pmm, base, count).used = pmm.used \ Freeable(pmm, base, count)
    BY <2>1, FreeEffect, ZenonT(40)
  <2> QED BY <1>1, <2>2 DEF count
<1>6. freed \subseteq {page}
  <2>1. Run(page, 1) = {page}
    BY <1>3 DEF Run
  <2> QED BY <1>4, <2>1 DEF Freeable
<1> HIDE DEF freed
<1>7. frames \cap others' = {} /\ frames \cup others' \subseteq pmm'.used
  BY <1>1, <1>2, <1>5, <1>6, Zenon
<1>8. RequestInv'
  BY <1>1, Zenon DEF HeapInv, RequestInv, Idle
<1> QED BY <1>1, <1>5, <1>7, <1>8, SameHeap

LEMMA HeapStep == HeapInv /\ [Next]_vars => HeapInv'
<1> SUFFICES ASSUME HeapInv, [Next]_vars PROVE HeapInv'
  OBVIOUS
<1>1. CASE HeapInit
  BY <1>1, HeapInitStep
<1>2. CASE \E size \in Sizes, align \in Aligns : Alloc(size, align)
  BY <1>2, AllocStep
<1>3. CASE Grow
  BY <1>3, GrowStep
<1>4. CASE Retry
  BY <1>4, RetryStep
<1>5. CASE HeapInitDone
  BY <1>5, HeapInitDoneStep
<1>6. CASE OtherAlloc
  BY <1>6, OtherAllocStep
<1>7. CASE \E page \in others : OtherFree(page)
  BY <1>7, OtherFreeStep
<1>8. CASE UNCHANGED vars
  <2>1. UNCHANGED <<pmm, limit, heap, request, reply, blocks, frames, others>>
    BY <1>8 DEF vars
  <2>2. RequestInv'
    BY <2>1 DEF HeapInv, RequestInv, Idle
  <2>3. pmm' \in PmmType /\ frames \cap others' = {} /\ frames \cup others' \subseteq pmm'.used
    BY <2>1 DEF HeapInv, Typed, FramesInv
  <2> QED BY <2>1, <2>2, <2>3, SameHeap
<1>9. CASE Panicked
  BY <1>8, <1>9 DEF Panicked
<1> QED BY <1>1, <1>2, <1>3, <1>4, <1>5, <1>6, <1>7, <1>8, <1>9 DEF Next

\* heap.rs on pmm.rs, for every memory map, heap limit, growth step and request:
\* the blocks alloc hands out never overlap and are aligned as asked, they lie in
\* pages the heap obtained and no other client of the physical memory manager
\* holds, and growth neither leaks a page nor commits more than max_bytes.
THEOREM HeapSound == Spec => []BlocksAreSound
<1>1. Init => HeapInv
  BY HeapInitHolds
<1>2. HeapInv /\ [Next]_vars => HeapInv'
  BY HeapStep
<1>3. HeapInv => BlocksAreSound
  BY HeapInvSound
<1> QED BY <1>1, <1>2, <1>3, PTL DEF Spec

-----------------------------------------------------------------------------
(* Requests of one growth step.                                            *)

LEMMA QuotientOf ==
  ASSUME NEW q \in Nat, NEW b \in Nat, NEW n \in Nat \ {0}, q * n <= b, b < (q + 1) * n
  PROVE  b \div n = q
<1> DEFINE d == b \div n
<1>1. d \in Nat /\ d * n <= b /\ b < (d + 1) * n
  OBVIOUS
<1> HIDE DEF d
<1>2. CASE d < q
  <2>1. PICK e \in Nat : q = d + 1 + e
    <3>1. q - d - 1 \in Nat /\ q = d + 1 + (q - d - 1)
      BY <1>1, <1>2
    <3> QED BY <3>1
  <2>2. q * n = (d + 1) * n + e * n /\ e * n \in Nat /\ (d + 1) * n \in Nat
    BY <1>1, <2>1
  <2> QED BY <1>1, <2>2
<1>3. CASE q < d
  <2>1. PICK e \in Nat : d = q + 1 + e
    <3>1. d - q - 1 \in Nat /\ d = q + 1 + (d - q - 1)
      BY <1>1, <1>3
    <3> QED BY <3>1, Zenon
  <2>2. d * n = (q + 1) * n + e * n /\ e * n \in Nat /\ (q + 1) * n \in Nat
    BY <1>1, <2>1
  <2> QED BY <1>1, <2>2
<1> QED BY <1>1, <1>2, <1>3 DEF d

LEMMA RemainderOf ==
  ASSUME NEW q \in Nat, NEW n \in Nat \ {0}, NEW r \in 0 .. n - 1
  PROVE  (q * n + r) % n = r
<1> DEFINE b == q * n + r
<1>1. q * n \in Nat /\ (q + 1) * n = q * n + n
  OBVIOUS
<1>2. b \in Nat /\ q * n <= b /\ b < (q + 1) * n
  BY <1>1
<1> HIDE DEF b
<1>3. b \div n = q
  BY <1>2, QuotientOf
<1>4. b = (b \div n) * n + (b % n)
  BY <1>2
<1>5. b % n \in Nat
  BY <1>2
<1>6. b = q * n + r
  BY DEF b
<1>7. b % n = r
  BY <1>1, <1>3, <1>4, <1>5, <1>6
<1> QED BY <1>7 DEF b

\* The pages of a chunk begin at a multiple of every alignment that divides the
\* page size.
LEMMA PageAligned ==
  ASSUME NEW f \in Nat, NEW align \in Nat \ {0}, PAGE_SIZE % align = 0
  PROVE  align_up(f * PAGE_SIZE, align) = f * PAGE_SIZE
<1> DEFINE c == PAGE_SIZE \div align
           base == f * PAGE_SIZE
           q == f * c
<1>1. PAGE_SIZE \in Nat \ {0}
  BY BitmapAssumption
<1>2. c \in Nat /\ PAGE_SIZE = c * align
  BY <1>1
<1> HIDE DEF c
<1>3. q \in Nat /\ base = q * align
  BY <1>2
<1> HIDE DEF q, base
<1>4. q * align \in Nat /\ (q + 1) * align = q * align + align
  BY <1>3
<1>5. base + align - 1 \in Nat /\ q * align <= base + align - 1 /\ base + align - 1 < (q + 1) * align
  BY <1>3, <1>4
<1>6. (base + align - 1) \div align = q
  BY <1>3, <1>5, QuotientOf
<1> QED BY <1>3, <1>6 DEF align_up, base

\* bytes_to_pages_ceil gives enough pages.
LEMMA CeilCovers ==
  ASSUME NEW bytes \in Nat
  PROVE  /\ bytes_to_pages_ceil(bytes) \in Nat \ {0}
         /\ bytes <= bytes_to_pages_ceil(bytes) * PAGE_SIZE
<1> DEFINE d == (bytes + PAGE_SIZE - 1) \div PAGE_SIZE
           n == bytes_to_pages_ceil(bytes)
<1>1. PAGE_SIZE \in Nat \ {0}
  BY BitmapAssumption
<1>2. bytes + PAGE_SIZE - 1 \in Nat
  BY <1>1
<1>3. d \in Nat /\ bytes + PAGE_SIZE - 1 < (d + 1) * PAGE_SIZE
  BY <1>1, <1>2
<1>4. n = IF 1 >= d THEN 1 ELSE d
  <2>1. n = Max({1, d})
    BY DEF bytes_to_pages_ceil
  <2> HIDE DEF d, n
  <2>2. 1 \in Int /\ d \in Int
    BY <1>3
  <2> QED BY <2>1, <2>2, Pairs, Zenon
<1> HIDE DEF d, n
<1>5. n \in Nat \ {0} /\ d <= n
  BY <1>3, <1>4
<1>6. (d + 1) * PAGE_SIZE = d * PAGE_SIZE + PAGE_SIZE /\ d * PAGE_SIZE <= n * PAGE_SIZE
      /\ d * PAGE_SIZE \in Nat /\ n * PAGE_SIZE \in Nat
  BY <1>1, <1>3, <1>5, Scaled
<1>7. bytes <= n * PAGE_SIZE
  BY <1>1, <1>3, <1>6
<1> QED BY <1>5, <1>7 DEF n

\* The first page count that alloc_best_effort_pages tries, when it is granted.
LEMMA BestEffortFull ==
  ASSUME NEW p, NEW n \in Nat \ {0}, alloc_pages(p, n).ret # None
  PROVE  BestEffort(p, n) = n
<1> DEFINE granted == {k \in Halvings(n) : alloc_pages(p, k).ret # None}
<1>1. n \in Halvings(n) /\ Halvings(n) \in SUBSET (1 .. n)
  BY DEF Halvings
<1>2. n \in granted /\ granted \in SUBSET (1 .. n)
  BY <1>1
<1>3. BestEffort(p, n) = Max(granted)
  BY <1>2, Zenon DEF BestEffort
<1> HIDE DEF granted
<1>4. granted \in SUBSET (0 .. n) /\ granted # {}
  BY <1>2
<1>5. Max(granted) \in granted /\ \A y \in granted : Max(granted) >= y
  BY <1>4, MaxNat, Zenon
<1> DEFINE most == Max(granted)
<1>6. most \in 1 .. n /\ most >= n
  BY <1>2, <1>5, Zenon
<1> HIDE DEF most
<1>7. most = n
  BY <1>6
<1> QED BY <1>3, <1>7 DEF most

\* The search of try_alloc_from_chunks begins at the active chunk and comes round
\* to every chunk.
LEMMA EveryChunkExamined ==
  ASSUME NEW h \in HeapType, NEW idx \in DOMAIN h.chunks
  PROVE  \E i \in 0 .. Len(h.chunks) - 1 : Examined(h, i) = idx
<1> DEFINE n == Len(h.chunks)
           a == h.active_chunk
           q == a \div n
           r == a % n
<1>1. n \in Nat \ {0} /\ idx \in 1 .. n /\ a \in Nat
  BY HeapTypes
<1> HIDE DEF n, a
<1>2. q \in Nat /\ r \in 0 .. n - 1 /\ a = q * n + r
  BY <1>1
<1> HIDE DEF q, r
<1>3. idx - 1 \in 0 .. n - 1
  BY <1>1
<1>4. CASE r <= idx - 1
  <2> DEFINE i == idx - 1 - r
  <2>1. i \in 0 .. n - 1 /\ a + i = q * n + (idx - 1)
    BY <1>1, <1>2, <1>4
  <2>2. (a + i) % n = idx - 1
    BY <1>1, <1>2, <1>3, <2>1, RemainderOf, ZenonT(40)
  <2> HIDE DEF i
  <2>3. 1 + ((a + i) % n) = idx
    BY <1>1, <2>2
  <2> QED BY <2>1, <2>3, Zenon DEF Examined, a, n
<1>5. CASE ~(r <= idx - 1)
  <2> DEFINE i == idx - 1 - r + n
  <2>1. i \in 0 .. n - 1 /\ a + i = (q + 1) * n + (idx - 1) /\ q + 1 \in Nat
    BY <1>1, <1>2, <1>5
  <2>2. (a + i) % n = idx - 1
    BY <1>1, <1>3, <2>1, RemainderOf
  <2> HIDE DEF i
  <2>3. 1 + ((a + i) % n) = idx
    BY <1>1, <2>2
  <2> QED BY <2>1, <2>3, Zenon DEF Examined, a, n
<1> QED BY <1>4, <1>5

\* A chunk with room is found, whichever chunk is active.
LEMMA ChunkFound ==
  ASSUME NEW h \in HeapType, NEW size \in Sizes, NEW align \in Aligns,
         NEW idx \in DOMAIN h.chunks, Fits(h.chunks[idx], size, align)
  PROVE  try_alloc_from_chunks(h, size, align).ret # None
<1> DEFINE result == try_alloc_from_chunks(h, size, align)
<1>1. Fitting(h, size, align) # {}
  BY EveryChunkExamined, Zenon DEF Fitting
<1> DEFINE i == Min(Fitting(h, size, align))
           found == Examined(h, i)
<1>2. result.ret = align_up(h.chunks[found].current, align)
  BY <1>1 DEF try_alloc_from_chunks
<1>3. found \in DOMAIN h.chunks
  <2>1. Fitting(h, size, align) \in SUBSET Nat
    BY HeapTypes DEF Fitting
  <2>2. i \in Fitting(h, size, align)
    BY <1>1, <2>1, MinNat, Zenon
  <2>3. i \in 0 .. Len(h.chunks) - 1
    BY <2>2, Zenon DEF Fitting
  <2> HIDE DEF i
  <2>4. h.active_chunk + i \in Nat /\ Len(h.chunks) \in Nat \ {0}
    BY <2>3, HeapTypes
  <2>5. (h.active_chunk + i) % Len(h.chunks) \in 0 .. Len(h.chunks) - 1
    BY <2>4, ModRange, Zenon
  <2> QED BY <2>4, <2>5, HeapTypes DEF Examined
<1> HIDE DEF found
<1>4. h.chunks[found].current \in Nat /\ align \in Nat \ {0}
  BY <1>3, HeapTypes, HeapAssumption DEF Chunk
<1>5. result.ret \in Nat
  BY <1>2, <1>4, AlignUp
<1> QED BY <1>5, BitmapAssumption, Zenon

\* A request that fits one growth step, and was feasible when it was made.
Modest(r) ==
  r.feasible /\ r.size <= HEAP_GROW_STEP_LARGE_BYTES /\ PAGE_SIZE % r.align = 0

\* The memory for request r is there to be obtained in one iteration.
Coming(h, p, r) ==
  /\ r.size <= r.step /\ r.size <= h.max_bytes - h.committed_bytes
  /\ r.desired = h.committed_bytes + Min({h.max_bytes - h.committed_bytes, r.step})
  /\ Len(h.chunks) < MAX_HEAP_CHUNKS
  /\ alloc_pages(p, bytes_to_pages_ceil(Min({r.step, h.max_bytes - h.committed_bytes}))).ret # None

\* It has been obtained.
Ready(h, r) == \E i \in DOMAIN h.chunks : Fits(h.chunks[i], r.size, r.align)

OnItsWay(h, p, r) == (r.op = "alloc" /\ Modest(r)) => Coming(h, p, r) \/ Ready(h, r)

ServeInv ==
  /\ heap.target_bytes = heap.max_bytes
  /\ OnItsWay(heap, pmm, request)
  /\ OneStepRequestsServed

\* One iteration obtains the whole step.
LEMMA ComingGrows ==
  ASSUME HeapInv, request.op = "alloc", Coming(heap, pmm, request)
  PROVE  /\ NextGrowth \in Nat \ {0}
         /\ request.size <= NextGrowth * PAGE_SIZE
<1> DEFINE budget == heap.max_bytes - heap.committed_bytes
           step == request.step
           size == request.size
           grow == Min({step, budget})
           desired == Min({request.desired, heap.max_bytes})
           n == bytes_to_pages_ceil(grow)
<1>1. heap.max_bytes \in Nat /\ heap.committed_bytes \in Nat /\ step \in Nat /\ size \in Nat \ {0}
  BY HeapTypes, HeapAssumption, Zenon DEF HeapInv, Typed, RequestInv
<1>2. /\ size <= step /\ size <= budget
      /\ request.desired = heap.committed_bytes + Min({budget, step})
      /\ Len(heap.chunks) < MAX_HEAP_CHUNKS
      /\ alloc_pages(pmm, n).ret # None
  BY Zenon DEF Coming
<1> DEFINE max == heap.max_bytes
           done == heap.committed_bytes
           asked == request.desired
<1> HIDE DEF step, size, max, done, asked
<1>3. budget = max - done /\ budget \in Int /\ step \in Int
  BY <1>1 DEF max, done
<1> HIDE DEF budget
<1>4. /\ grow = IF step <= budget THEN step ELSE budget
      /\ Min({budget, step}) = IF budget <= step THEN budget ELSE step
  BY <1>3, Pairs, Zenon
<1>5. /\ max \in Nat /\ done \in Nat /\ step \in Nat /\ size \in Nat \ {0}
      /\ size <= step /\ size <= budget /\ asked = done + Min({budget, step})
  BY <1>1, <1>2 DEF max, done, asked
<1> HIDE DEF grow
<1>6. grow \in Nat /\ grow >= size /\ asked = done + grow /\ asked <= max /\ grow <= step
  BY <1>3, <1>4, <1>5
<1>7. desired = asked
  <2>1. asked \in Int /\ max \in Int
    BY <1>5, <1>6
  <2>2. desired = IF asked <= max THEN asked ELSE max
    BY <2>1, Pairs, Zenon DEF asked, max
  <2> QED BY <1>6, <2>2
<1> HIDE DEF desired
<1>8. done < desired /\ desired - done = grow
  BY <1>5, <1>6, <1>7
<1>9. Min({desired - done, step}) = grow
  <2>1. Min({grow, step}) = IF grow <= step THEN grow ELSE step
    BY <1>5, <1>6, Pairs
  <2> QED BY <1>6, <1>8, <2>1, Zenon
<1>10. NextGrowth = BestEffort(pmm, n)
  BY <1>2, <1>8, <1>9, Zenon DEF NextGrowth, desired, done, step, n
<1>11. n \in Nat \ {0} /\ grow <= n * PAGE_SIZE
  BY <1>6, CeilCovers
<1> HIDE DEF n
<1>12. NextGrowth = n
  BY <1>2, <1>10, <1>11, BestEffortFull, Zenon
<1>13. n * PAGE_SIZE \in Nat
  BY <1>11, BitmapAssumption
<1>14. size <= n * PAGE_SIZE
  BY <1>5, <1>6, <1>11, <1>13
<1> QED BY <1>11, <1>12, <1>14 DEF size

\* The pages of that iteration hold the request.
LEMMA GrowServes ==
  ASSUME HeapInv, Grow, request.op = "alloc", PAGE_SIZE % request.align = 0,
         Coming(heap, pmm, request) \/ Ready(heap, request)
  PROVE  Ready(heap', request)
<1> DEFINE n == NextGrowth
           got == alloc_pages(pmm, n)
           f == got.ret
           size == request.size
           align == request.align
           room == Min({n * PAGE_SIZE, heap.max_bytes - heap.committed_bytes})
           chunk == [base |-> f * PAGE_SIZE, current |-> f * PAGE_SIZE, end |-> f * PAGE_SIZE + room]
           C == heap.chunks
           D == Append(C, chunk)
<1>1. n # 0 /\ heap' = add_chunk(heap, f * PAGE_SIZE, n * PAGE_SIZE)
  BY DEF Grow
<1>2. heap \in HeapType /\ C \in Seq(Chunk) /\ pmm \in PmmType /\ limit \in Nat
  BY HeapTypes DEF HeapInv, Typed
<1>3. heap'.chunks = D
  <2> HIDE DEF f, n, room
  <2>1. heap' = [heap EXCEPT !.chunks = Append(@, chunk), !.committed_bytes = @ + room]
    BY <1>1, Zenon DEF add_chunk, room
  <2> QED BY <1>2, <2>1 DEF HeapType
<1>4. PICK m \in Nat : heap.max_bytes = m * PAGE_SIZE
  BY DEF HeapInv, FramesInv
<1>5. n \in Nat \ {0} /\ got.ret # None
  BY <1>1, <1>4, GrowthFits, ZenonT(40)
<1> HIDE DEF n
<1>6. f \in Nat
  BY <1>2, <1>5, GrantIsPage, Zenon DEF alloc_pages
<1> HIDE DEF f, room, chunk
<1>7. /\ D \in Seq(Chunk \cup {chunk}) /\ Len(D) = Len(C) + 1 /\ D[Len(C) + 1] = chunk
      /\ DOMAIN D = 1 .. Len(C) + 1 /\ DOMAIN C = 1 .. Len(C) /\ Len(C) \in Nat
      /\ Len(C) + 1 \in DOMAIN D
      /\ \A i \in DOMAIN C : i \in DOMAIN D /\ D[i] = C[i]
  <2>1. Appended(C, chunk, Chunk, D)
    BY <1>2, AppendFacts, Zenon
  <2> QED BY <2>1, Zenon DEF Appended
<1>8. CASE Ready(heap, request)
  <2>1. PICK i \in DOMAIN C : Fits(C[i], size, align)
    BY <1>8, Zenon DEF Ready
  <2>2. i \in DOMAIN D /\ D[i] = C[i]
    BY <1>7, Zenon
  <2> HIDE DEF C, D
  <2> QED BY <1>3, <2>1, <2>2, Zenon DEF Ready
<1>9. CASE Coming(heap, pmm, request)
  <2>1. size <= n * PAGE_SIZE /\ size <= heap.max_bytes - heap.committed_bytes
    BY <1>9, ComingGrows, Zenon DEF Coming, n
  <2>2. heap.max_bytes \in Nat /\ heap.committed_bytes \in Nat /\ PAGE_SIZE \in Nat
    BY <1>2, HeapTypes, BitmapAssumption
  <2>3. n * PAGE_SIZE \in Int /\ heap.max_bytes - heap.committed_bytes \in Int
    BY <1>5, <2>2
  <2>4. size <= room /\ room \in Int
    BY <2>1, <2>3, Pairs DEF room
  <2>5. align \in Nat \ {0} /\ size \in Nat
    BY HeapAssumption, Zenon DEF HeapInv, RequestInv
  <2> DEFINE base == f * PAGE_SIZE
  <2>6. align_up(base, align) = base /\ base \in Nat
    BY <1>6, <2>2, <2>5, PageAligned
  <2>7. chunk.current = base /\ chunk.end = base + room
    BY DEF chunk
  <2> HIDE DEF base, align, size
  <2>8. base + size <= base + room
    BY <2>4, <2>5, <2>6
  <2>9. Fits(chunk, size, align)
    BY <2>6, <2>7, <2>8, Zenon DEF Fits
  <2> DEFINE i == Len(C) + 1
  <2>10. i \in DOMAIN D /\ D[i] = chunk
    BY <1>7, Zenon
  <2> HIDE DEF D, i
  <2> QED BY <1>3, <2>9, <2>10, Zenon DEF Ready, size, align
<1> QED BY <1>8, <1>9, Zenon

LEMMA ServeInit == ASSUME Init PROVE ServeInv
<1>1. heap = NewHeap /\ request.op # "alloc" /\ reply.op # "alloc"
  BY DEF Init, Idle
<1>2. heap.target_bytes = heap.max_bytes
  BY <1>1 DEF NewHeap
<1> QED BY <1>1, <1>2, Zenon DEF ServeInv, OnItsWay, OneStepRequestsServed

\* A step that answers nothing and begins no allocation.
LEMMA ServeQuiet ==
  ASSUME ServeInv, reply' = reply, request'.op # "alloc", heap'.target_bytes = heap'.max_bytes
  PROVE  ServeInv'
BY Zenon DEF ServeInv, OnItsWay, OneStepRequestsServed

\* An answer is served when it ought to be.
LEMMA ServeAnswer ==
  ASSUME HeapInv, ServeInv, NEW size \in Sizes, NEW align \in Aligns, NEW feasible,
         (feasible /\ size <= HEAP_GROW_STEP_LARGE_BYTES /\ PAGE_SIZE % align = 0) =>
           try_alloc_from_chunks(heap, size, align).ret # None,
         Answer(size, align, try_alloc_from_chunks(heap, size, align), feasible),
         request'.op # "alloc"
  PROVE  ServeInv'
<1> DEFINE result == try_alloc_from_chunks(heap, size, align)
           served == result.ret # None
<1>1. heap' = result.heap
  BY Zenon DEF Answer
<1>2. reply' = [op |-> "alloc", size |-> size, align |-> align, served |-> served, feasible |-> feasible]
  BY Zenon DEF Answer
<1>3. heap \in HeapType
  BY Zenon DEF HeapInv, Typed
<1>4. \/ result.ret = None /\ result.heap = heap
      \/ BlockFound(heap, size, align, result)
  BY <1>3, TryAlloc, Zenon
<1>5. heap'.target_bytes = heap.target_bytes /\ heap'.max_bytes = heap.max_bytes
  <2>1. CASE result.heap = heap
    BY <1>1, <2>1, Zenon
  <2>2. CASE BlockFound(heap, size, align, result)
    <3>1. PICK idx \in DOMAIN heap.chunks :
            result.heap = [heap EXCEPT !.chunks[idx].current = result.ret + size,
                                       !.active_chunk = idx - 1]
      BY <2>2, Zenon DEF BlockFound
    <3> HIDE DEF result
    <3> QED BY <1>1, <1>3, <3>1 DEF HeapType
  <2> QED BY <1>4, <2>1, <2>2, Zenon
<1>6. /\ reply'.size = size /\ reply'.align = align
      /\ reply'.served = served /\ reply'.feasible = feasible
  <2> HIDE DEF served
  <2> QED BY <1>2
<1>7. OneStepRequestsServed'
  BY <1>6, Zenon DEF OneStepRequestsServed
<1> QED BY <1>5, <1>7, Zenon DEF ServeInv, OnItsWay

LEMMA ServeAlloc ==
  ASSUME HeapInv, ServeInv, NEW size \in Sizes, NEW align \in Aligns, Alloc(size, align)
  PROVE  ServeInv'
<1> DEFINE result == try_alloc_from_chunks(heap, size, align)
           step == GrowthStep(size)
           budget == heap.target_bytes - heap.committed_bytes
           desired == heap.committed_bytes + Min({budget, Max({size, step})})
           room == Room(size, bytes_to_pages_ceil(Min({step, budget})))
<1>1. request = Idle /\ UNCHANGED <<pmm, limit, frames, others>>
  BY Zenon DEF Alloc
<1>2. CASE result.ret = None /\ budget > 0
  <2>1. /\ UNCHANGED <<heap, reply, blocks>>
        /\ request' = [op |-> "alloc", size |-> size, align |-> align, step |-> step,
                       desired |-> desired, feasible |-> room]
    BY <1>2, Zenon DEF Alloc
  <2>2. /\ request'.size = size /\ request'.align = align /\ request'.step = step
        /\ request'.desired = desired /\ request'.feasible = room
    <3> HIDE DEF step, desired, room
    <3> QED BY <2>1
  <2>3. heap' = heap /\ reply' = reply /\ pmm' = pmm /\ limit' = limit
    BY <1>1, <2>1
  <2>4. ASSUME Modest(request')
        PROVE  Coming(heap, pmm, request)'
    <3>1. room /\ size <= HEAP_GROW_STEP_LARGE_BYTES
      BY <2>2, <2>4, Zenon DEF Modest
    <3>2. /\ budget >= size /\ Len(heap.chunks) < MAX_HEAP_CHUNKS
          /\ alloc_pages(pmm, bytes_to_pages_ceil(Min({step, budget}))).ret # None
      BY <3>1, Zenon DEF Room
    <3>3. step \in Nat \ {0} /\ size \in Nat /\ size <= step
      BY <3>1, StepCovers, ZenonT(40)
    <3>4. Max({size, step}) = step
      <4> HIDE DEF step
      <4>1. size \in Int /\ step \in Int
        BY <3>3
      <4>2. Max({size, step}) = IF size >= step THEN size ELSE step
        BY <4>1, Pairs, Zenon
      <4> QED BY <3>3, <4>2
    <3>5. budget = heap.max_bytes - heap.committed_bytes
      BY Zenon DEF ServeInv
    <3>6. budget \in Int /\ size <= budget
      BY <3>2, <3>3, HeapTypes DEF HeapInv, Typed
    <3>7. request'.desired = heap.committed_bytes + Min({budget, step})
      BY <2>2, <3>4, Zenon
    <3> HIDE DEF step
    <3> QED BY <2>2, <2>3, <3>2, <3>3, <3>5, <3>6, <3>7, Zenon DEF Coming, alloc_pages
  <2> QED BY <2>3, <2>4, Zenon DEF ServeInv, OnItsWay, OneStepRequestsServed
<1>3. CASE ~(result.ret = None /\ budget > 0)
  <2>1. Answer(size, align, result, FALSE) /\ request' = request
    BY <1>3, Zenon DEF Alloc
  <2>2. request'.op # "alloc"
    BY <1>1, <2>1 DEF Idle
  <2> QED BY <2>1, <2>2, ServeAnswer, Zenon
<1> QED BY <1>2, <1>3, Zenon

LEMMA ServeRetry == ASSUME HeapInv, ServeInv, Retry PROVE ServeInv'
<1> DEFINE size == request.size
           align == request.align
           result == try_alloc_from_chunks(heap, size, align)
<1>1. /\ request.op = "alloc" /\ NextGrowth = 0 /\ request' = Idle
      /\ Answer(size, align, result, request.feasible)
  BY Zenon DEF Retry
<1>2. size \in Sizes /\ align \in Aligns /\ heap \in HeapType
  BY <1>1, Zenon DEF HeapInv, RequestInv, Typed
<1>3. ASSUME Modest(request)
      PROVE  result.ret # None
  <2>1. ~Coming(heap, pmm, request)
    BY <1>1, ComingGrows
  <2>2. Ready(heap, request)
    BY <1>1, <1>3, <2>1, Zenon DEF ServeInv, OnItsWay
  <2> QED BY <1>2, <2>2, ChunkFound, Zenon DEF Ready
<1>4. request'.op # "alloc"
  BY <1>1 DEF Idle
<1> QED BY <1>1, <1>2, <1>3, <1>4, ServeAnswer, Zenon DEF Modest

LEMMA ServeGrow == ASSUME HeapInv, ServeInv, Grow PROVE ServeInv'
<1>1. UNCHANGED <<limit, request, reply, blocks, others>>
  BY Zenon DEF Grow
<1>2. request' = request /\ reply' = reply
  BY <1>1
<1>3. heap'.target_bytes = heap.target_bytes /\ heap'.max_bytes = heap.max_bytes
  <2>1. PICK base, bytes : heap' = add_chunk(heap, base, bytes)
    BY Zenon DEF Grow
  <2>2. heap \in HeapType
    BY Zenon DEF HeapInv, Typed
  <2> QED BY <2>1, <2>2 DEF add_chunk, HeapType
<1>4. ASSUME request.op = "alloc", Modest(request)
      PROVE  Ready(heap', request')
  <2>1. Coming(heap, pmm, request) \/ Ready(heap, request)
    BY <1>4, Zenon DEF ServeInv, OnItsWay
  <2>2. PAGE_SIZE % request.align = 0
    BY <1>4, Zenon DEF Modest
  <2> QED BY <1>2, <1>4, <2>1, <2>2, GrowServes, Zenon
<1> QED BY <1>2, <1>3, <1>4, Zenon DEF ServeInv, OnItsWay, OneStepRequestsServed

LEMMA ServeStep == ASSUME HeapInv, ServeInv, [Next]_vars PROVE ServeInv'
<1>1. CASE HeapInit
  <2> DEFINE fallback == limit # U64_MAX
             max == Min({pmm.tracked_pages * PAGE_SIZE,
                         IF fallback THEN FALLBACK_MAX_HEAP_BYTES ELSE RESERVED_VIRTUAL_HEAP_BYTES})
  <2>1. /\ heap' = [NewHeap EXCEPT !.max_bytes = max, !.target_bytes = max]
        /\ request'.op = "init" /\ reply' = reply
    BY <1>1 DEF HeapInit
  <2> HIDE DEF max
  <2>2. heap'.target_bytes = heap'.max_bytes
    BY <2>1 DEF NewHeap
  <2>3. request'.op # "alloc"
    BY <2>1
  <2> QED BY <2>1, <2>2, <2>3, ServeQuiet, Zenon
<1>2. CASE HeapInitDone
  <2> DEFINE ready == heap.chunks # <<>>
  <2>1. /\ heap' = [heap EXCEPT !.initialized = ready] /\ reply' = reply
        /\ request' = IF ready THEN Idle ELSE [op |-> "panic"]
    BY <1>2 DEF HeapInitDone
  <2> HIDE DEF ready
  <2>2. heap'.target_bytes = heap'.max_bytes /\ request'.op # "alloc"
    BY <2>1 DEF ServeInv, HeapInv, Typed, HeapType, Idle
  <2> QED BY <2>1, <2>2, ServeQuiet, Zenon
<1>3. CASE OtherAlloc \/ \E page \in others : OtherFree(page)
  <2>1. request = Idle /\ request' = request /\ reply' = reply /\ heap' = heap
    BY <1>3 DEF OtherAlloc, OtherFree
  <2>2. request'.op # "alloc"
    BY <2>1 DEF Idle
  <2> QED BY <2>1, <2>2, ServeQuiet, Zenon DEF ServeInv
<1>4. CASE UNCHANGED vars
  <2>1. UNCHANGED <<pmm, limit, heap, request, reply>>
    BY <1>4 DEF vars
  <2> QED BY <2>1 DEF ServeInv, OnItsWay, Coming, Ready, OneStepRequestsServed, alloc_pages
<1> QED BY <1>1, <1>2, <1>3, <1>4, ServeAlloc, ServeGrow, ServeRetry, Zenon DEF Next, Panicked

\* A request of at most one large growth step is refused only for lack of
\* memory: the iteration of grow_heap_locked that follows obtains a chunk that
\* holds it, and the second search finds that chunk from whichever chunk is active.
THEOREM HeapServes == Spec => []OneStepRequestsServed
<1>1. Init => HeapInv /\ ServeInv
  BY HeapInitHolds, ServeInit
<1>2. (HeapInv /\ ServeInv) /\ [Next]_vars => (HeapInv /\ ServeInv)'
  BY HeapStep, ServeStep
<1>3. ServeInv => OneStepRequestsServed
  BY DEF ServeInv
<1> QED BY <1>1, <1>2, <1>3, PTL DEF Spec
=============================================================================
