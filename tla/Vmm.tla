--------------------------------- MODULE Vmm ---------------------------------
(***************************************************************************)
(* The virtual memory manager of seed/saios/src/vmm.rs on its own page     *)
(* tables: the list of mappings, the cursor for kernel addresses, and the  *)
(* page tables that must agree with the list.  Every operation runs under  *)
(* the manager's lock and no thread switch can happen inside it.           *)
(***************************************************************************)
EXTENDS FrameBitmap, Sequences, SequencesExt

-----------------------------------------------------------------------------
(***************************************************************************)
(* The page-table code of seed/saios/src/vmm.rs: walking, mapping and      *)
(* unmapping one page in four levels of tables that are reached through a  *)
(* recursive slot of the root table.                                       *)
(*                                                                         *)
(* The machine is a record: the contents of the frames, the TLB entries    *)
(* for the windows of the recursive slot, and the physical memory manager. *)
(* A table's window is named by the indices that lead to the table.  The   *)
(* CPU may keep a window's translation until it is evicted (keeps): invlpg *)
(* is issued for the mapped page only, never for a window.  lost is a      *)
(* history variable, the frames that were dropped without being freed.     *)
(*                                                                         *)
(* Virtual and physical pages are numbers; a virtual page is its offset    *)
(* from KERNEL_VIRT_BASE.                                                  *)
(***************************************************************************)
CONSTANTS
  Fanout,      \* entries per table, for the levels 4, 3, 2, 1
  Root,        \* the frame of the root table (PML4)
  Junk         \* what an uninitialized frame holds in an entry

VirtPages == 0 .. Fanout[1] * Fanout[2] * Fanout[3] * Fanout[4] - 1

Slots == 0 .. Max({Fanout[k] : k \in 1 .. 4}) - 1

level_indices(v) ==
  << v \div (Fanout[2] * Fanout[3] * Fanout[4]),
     (v \div (Fanout[3] * Fanout[4])) % Fanout[2],
     (v \div Fanout[4]) % Fanout[3],
     v % Fanout[4] >>

\* The window of the level-k table for page v (k = 0: the root).
WindowPath(v, k) == SubSeq(level_indices(v), 1, k)

Windows == {WindowPath(v, k) : v \in VirtPages, k \in 1 .. 3}

\* An entry of the table in frame f; outside the tracked memory nothing is read.
Entry(mem, f, i) == IF f \in DOMAIN mem THEN mem[f][i] ELSE None

Cleared == [i \in Slots |-> None]

\* What the CPU finds following path from the root: a frame, None, or Junk.
Walk(mem, path) ==
  FoldLeft(LAMBDA f, i : IF f \in DOMAIN mem THEN mem[f][i] ELSE f, Root, path)

\* pml4_table_ptr, pdpt_table_ptr, pd_table_ptr, pt_table_ptr: the frame the
\* kernel reaches through a window.
TableAt(hw, path) ==
  IF path \in DOMAIN hw.tlb THEN hw.tlb[path] ELSE Walk(hw.mem, path)

\* An access to a window may leave its translation in the TLB.
Touch(hw, path) ==
  IF path = <<>> \/ ~hw.keeps \/ path \in DOMAIN hw.tlb THEN hw
  ELSE [hw EXCEPT !.tlb = [q \in DOMAIN @ \cup {path} |->
                             IF q = path THEN Walk(hw.mem, path) ELSE @[q]]]

ClearTable(hw, path) == [hw EXCEPT !.mem[TableAt(hw, path)] = Cleared]

alloc_page(pmm) == alloc_pages_below(pmm, 1, U64_MAX)

-----------------------------------------------------------------------------
(* map_page_hw.                                                            *)

\* A new table is linked at entry i, and cleared through its new window.
LinkTable(hw, table, i, window, a) ==
  IF a.ret = None THEN [hw |-> hw, ok |-> FALSE]
  ELSE [hw |-> ClearTable(Touch([hw EXCEPT !.pmm = a.pmm, !.mem[table][i] = a.ret], window),
                          window),
        ok |-> TRUE]

\* Entry i of a table names a table, or is made to.
EnsureEntry(hw, table, i, window) ==
  IF Entry(hw.mem, table, i) # None THEN [hw |-> hw, ok |-> TRUE]
  ELSE LinkTable(hw, table, i, window, alloc_page(hw.pmm))

EnsureBelow(hw, v, k) ==
  EnsureEntry(hw, TableAt(hw, WindowPath(v, k - 1)), level_indices(v)[k], WindowPath(v, k))

\* The level-k table for page v exists, unless a level above has failed.
EnsureTable(r, v, k) ==
  IF r.ok THEN EnsureBelow(Touch(r.hw, WindowPath(v, k - 1)), v, k) ELSE r

\* An entry that is present is not overwritten.
SetEntry(hw, pt, i, phys) ==
  IF Entry(hw.mem, pt, i) # None THEN [hw |-> hw, ok |-> FALSE]
  ELSE [hw |-> [hw EXCEPT !.mem[pt][i] = phys], ok |-> TRUE]

SetPage(hw, v, phys) ==
  SetEntry(hw, TableAt(hw, WindowPath(v, 3)), level_indices(v)[4], phys)

map_page_hw(machine, v, phys) ==
  LET tables == FoldLeft(LAMBDA r, k : EnsureTable(r, v, k),
                         [hw |-> machine, ok |-> TRUE], <<1, 2, 3>>)
      Finish(r) == IF r.ok THEN SetPage(Touch(r.hw, WindowPath(v, 3)), v, phys) ELSE r
  IN  Finish(tables)

-----------------------------------------------------------------------------
(* unmap_page_hw.                                                          *)

has_any_present_entries(mem, f) == \E i \in Slots : Entry(mem, f, i) # None

\* The windows are read on the way down.
TouchAll(hw, v) ==
  FoldLeft(LAMBDA m, k : Touch(m, WindowPath(v, k)), hw, <<1, 2, 3>>)

translate_hw(hw, v) == Walk(hw.mem, level_indices(v))

\* Clear the entry for page v in the level-k table (k = 3: the page table), and
\* go on with the level above when the table is now empty.
ClearEntry(hw, v, k) ==
  [hw EXCEPT !.mem[TableAt(hw, WindowPath(v, k))][level_indices(v)[k + 1]] = None]

Emptied(hw, v, k) == ~has_any_present_entries(hw.mem, TableAt(hw, WindowPath(v, k)))

\* The entry that links the level-k table is cleared; the frame is not freed.
DropTable(hw, v, k) ==
  [ClearEntry(hw, v, k - 1) EXCEPT !.lost = @ \cup {TableAt(hw, WindowPath(v, k))}]

\* From the page table up, as long as the table is empty.
Trim(hw, v) ==
  FoldLeft(LAMBDA r, k : IF r.go /\ Emptied(r.hw, v, k)
                         THEN [r EXCEPT !.hw = DropTable(@, v, k)]
                         ELSE [r EXCEPT !.go = FALSE],
           [hw |-> hw, go |-> TRUE], <<3, 2, 1>>).hw

IsPresent(hw, v, k) ==
  Entry(hw.mem, TableAt(hw, WindowPath(v, k - 1)), level_indices(v)[k]) # None

\* Nothing happens unless all four entries on the way are present.
unmap_page_hw(machine, v) ==
  IF \A k \in 1 .. 4 : IsPresent(machine, v, k)
  THEN Trim(ClearEntry(TouchAll(machine, v), v, 3), v)
  ELSE machine

-----------------------------------------------------------------------------
\* The frames of the tables in use: those some window leads to, and the root.
TableFrames(hw) ==
  {Root} \cup ({Walk(hw.mem, path) : path \in Windows} \ {None, Junk})

-----------------------------------------------------------------------------
(* The manager.                                                            *)

CONSTANTS
  MaxPages,     \* largest number of pages a call asks for
  DevicePages,  \* physical pages of devices, outside the tracked memory
  MapTargets,   \* virtual pages that clients pass to map
  UnmapTargets  \* virtual pages that clients pass to unmap

ASSUME VmmAssumption ==
  /\ MaxPages \in Nat
  /\ DevicePages \cap Pages = {}
  /\ MapTargets \cup UnmapTargets \subseteq VirtPages
  /\ Root \in Pages

VARIABLES
  mappings,          \* the recorded mappings, in order
  next_kernel_virt,  \* the cursor
  hw                 \* frames, TLB and physical memory manager

vars == <<mappings, next_kernel_virt, hw>>

-----------------------------------------------------------------------------
(* The functions of vmm.rs on the machine.                                 *)

EndOfSpace == Cardinality(VirtPages)

\* checked_range_end: None when the end of the range is not an address, which
\* also refuses a range that reaches exactly to the end of the address space.
checked_range_end(v, pages) == IF v + pages >= EndOfSpace THEN None ELSE v + pages

mapping_range(m) == m.virt_start .. m.virt_start + m.pages - 1

ranges_overlap(v, pages) ==
  \E i \in DOMAIN mappings : mapping_range(mappings[i]) \cap (v .. v + pages - 1) # {}

\* The n-th round of the loop of map, after a page that was mapped.
MapOne(r, one) ==
  [hw |-> one.hw, ok |-> one.ok, mapped |-> IF one.ok THEN r.mapped + 1 ELSE r.mapped]

Upto(n) == [i \in 1 .. n |-> i - 1]

\* The loop of map, up to the first page that fails.
MapPages(machine, v, phys, pages) ==
  FoldLeft(LAMBDA r, n : IF r.ok THEN MapOne(r, map_page_hw(r.hw, v + n, phys + n)) ELSE r,
           [hw |-> machine, ok |-> TRUE, mapped |-> 0], Upto(pages))

\* The loops that unmap count pages from v, in order.
UnmapPages(machine, v, count) ==
  FoldLeft(LAMBDA m, n : unmap_page_hw(m, v + n), machine, Upto(count))

RollBack_nothing(r, v) == r

\* A failure unmaps the pages that were mapped before it.
RollBack(r, v) == IF r.ok THEN r ELSE [r EXCEPT !.hw = UnmapPages(@, v, r.mapped)]

\* map, without the record it pushes on success.
map(machine, v, phys, pages) ==
  IF checked_range_end(v, pages) = None \/ ranges_overlap(v, pages)
  THEN [hw |-> machine, ok |-> FALSE]
  ELSE RollBack(MapPages(machine, v, phys, pages), v)

Mapping(v, phys, pages, owned) ==
  [virt_start |-> v, phys_start |-> phys, pages |-> pages, owned_physical |-> owned]

-----------------------------------------------------------------------------
(* The operations.                                                         *)

Init ==
  /\ mappings = <<>>
  /\ next_kernel_virt = 0
  /\ \E keeps \in BOOLEAN : hw =
          [mem |-> [f \in Pages |-> IF f = Root THEN Cleared ELSE [i \in Slots |-> Junk]],
           tlb |-> << >>, keeps |-> keeps, lost |-> {},
           pmm |-> [init({[base |-> 0, length |-> MAX_PAGES * PAGE_SIZE, usable |-> TRUE]})
                      EXCEPT !.used = @ \cup {Root}, !.free_pages = @ - 1]]

Map(v, phys, pages) ==
  \E r \in {map(hw, v, phys, pages)} :
    /\ hw' = r.hw
    /\ mappings' = IF r.ok THEN Append(mappings, Mapping(v, phys, pages, FALSE)) ELSE mappings
    /\ UNCHANGED next_kernel_virt

\* A failed map gives the addresses back.
map_physical_anywhere(phys, pages) ==
  LET v   == next_kernel_virt
      end == checked_range_end(v, pages)
  IN  /\ end # None
      /\ \E r \in {map(hw, v, phys, pages)} :
           /\ hw' = r.hw
           /\ mappings' = IF r.ok THEN Append(mappings, Mapping(v, phys, pages, FALSE))
                          ELSE mappings
           /\ next_kernel_virt' = IF r.ok THEN end ELSE v

GiveBack_nothing(machine, frame, pages) == machine

GiveBack(machine, frame, pages) ==
  [machine EXCEPT !.pmm = free_pages_range(@, frame * PAGE_SIZE, pages)]

\* The cursor is not given back; the frames are, except when the address space
\* is exhausted.
alloc_and_map(pages) ==
  LET v   == next_kernel_virt
      end == checked_range_end(v, pages)
  IN  \E a \in {alloc_pages_below(hw.pmm, pages, U64_MAX)} :
        /\ a.ret # None
        /\ IF end = None
           THEN /\ hw' = [hw EXCEPT !.pmm = a.pmm,
                                    !.lost = @ \cup (a.ret .. a.ret + pages - 1)]
                /\ UNCHANGED <<mappings, next_kernel_virt>>
           ELSE \E r \in {map([hw EXCEPT !.pmm = a.pmm], v, a.ret, pages)} :
                  /\ next_kernel_virt' = end
                  /\ IF r.ok
                     THEN /\ mappings' = Append(mappings, Mapping(v, a.ret, pages, TRUE))
                          /\ hw' = r.hw
                     ELSE /\ hw' = GiveBack(r.hw, a.ret, pages)
                          /\ UNCHANGED mappings

FreeOwned(machine, m) ==
  IF m.owned_physical
  THEN [machine EXCEPT !.pmm = free_pages_range(@, m.phys_start * PAGE_SIZE, m.pages)]
  ELSE machine

unmap(v) ==
  \E i \in DOMAIN mappings :
    /\ mappings[i].virt_start = v
    /\ \A j \in 1 .. i - 1 : mappings[j].virt_start # v
    /\ mappings' = RemoveAt(mappings, i)
    /\ hw' = FreeOwned(UnmapPages(hw, v, mappings[i].pages), mappings[i])
    /\ UNCHANGED next_kernel_virt

\* The CPU drops a window's translation.
Evict(path) ==
  /\ path \in DOMAIN hw.tlb
  /\ hw' = [hw EXCEPT !.tlb = [q \in DOMAIN @ \ {path} |-> @[q]]]
  /\ UNCHANGED <<mappings, next_kernel_virt>>

Next ==
  \/ \E pages \in 1 .. MaxPages :
       \/ alloc_and_map(pages)
       \/ \E phys \in DevicePages :
            \/ map_physical_anywhere(phys, pages)
            \/ \E v \in MapTargets : Map(v, phys, pages)
  \/ \E v \in UnmapTargets : unmap(v)
  \/ \E path \in DOMAIN hw.tlb : Evict(path)

Spec == Init /\ [][Next]_vars

-----------------------------------------------------------------------------
(* Properties.                                                             *)

\* The frame that the list of mappings promises for page v.
Promised(v) ==
  LET covering == {i \in DOMAIN mappings : v \in mapping_range(mappings[i])}
  IN  IF covering = {} THEN None
      ELSE LET m == mappings[CHOOSE i \in covering : TRUE]
           IN  m.phys_start + (v - m.virt_start)

InStep == \A v \in VirtPages : translate_hw(hw, v) = Promised(v)

\* A CPU that keeps translations of windows reaches the old table through them
\* once a table has been dropped; the properties of the tables hold until then,
\* and always for a CPU that does not.
WindowsAreFresh == hw.keeps => hw.lost = {}

\* The page tables and the list of mappings say the same of every address, after
\* any sequence of operations, the ones that fail half-way and roll back
\* included: translate() answers what map() was asked for, and nothing else is
\* mapped.
TablesMatchMappings == WindowsAreFresh => InStep

Owned == {i \in DOMAIN mappings : mappings[i].owned_physical}
FramesOf(i) == mappings[i].phys_start .. mappings[i].phys_start + mappings[i].pages - 1

\* No frame has two uses: it is one page table, reached through one window, or
\* belongs to one page of one mapping that owns its memory, and the physical
\* memory manager has it marked as used all the while.
OneUsePerFrame ==
  /\ TableFrames(hw) \subseteq hw.pmm.used
  /\ \A i \in Owned : /\ FramesOf(i) \subseteq hw.pmm.used
                      /\ FramesOf(i) \cap TableFrames(hw) = {}
                      /\ \A j \in Owned \ {i} : FramesOf(i) \cap FramesOf(j) = {}
  /\ \A p, q \in Windows :
       LET table == Walk(hw.mem, p)
       IN  table # None /\ table = Walk(hw.mem, q) => p = q

\* Failed and rolled-back calls give back every frame they took: a frame in use
\* is a table, belongs to a mapping, or was dropped in one of the two places
\* that do so (trimming, and alloc_and_map at the end of the address space), and
\* it has one use only.
FramesAreAccounted ==
  WindowsAreFresh =>
    /\ hw.pmm.used \ {0} = TableFrames(hw) \cup hw.lost \cup UNION {FramesOf(i) : i \in Owned}
    /\ OneUsePerFrame
==============================================================================
