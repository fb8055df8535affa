# SAIOS: a TLA+ verification project

SAIOS is a small x86_64 operating system in Rust (`src/seed/saios`, with a hardware
layer in `src/hal` and a UEFI loader in `src/boot`). This project models the parts of
the kernel that keep state, checks them with TLC on small instances, and proves with TLAPS,
for every size, the safety properties of the physical memory manager, the heap, the
scheduler, the service framework, the process manager with its loader, and the virtual
filesystem with its volumes. Every definition is translated from the Rust source;
`PROJECT.json` maps each one to its lines and lists components, runs, mutants, findings,
hazards and theorems. Paths below are relative to `src/seed/saios/src` unless they start
with `docs/`, `hal` or `boot`.

## 1. The system

One CPU runs kernel threads on one address space. The facts that shape the models:

* **Threads switch only inside `scheduler::yield_now`.** The timer interrupt sets a
  flag (`needs_reschedule`) that code polls with `maybe_preempt`; it never switches by
  itself. A call that neither yields nor sleeps is therefore atomic with respect to
  other threads, and is one TLA+ step.
* **The timer interrupt (IRQ 0) is the only true concurrency.** It can arrive between
  any two instructions while the interrupt flag is set. The flag is not part of a
  thread's saved context, so only the bootstrap thread ever runs with it set.
* **Every subsystem has its own spin lock** (an `AtomicBool`). A lock held across a
  yield is a deadlock; a lock held by a loop that never ends stops its subsystem.
* **Nothing is persistent.** Disks are RAM images created by every storage scan, so
  there is no crash recovery to model.
* **Errors are values**: calls return `Err` after they may have changed state. Partial
  failure is the main source of trouble, and the models keep every early return.
* **Devices are polled.** Keyboard, mouse, USB and serial input wait in queues until the
  shell's loop calls `poll_input`; start-up dialogues give up after a fixed number of
  reads.

### Components

| component | state | what is hard |
|---|---|---|
| physical memory manager (`pmm.rs`, `driver/memory.rs`) | page bitmap, `free_pages`, `next_hint` | counter and bitmap are kept separately; wrap-around search; unaligned, overlapping and huge regions |
| virtual memory manager (`vmm.rs`, hal `paging.rs`) | page tables, mapping list, address cursor | failure in the middle of a range; trimming of empty tables; TLB entries of the recursive windows |
| kernel heap (`heap.rs`) | chunk table, active chunk, byte counters | best-effort growth, alignment at chunk ends, full chunk table |
| scheduler and timer (`scheduler.rs`, `timer.rs`) | thread table, run queue, current, quantum | interrupts against the scheduler's data; threads popped and not queued again; idle |
| service framework (`ksf.rs`, `shell/service.rs`) | service states, one lock | a start callback yields with the lock held; order of dependencies; failing callbacks |
| event bus (`kernel/event.rs`) | bounded log, counters | the log forgets, the counters must not |
| process manager and loader (`kernel/process.rs`, `kernel/dynamic_linker.rs`, `shell/programs.rs`, `kernel/package_image.rs`) | process records, pids, program files | a program ends its own process; a link fails after the record exists; images change under the loader |
| VFS, tmpfs and storage (`vfs.rs`, `driver/storage.rs`) | nodes, cwd, descriptors, mounts, volumes | rename against the tree's shape, removal against descriptors and cwd, saving to a partition that is too small |
| SAIFS, object manager, providers (`saifs.rs`, `object_manager.rs`, `provider.rs`) | mounts, handles, event log, objects | nested mounts by several spellings; handles that outlive files; a log that overflows |
| drivers, devices, KOM, recovery (`kernel/driver.rs`, `kernel/device.rs`, `kernel/object/*`, `kernel/sairu.rs`) | two registries with one content | hooks that register again; reload in registry order; faults |
| PCI, USB, network (`pci`, `driver/*`) | device lists, leases, DMA pages | rescans that rebuild lists; a probe that fails half-way |
| console (`console/*`, `shell/mod.rs` completion) | grid, framebuffer, line editor, decoders | bytes of several devices interleaved; the timer draws while a thread prints; scrollback |
| shell (`shell/*`) | session, aliases, capture, pipes | redirections opened before a command fails; scripts that run scripts; three layers of quoting |
| graphics, ACPI, object ABI, loader, hal | none that lasts | see section 6 |

The modelled components interact like this: heap and virtual memory manager take frames
from the physical memory manager; the service framework starts the shell thread through
the scheduler; the shell thread drives the process manager, the VFS, SAIFS, the driver
manager and the service framework; process and driver managers publish to the event bus;
the VFS routes paths to the storage driver, and SAIFS routes paths to the VFS and, for
`/sys`, to the object manager.

## 2. Modules

Arrows are EXTENDS: a component's operators are written on its record, and the module of
the component that calls it uses them where the code makes the call.

| module | models | role |
|---|---|---|
| `FrameBitmap` | `driver/memory.rs`, `pmm.rs` | the allocator's functions as operators on its record |
| `Pmm` → `FrameBitmap` | the allocator as a component | every sequence of calls; refines `FrameAllocator` |
| `FrameAllocator` | nothing: the promise | abstract specification: grant whenever a run is free, refuse only when none is |
| `Vmm` → `FrameBitmap` | `vmm.rs` | page-table code with the TLB of the recursive windows as operators on the machine (frames, TLB, allocator); map, map anywhere, alloc and map, unmap |
| `Heap` → `FrameBitmap` | `heap.rs` | alloc and init with the growth loop step by step, other clients of the frames beside it |
| `Scheduler` | `scheduler.rs`, `timer.rs`, `without_interrupts`, idle loop | threads, run queue, interrupt flag, timer interrupts |
| `Ksf` | `ksf.rs`, `shell/service.rs`, `sairu::recover` | bootstrap thread and shell thread around the framework's lock |
| `EventBus` | `kernel/event.rs` | operators on the bus |
| `Loader` | program search, image formats, linker, package | functions of the files |
| `Process` → `EventBus`, `Loader` | `kernel/process.rs` | shell thread, programs, changing files |
| `Tmpfs`, `Storage` → `Tmpfs` | `TmpFs` of `vfs.rs`, `driver/storage.rs` | tree and volume operators |
| `Vfs` → `Storage` | `vfs.rs` with cp, mv, mount, umount, format | the file commands and system calls |
| `ObjectManager` | `provider.rs`, `object_manager.rs` | what the kernel shows of itself, objects |
| `Saifs` → `Vfs`, `ObjectManager` | `saifs.rs` | mounts, handles, events and subscriptions over both, beside direct calls of the VFS |
| `Pci`, `Network` → `Pci`, `UsbHost` → `Network` | `pci/mod.rs`, network drivers, `driver/usb.rs` | functions on one record with one field per static |
| `Drivers` → `UsbHost`, `EventBus` | `kernel/object/*`, `kernel/driver.rs`, `kernel/device.rs`, `sairu.rs`, boot order of `main.rs` | object registry and its ring; boot, then driver, network and USB commands and recovery |
| `Ps2`, `InputPorts` → `Ps2` | `console/keyboard.rs`, `mouse.rs`, USB HID of `driver/usb.rs`, `console/serial.rs` | the 8042 controller and the four decoders |
| `InputBuffer` | `console/input.rs`, completion of `shell/mod.rs` | line editor |
| `FramebufferConsole`, `ConsoleGrid` | `console/framebuffer.rs`, `console/mod.rs` | what each cell shows; what a key event does |
| `Console` → all of these | the shell's polling loop (`shell/engine.rs`) | devices, output and timer ticks in every order |
| `Parser`, `ShellCommands` → `Parser`, `Shell` → `ShellCommands` | `shell/parser.rs`, `regex.rs`, `session.rs`, `native.rs`, `dispatcher.rs`, `engine.rs` | statements, pipelines, redirections, scripts, aliases |
| `FrameBitmapProofs`, `PmmProofs`, `HeapProofs`, `SchedulerProofs`, `KsfProofs`, `ProcessProofs`, `StorageProofs`, `VfsProofs` → `StorageProofs` | | theorems (section 5) |

`MC*` modules only define constants for TLC. A definition whose name ends in a suffix
such as `_keeps_hint` or `_no_padding` stands directly before the definition it is a
wrong version of; the specifications never use it. It shows that a property notices the
mistake: with the wrong version in place TLC reports the property violated.

How state corresponds to the code:

* **`Pmm`**: the bitmap is the set `used`; the other fields keep their names. Arithmetic
  on addresses saturates and wraps at `U64_MAX` as in the code. `held`, `reserved`,
  `map` and `reply` are history.
* **`Vmm`**: a frame is a function from slots to entries. `EARLY_CR3_SWITCH_ENABLED` is
  false in `main.rs`, so the running kernel stays on the firmware's tables; the model is
  of the manager on its own tables, which is what its code assumes. Flags of entries
  are left out: no operation reads them back. `keeps` says which kind of CPU it is, `lost`
  is history.
* **`Heap`**: one step per iteration of `grow_heap_locked`; `request` is the call that
  holds the lock. `dealloc` does nothing in the code and is no action. `blocks`, `frames`,
  `others` and `request.feasible` are history.
* **`Scheduler`**: `pc` is where each thread is, at the granularity of the places where
  an interrupt can make a difference; `saved` is the local of `without_interrupts` that
  lives on the thread's stack.
* **`Ksf`**: a call is one step, except that `start_all` is one step per service, so that
  the yield in the shell's start callback lands in the middle of it.
* **`Process`**: programs run on the caller's stack, so `spawn` is two steps with the
  program's own kills in between. Whether an image links follows from the files, which
  commands and programs change.
* **`Vfs`**: a path is a sequence of names, absolute or not. A tree of a volume maps
  paths to nodes. `hung` records that a call went into the endless walk of
  `path_for_inode`. `last` is history.
* **`Saifs`**: providers other than the VFS are fixed trees that refuse changes, like
  those of `saifs/tests.rs`. A session may call the VFS directly, through the namespace, or
  both; where a volume is mounted it does not use the namespace. A handle's `written` and
  `alone` are history. The object manager's event log, texts that only a command prints, is
  left out.
* **`Drivers`**: `k` is a record with one field per static. A hook is a list of calls that
  `Perform` runs up to the first that fails; what the hardware answers a probe is chosen.
* **`Console`**: `hw` is the 8042's output queue with the source of each byte. `held`,
  `expect`, `astray`, `raced`, `unshifted`, `disturbed` and `draft` are history: what the
  hands on the keys did and what must therefore arrive. `trail` of the framebuffer is history
  too: an overlay of the cursor has been left behind.
* **`Shell`**: a command is three steps (its redirections are opened and the capture
  begins; it runs; the capture ends and the output goes where it has to), so that scripts
  and failing commands nest. `fs` has the files in memory, the directories and the
  files of the one mounted volume, because a redirection's `remove`, `touch`, `open` and
  `write` do not all look at the same one. `subject` picks a text on which parser or matcher
  is tried; `wanted` and `governed` are history.

## 3. Runs

`scheduler`, `sleep` and `ksf` check liveness under `FairSpec`; the others check `Spec`
(`SaifsSpec` for `saifs`).

* `pmm`: counter and bitmap agree, each page has one owner, only usable memory is handed
  out, single pages are granted lowest first (which the page-table bootstrap relies on),
  and the bitmap implements `FrameAllocator`. Six pages under four memory maps: with a
  hole, with unaligned ends, larger than the bitmap, with page 0 only; limits on addresses
  are whole pages or none at all, as every caller's are.
* `vmm`: page tables and mapping list agree after any sequence of calls, failed ones
  included; every frame in use is accounted for and has one use. Six virtual pages in
  two page tables and eight frames, so that tables fill, empty and are trimmed and memory
  runs out half-way. The CPU either never keeps the translations of the recursive
  windows, or keeps them as long as it likes; for the second kind the properties are
  stated up to the first table that is dropped.
* `heap`: blocks are disjoint, aligned and in the heap's own pages; growth leaks nothing;
  a request of up to one growth step fails only for lack of memory. Three chunks in six
  pages of four bytes, two memory limits, growth steps of one and two pages.
* `scheduler`: the queue is exactly the Ready threads, one thread is Running, the handler
  never meets the scheduler's data half-written, dispatch is first-in first-out; every
  Ready thread is dispatched, unless the CPU is lost to the idle thread or to a thread that
  sleeps. Five threads, two of which sleep, a quantum of two ticks.
* `sleep` (a violation): `timer::sleep`, which "Busy-waits for approximately `ms`
  milliseconds" (`timer.rs:152`), never returns. Its only caller is the system call the
  shell's thread makes (`kernel/syscall.rs:245`), and a spawned thread runs with interrupts
  off, so the ticks it waits for do not come, and no quantum expires that would let another
  thread run.
* `ksf`: a service starts only on running dependencies, `start_all` ends and has started
  all that can be started, there is one shell thread. The eighteen built-in services,
  registered in reverse so that as many passes as possible are needed, with each callback
  and some pairs failing.
* `process`: `exec` reports what the program returned; records, log and counters account
  for the life of every process, and exactly the images that link are started. Four
  processes with a log of three events; and three processes while libraries, interpreter
  and images are removed, damaged, shadowed and installed again.
* `drivers`: the managers and the object registry know the same devices, the event
  counters agree with the managers' accounts, addresses agree with leases, the addresses an
  xHCI controller has been given are pages of its own whatever its probe came to, recovery
  leaves no broken driver. Three machines, every sequence
  of three commands after boot, probes that fail in four ways.
* `saifs`, the filesystem: the two sides of the tree agree, the current directory exists,
  descriptors keep their file, appends and copies lose nothing, volumes are saved; paths go
  to the deepest mount however they are spelled, the log tells the mounts, what is listed
  is found and the kernel's own verification passes, writes through a handle follow one
  another. Ten sessions: directories by absolute and relative paths, two files behind two
  descriptors, a partition that three nodes fill, mounted at `/m` and over `/sys`; mounts of
  two providers over each other, two handles on one file, a handle beside direct writes, a
  read-only mount, a log of three events that overflows, the objects of two machines.
* `console`: every key and mouse packet is decoded once and in order, the row shows the
  line being edited, the display shows what the view is at, coming down from the history
  restores the draft. Sixteen sessions, each with the devices and keys of one concern, on
  a display of two rows of three cells with two lines of scrollback.
* `shell`: the output of a pipeline is the composition of its commands, nothing of a line
  is left behind. On every pattern of up to three parts (bytes, escapes, classes, each with
  or without a quantifier, with and without anchors) the matcher, whose loops count the
  repetitions down as the code does, finds a text exactly when the set of texts the pattern
  stands for says so. On every line of up to five characters, arrows included, the commands,
  words and redirections are what the quotes say. Any four of thirty-five lines after the
  init script, with files in memory and on a volume and paths that refuse a step.
* `shell_operators` (a violation): in `f && e` the command behind `&&` runs although the
  one before it failed, because `split_statements` attaches an operator to the statement
  behind it and `dispatch` looks at it after that statement has run. The finding quotes
  the comment and the test that say otherwise.

Bounds are chosen so that every error path, overflow and wrap-around of the modelled code
happens; each property is violated by its mutant within the same bounds.

Deadlock checking is off where the system or a session really stops: the CPU halts for
good when idle runs with interrupts off; a spinning shell stops the service framework;
the sessions of `vmm`, `process`, `saifs` and `drivers` use up their address space,
records, nodes, handles or calls.

### Fairness

`FairSpec` of `Scheduler`: the thread on the CPU goes on (weak fairness of its steps) and
yields again and again (strong fairness of `Yield`: scheduling is cooperative, and both
the shell's and the bootstrap loop yield in every round); boot code is straight-line, so
its steps between which ticks may come are fair; the interrupt controller latches the
timer interrupt, so it is taken if interrupts are enabled again and again (strong
fairness of `Tick`). `FairSpec` of `Ksf`: the thread on the CPU goes on, and the shell
finds no input waiting again and again. No fairness is assumed of commands, clients or
failures.

## 4. Deviations met while modelling that no run states

The models contain the behaviour; the properties are stated around it.

Memory
* `alloc_pages_below` rounds the limit up to a page (`driver/memory.rs:140`), so for a limit
  inside a page it may grant that page. No caller has such a limit; `Limits` holds whole
  pages, and `Below` of `FrameAllocator` asks that a frame ends at or below the limit.
* A recursive-window entry is cleared or relinked without `invlpg` (`vmm.rs:352`), so a
  CPU that keeps the window's translation fills the old table; `vmm.rs:581` promises to map
  the pages with the given flags. `WindowsAreFresh` marks the states before that.
* The frames of trimmed page tables, and those `alloc_and_map` took before it finds the
  address space exhausted, are never freed (`vmm.rs:352`, `vmm.rs:679`): the field `lost`.
* "Grow as needed up to target (25% RAM), then retry once" (`heap.rs:228`): the target is
  all of the maximum, and no chunk exceeds one growth step, so larger requests are refused
  while each attempt commits more memory.

Threads and services
* When the only thread yields, idle gets the CPU with interrupts off and never yields
  (`scheduler.rs:230`): one of the two cases of `Lost` in `Scheduler`, proved by
  `IdleKeepsTheCpu`; the other is the sleep of the run `sleep`.
* A service command issued before `start_all` has returned spins for good on the lock the
  bootstrap thread holds (`shell/service.rs:53`).
* `wait` does not block, and a recorded exit code can change (`kernel/process.rs:246`, `:231`).
* An image without parsable metadata is started unlinked and runs the built-in named like
  the file; an unknown command equal to a root directory's name creates a process that ends
  with 127. A damaged `/lib` copy hides a good `/usr/lib` copy. The package installer stops
  at the first path that is a directory.

Files and namespaces
* A rename may put a directory below itself or below a file (`vfs.rs:399`): the subtree is
  cut off from the root, and `pwd` in it loops with the lock held (`vfs.rs:348`), the
  variable `hung`. Unlinking that file leaves the directory without a parent; a rename to a
  path that leads there takes its source out of its directory and then fails
  (`vfs.rs:405`). `TreeIsConsistent` therefore asks that every node is listed by its parent
  only while no node is orphaned.
* A volume mounted below `/sys` can be written, and `read_path` still asks the object manager
  (`vfs.rs:952`), so a copy made there cannot be read back; `CopiesAreExact` leaves `/sys` out.
* The `mv` program on a file and itself deletes it (`shell/programs.rs:254`). `open` ignores
  mounted volumes (`vfs.rs:809`). Mount records outlive a rescan (`storage.rs:1082`), read-only
  mounts can be written (`storage.rs:1123`) and a volume's root can be renamed (`storage.rs:1414`).
* `SaifsHandle::write` goes to the VFS by path and asks neither its provider nor whether the
  mount is read-only (`saifs.rs:588`); the test at `saifs/tests.rs:173` covers create and remove.
* Mount and unmount events are not trimmed. Names listed in `/sys/storage` do not resolve.

Drivers
* A USB rescan takes new DMA pages and a new mapping and releases none; a probe that fails
  does not return its pages either, which `DeviceMemoryIsItsOwn` needs when the controller
  has been told to run. An Intel or Realtek
  card becomes both `eth0` and `wlan0`. The next pointer of an xHCI extended capability is
  used as an absolute offset. A storage rescan replaces the RAM disks. A 16-bit write to the
  PCI command register writes the status bits back. KOM states are not updated after
  registration.

Console
* The framebuffer keeps the character a backspace erased, because the blank is drawn before
  the backend's cursor moves; a line break or wrap inside `write_str` displaces its text. "Restore
  the previous cursor cell to normal before moving" (`framebuffer.rs:881`) is done by
  `set_cursor` only: a line break, or pixels moved by scrolling, leave the underscore of a
  visible cursor behind. From then until the next repaint (`trail`) `PixelsShowView` accepts
  an underscore in other cells; otherwise only at the cursor.
* Without an 8042 every poll reads ones, which decode as moves with the middle button down
  and scroll the view. A key pressed while the mouse starts shifts the replies (`raced`). A
  byte for a keyboard that failed to start blocks the mouse.
* Releasing one shift key clears both (`keyboard.rs:337`); `KeysArriveOnce` leaves out what
  follows the release of one of two held shift keys (`unshifted`). Right Ctrl is ignored; the byte after a lone serial
  escape is lost; the tail of an over-long CSI sequence is read as text.
* Wide characters advance the grid by one cell and the redraw by two; wrapped lines cannot be
  redrawn; a line over 256 bytes loses characters when submitted; completion cuts bytes at a
  character index. The USB report feeders have no caller in the kernel.

Shell
* A builtin that fails aborts the rest of the line, an `||` fallback included, and leaves `$?`
  stale; `exec` reports 0 whatever its program returned; a program's failure becomes 127. A
  quoted `>` redirects and an empty quoted word is dropped (`parser.rs:220`, `:173`, `:199`):
  `WordsKeepQuotes` leaves lines with such a word out (`Forgotten`). A redirection without a
  file drops the command silently. A redirection to a file on a mounted volume removes and
  creates it there (`vfs.rs:738`, `:985`) and writes to the tree (`vfs.rs:809`), so the old
  text is lost; `OutputIsRouted` leaves such a file's text open (`unsaid`). The output
  of a sourced script is neither captured nor piped. An alias of itself expands eight times;
  a script that sources itself recurses without bound. A trailing blank in an unclosed quote
  is trimmed.

## 5. Proofs

All theorems hold for every value of the constants that satisfies the module's named
assumption; TLC evaluates each assumption in the run of that component (`saifs` for the VFS).

**Frames** (`FrameBitmapProofs`, `PmmProofs`). `FrameBitmapProofs` has the lemmas about the
allocator's functions that both the allocator's and the heap's proofs use: what `init`, a
grant, a refusal and a free change (`InitEffect`, `GrantEffect`, `RefusalEffect`,
`FreeEffect`). `PmmInvariant` is the inductive invariant `IInv` = `TypeOK`,
`CounterMatchesBitmap`, `OneOwnerPerPage` and `Unbooted` (before `init` every bit is set and
nothing is held; without it `Boot` could release pages that clients hold). From it follow
`PmmTypeCorrect`, `PmmCounterCorrect`, `PmmOneOwner`, and `PmmHeldUsable` by the lemma
`UsablePagesInside` (rounding a region inward keeps whole pages inside it). `PmmLowestFirst`
is an action property: a grant of one page moves the hint past the lowest free page only.
`PmmRefinement` shows that `Pmm` implements `FrameAllocator`; its heart is `SlotsComplete`:
the offsets of the search that starts at `next_hint` and wraps round visit every start page,
so a refusal means that no run is free. Assumed: sizes are positive, the tracked range ends
a page before the end of the address space, no region begins in its last page.

**Heap** (`HeapProofs`). `HeapSound`: blocks are disjoint, aligned and in pages only the heap
holds, and growth leaks no page and commits at most `max_bytes`. `BlocksAreSound` is not
inductive: that a new block overlaps none needs to know where the old ones lie. `HeapInv`
adds that each chunk is a run of obtained pages with `current` inside it, that no two chunks
overlap, that every block lies below its chunk's `current`, that `max_bytes` is a number of
pages, and what the call in progress may ask for. `CutBlock` is the step of an allocation,
`NewChunk` that of growth (the new run is free, hence apart from every chunk), and
`GrowthFits` shows that `add_chunk` never clips: what is left of the budget is a number of
pages no smaller than what `grow_heap_locked` asked for. `HeapServes`: a request of at most one
large growth step that was feasible when `alloc` was called is served. It needs an invariant
of the call in progress (`ServeInv`): either the allocator's next run of pages, of the length
growth will ask for, is there, or a chunk already fits the request. `BestEffortFull` shows
that growth gets that run at its first try, `GrowServes` that the chunk made of it fits the
request whatever the alignment, `ChunkFound` that `try_alloc` examines every chunk. Assumed:
the heap's limits are whole pages, as the constants of `heap.rs` are.

**Scheduler** (`SchedulerProofs`). `SchedulerSound`: for every number of threads, quantum and
interleaving with the timer, the queue enumerates the Ready threads, one thread is Running,
and the handler never meets `do_schedule` at work. `SchedInv` adds the types, that before
`scheduler::init` the bootstrap code is alone, and that idle waits in the queue until it gets
the CPU and never yields. `IdleKeepsTheCpu` follows: once idle runs, `current` never changes.
`SleepKeepsTheCpu` is the run `sleep` for any number of threads: while the current thread is in
the loop of `timer::sleep` with a tick to wait for, no step is possible; it rests on the
invariant that a spawned thread runs with interrupts off and no quantum expired.
`SchedulerInOrder` is the order of dispatch as an action property: `PickNextInOrder` shows
that `pick_next` takes the first thread of the queue that is not idle and keeps the order of
the others although it moves idle to the back.

**Services** (`KsfProofs`). `KsfInvariant`: who holds the lock at which place, that a service
is Ready only across the yield in the shell's start, and that the services scanned in a pass
without progress are settled. `KsfOneShell`, `KsfStartsInOrder` and `KsfStartAllMaximal`
follow, for every dependency graph (cycles and unknown services included), order of
registration and set of failing callbacks.

**Processes** (`ProcessProofs`). `LifeAlwaysCounted` and `ExecAlwaysReports` follow from
`ProcessInvariant`. `LifeIsCounted` is not inductive: the counters can only be kept if the log
and the records have their shape (record `i` has pid `i`, the newest event is the one before
`next_seq`), if a running program was announced, and if the event its end will publish still
has a number below `U64_MAX`; `IInv` states these. The accounts are carried by one lemma per
way a process begins or ends (`StartAccounts`, `LinkFailsAccounts`, `ExitAccounts`,
`MarkAccounts`). `LinksExactly` is the loader's part: for any files, the search of
`dynamic_linker.rs` and the image formats of `programs.rs` succeed exactly on the images that
have all they need, although a damaged copy in `/lib` hides a good one in `/usr/lib`. Assumed:
a session's bounds are below `U64_MAX`, exit codes are numbers, contents of files are what
the loader tells apart.

**Files** (`StorageProofs`, `VfsProofs`). `StorageProofs` has the lemmas about trees and
volumes: what inserting, removing, relinking and writing a node do to a tree of any shape,
cycles and orphans included; that resolving a path leads to a live node; which trees a change
to a volume saves. `VfsInvariant` is the inductive invariant `IInv` = the shape of the inode
table (`TreeOK`), the current directory, the descriptors (`FilesOK`), the registry with its
mounted trees and partitions (`StorageOK`), and `WritesAreExact`. `TreeOK` is stronger than
`TreeIsConsistent`: the root is a directory without a parent, only existing nodes are listed,
and a node whose parent exists is listed by it unless some node is orphaned, which a rename
may bring about and no operation undoes. `StorageOK` adds to `VolumesAreSaved` that volumes
have distinct names, that the first one is the tree itself, and that whatever is on a
partition is a tree. From it follow `VfsTreeConsistent`, `VfsWritesExact` and
`VfsVolumesSaved`. For a copy the argument is that what `write_path` has just written is what
`read_path` finds: both normalize the path, route it to the same volume and resolve it to the
same node. Assumed: names are strings, the registry's volumes have distinct names other than
`tmpfs`, a session's paths and data are well-formed and its bounds exceed the standard tree.

Only model-checked:

* all liveness (`ReadyRunsUntilLost`, `SleepEnds`, `StartAllEnds`): fairness and
  `ENABLED` are beyond the prover;
* `console`: the decoders use bit operations of module `Bitwise`, which the prover does not
  support;
* `shell`: parser, matcher and expansion are recursions over text; what they compute is
  checked on all short texts, and a proof for every text has not been attempted;
* `vmm`, `drivers`, `saifs`: their invariants relate lists and tables that folds rebuild
  (page-table walks, device scans, event rings); no proof has been carried out.

What a recursive function computes enters the proofs only through facts about one of its
turns (`Recursion`, `PathSteps`, `InstalledTurns`). The library's induction theorems cannot be
instantiated by the provers, so each such fact is proved by looking at the least number for
which it fails (`LeastNat`).

## 6. Not modelled

The components with status `not_modelled` in `PROJECT.json`, each with its reason: pure data
types and conversions (object ABI, architecture registry), pixel copying (graphics), firmware
tables parsed once (ACPI), register access (hal), firmware services (UEFI loader), test code,
and reports that only read (telemetry, boot timeline, memory verification). In the modelled
components: the bootstrap of the page tables from the firmware's, probing of partition tables
and filesystems (pure parsing), the wording of output, and shell commands that only format
what other components hold.
