------------------------------ MODULE UsbHost ------------------------------
(***************************************************************************)
(* USB host controllers of seed/saios/src/driver/usb.rs: finding them on   *)
(* the PCI bus and bringing an xHCI controller up.  The operations are     *)
(* functions on the record n of module Network with three more fields:     *)
(*   usb    the list of controllers                                        *)
(*   free   the pages the page allocator has free                          *)
(*   rings  per PCI function, the pages whose addresses its registers hold *)
(*                                                                         *)
(* How the controller behaves is an answer p of the hardware:              *)
(*   p.stuck    the first wait that never ends, or None: every wait is     *)
(*              given up after a fixed number of reads                     *)
(*   p.unmapped the number of the mapping the page tables refuse, or 0     *)
(*   p.scratch  pages the controller wants for itself                      *)
(*   p.ports    ports with a device                                        *)
(***************************************************************************)
EXTENDS Network

CONSTANT POINTERS_PER_PAGE  \* scratchpad addresses in a page; 512 in the code

ASSUME UsbAssumption == POINTERS_PER_PAGE \in Nat \ {0}

COMMAND == 4            \* offset of the PCI command register
MEMORY_BUS_MASTER == 6  \* its memory-space and bus-master bits
Waits == {"caplength", "handoff", "halt", "reset", "ready", "pagesize", "run"}

NewUsb == [initialized |-> FALSE, controllers |-> <<>>]

controller_kind(dev) ==
  CASE dev.prog_if = 0  -> "uhci"
    [] dev.prog_if = 16 -> "ohci"
    [] dev.prog_if = 32 -> "ehci"
    [] dev.prog_if = 48 -> "xhci"
    [] dev.prog_if \in {128, 254} -> "usb-device"
    [] OTHER -> "usb-host"

\* Bits of the low byte of a command register, with two bits set.
WithBits(command) ==
  <<(command[1] - (command[1] % 8)) + (command[1] % 2) + MEMORY_BUS_MASTER, command[2]>>

enable_pci_command(n, a) ==
  LET command == read_u16(n.space, a, COMMAND)
  IN  IF command = WithBits(command) THEN n
      ELSE [n EXCEPT !.space = write_u16(@, a, COMMAND, WithBits(command))]

\* The first memory and the first I/O BAR; the upper half of a 64-bit BAR is
\* skipped.
choose_primary_bars(space, a) ==
  LET Step(c, bar) ==
        [mmio  |-> IF bar # NoBar /\ ~bar.is_io /\ c.mmio = NoBar THEN bar ELSE c.mmio,
         io    |-> IF bar # NoBar /\ bar.is_io /\ c.io = NoBar THEN bar ELSE c.io,
         index |-> c.index + (IF bar.is_64bit THEN 2 ELSE 1)]
      Bars[k \in 0 .. 6] ==
        IF k = 0 THEN [mmio |-> NoBar, io |-> NoBar, index |-> 0]
        ELSE LET Next(c) == IF c.index >= 6 THEN c ELSE Step(c, read_bar(space, a, c.index))
             IN  The({Next(c) : c \in {Bars[k - 1]}})
  IN  Bars[6]

-----------------------------------------------------------------------------
(* A probe carries its state: s.n, the pages it has allocated, the         *)
(* mappings made so far, and whether it has failed; a failed probe does    *)
(* nothing more.  Nothing gives back the pages of a probe: neither a probe *)
(* that fails, nor the rescan, which drops the runtime of a probe that     *)
(* succeeds.                                                               *)

RunsOf(free, pages) == {first \in free : first .. first + pages - 1 \subseteq free}

\* Pages are taken, mapped, and given back when they cannot be mapped.
alloc_dma_pages(s, pages, p) ==
  LET runs  == RunsOf(s.n.free, pages)
      first == CHOOSE f \in runs : \A g \in runs : f <= g
      got   == first .. first + pages - 1
  IN  IF s.failed \/ runs = {} THEN [s EXCEPT !.failed = TRUE]
      ELSE IF s.maps + 1 = p.unmapped THEN [s EXCEPT !.failed = TRUE, !.maps = @ + 1]
      ELSE [s EXCEPT !.maps = @ + 1, !.n.free = @ \ got, !.pages = @ \union got]

map_mmio_window(s, p) ==
  [s EXCEPT !.maps = @ + 1, !.failed = @ \/ s.maps + 1 = p.unmapped]

\* A wait that gives up.
wait_until(s, what, p) == [s EXCEPT !.failed = @ \/ p.stuck = what]

\* The array of the addresses of the scratchpads, and the scratchpads.
Scratchpads(p) ==
  IF p.scratch = 0 THEN <<>>
  ELSE <<(p.scratch + POINTERS_PER_PAGE - 1) \div POINTERS_PER_PAGE>>
         \o [i \in 1 .. p.scratch |-> 1]

\* The sizes of the allocations, in their order: the device context array, the
\* scratchpads, the command ring, the event ring and its segment table.
RuntimePages(p) == <<1>> \o Scratchpads(p) \o <<1, 1, 1>>

\* When all is allocated, the addresses go into the controller's registers.
init_xhci_runtime(s, a, p) ==
  LET Allocate(sizes) ==
        LET Alloc[i \in 0 .. Len(sizes)] ==
              IF i = 0 THEN wait_until(s, "pagesize", p)
              ELSE The({alloc_dma_pages(t, sizes[i], p) : t \in {Alloc[i - 1]}})
        IN  Alloc[Len(sizes)]
      Programmed(t) == IF t.failed THEN t ELSE [t EXCEPT !.n.rings[a] = t.pages]
  IN  The({Programmed(t) : t \in {Allocate(RuntimePages(p))}})

\* The firmware may have to give the controller up first.
xhci_bios_handoff(s, p) == wait_until(s, "handoff", p)

\* The controller is taken over, halted and reset; the reset clears its
\* registers.  Before it is complete they may hold what they held.
reset_controller(s, a, p) ==
  LET Cleared(t) ==
        IF t.failed THEN t ELSE wait_until([t EXCEPT !.n.rings[a] = {}], "ready", p)
      Halted(t) == wait_until(wait_until(t, "halt", p), "reset", p)
  IN  The({Cleared(t) : t \in {Halted(xhci_bios_handoff(wait_until(s, "caplength", p), p))}})

\* A probe that gives its pages back when it fails.
probe_xhci_gives_back(n, a, p) ==
  LET Start == [n |-> enable_pci_command(n, a), pages |-> {}, maps |-> 0, failed |-> FALSE]
      Probe(s) == wait_until(init_xhci_runtime(s, a, p), "run", p)
      End(s) == IF s.failed THEN [s EXCEPT !.n.free = @ \union s.pages] ELSE s
  IN  The({End(Probe(s)) : s \in {reset_controller(map_mmio_window(Start, p), a, p)}})

probe_xhci(n, a, p) ==
  LET Start == [n |-> enable_pci_command(n, a), pages |-> {}, maps |-> 0, failed |-> FALSE]
      Probe(s) == wait_until(init_xhci_runtime(s, a, p), "run", p)
  IN  The({Probe(s) : s \in {reset_controller(map_mmio_window(Start, p), a, p)}})

\* One controller, appended to the list.
AddController(n, dev, p) ==
  LET kind == controller_kind(dev)
      mmio == The({bars.mmio : bars \in {choose_primary_bars(n.space, dev.at)}})
      Push(m, state, ports) ==
        [m EXCEPT !.usb.controllers =
           Append(@, [name |-> "usb" \o ToString(Len(@)), kind |-> kind, at |-> dev.at,
                      mmio |-> mmio, state |-> state, ports |-> ports])]
      Probed(s) == IF s.failed THEN Push(s.n, "Faulted", 0) ELSE Push(s.n, "Initialized", p.ports)
  IN  IF kind # "xhci" THEN Push(n, "Discovered", 0)
      ELSE IF mmio = NoBar THEN Push(n, "Faulted", 0)
      ELSE The({Probed(s) : s \in {probe_xhci(n, dev.at, p)}})

is_usb(dev) == dev.class = 12 /\ dev.subclass = 3

\* Every controller is probed again; what the last probe allocated stays.
usb_rescan(n, p) ==
  LET Scan(m, devs) ==
        LET List[k \in 0 .. Len(devs)] ==
              IF k = 0 THEN [m EXCEPT !.usb = [initialized |-> TRUE, controllers |-> <<>>]]
              ELSE The({AddController(t, devs[k], p) : t \in {List[k - 1]}})
        IN  List[Len(devs)]
      All(m) == Scan(m, SelectSeq(m.pci.devices, is_usb))
  IN  The({All(m) : m \in {PciDevices(n)}})

usb_init(n, p) == IF n.usb.initialized THEN n ELSE usb_rescan(n, p)
=============================================================================
