----------------------------- MODULE MCDrivers -----------------------------
(* Three machines: a wired card that also looks like a wireless one, with  *)
(* two xHCI controllers and a disk; a wireless card with an old controller *)
(* and one whose BAR is missing; and a machine without PCI functions.      *)
EXTENDS Drivers

Function(vendor, class, subclass, prog_if, bars) ==
  (0 :> vendor \o <<1, 0>>) @@ (4 :> <<1, 0, 16, 0>>) @@ (8 :> <<0, prog_if, subclass, class>>)
  @@ [o \in {16 + 4 * (i - 1) : i \in DOMAIN bars} |-> bars[((o - 16) \div 4) + 1]]

Wide == <<<<4, 0, 0, 224>>, <<1, 0, 0, 0>>>>   \* a 64-bit memory BAR
PortBar == <<<<1, 192, 0, 0>>>>                  \* an I/O BAR

MCMachines ==
  { (<<0, 2, 0>> :> Function(<<134, 128>>, 2, 0, 0, PortBar))
    @@ (<<0, 1, 1>> :> Function(<<51, 17>>, 12, 3, 48, PortBar \o Wide))
    @@ (<<0, 1, 2>> :> Function(<<51, 17>>, 12, 3, 48, Wide))
    @@ (<<1, 0, 0>> :> Function(<<244, 26>>, 1, 6, 1, Wide)),
    (<<0, 3, 0>> :> Function(<<17, 17>>, 2, 128, 0, Wide))
    @@ (<<0, 1, 0>> :> Function(<<51, 17>>, 12, 3, 0, PortBar))
    @@ (<<0, 1, 7>> :> Function(<<51, 17>>, 12, 3, 48, PortBar)),
    <<>> }

MCProbes ==
  { [stuck |-> "none",  unmapped |-> 0, scratch |-> 0, ports |-> 1],
    [stuck |-> "none",  unmapped |-> 4, scratch |-> 1, ports |-> 0],
    [stuck |-> "reset", unmapped |-> 0, scratch |-> 0, ports |-> 0],
    [stuck |-> "run",   unmapped |-> 0, scratch |-> 3, ports |-> 0] }

MCTargets == {<<10, 0, 0, 9>>, <<300>>}
MCValidIps == {<<10, 0, 0, 9>>}
=============================================================================
