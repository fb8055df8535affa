------------------------------ MODULE Network ------------------------------
(***************************************************************************)
(* The network drivers of seed/saios/src/driver: interfaces found on the   *)
(* PCI bus (ethernet.rs, wifi.rs), the loopback interface, DHCP leases,    *)
(* DNS settings and the small stack of network.rs.  Nothing is on a wire:  *)
(* leases, neighbours and answers are computed.                            *)
(*                                                                         *)
(* The operations are functions on a record n with one field per static:   *)
(* space and pci (module Pci), eth, wlan, lo, dhcp, dns and net.  Reading  *)
(* the interfaces or the leases initialises them first, as the code does.  *)
(* Each operation runs under its static's lock; the locks nest in the      *)
(* order net, dhcp, eth or wlan, pci.                                      *)
(***************************************************************************)
EXTENDS Pci, TLC

CONSTANT ValidIps   \* the addresses parse_ipv4 accepts

WifiVendors == {<<134, 128>>, <<140, 22>>, <<228, 20>>, <<236, 16>>}

NoAddress == <<>>
NoConfig == [address |-> NoAddress, gateway |-> NoAddress, dns |-> NoAddress]
NoNic == ""

NewNetwork(space) ==
  [space |-> space, pci |-> NewDatabase,
   eth  |-> [initialized |-> FALSE, interfaces |-> <<>>],
   wlan |-> [initialized |-> FALSE, interfaces |-> <<>>],
   lo   |-> [initialized |-> FALSE, interfaces |-> <<>>],
   dhcp |-> [initialized |-> FALSE, leases |-> <<>>],
   dns  |-> [initialized |-> FALSE, servers |-> <<>>],
   net  |-> [initialized |-> FALSE, nic |-> NoNic, ipv4 |-> NoConfig, arp |-> <<>>,
             tx |-> 0, rx |-> 0, udp |-> FALSE, tcp |-> FALSE, http |-> FALSE]]

PciDevices(n) == [n EXCEPT !.pci = pci_init(@, n.space)]

-----------------------------------------------------------------------------
(* Interfaces.  A rescan numbers the matching functions again and keeps    *)
(* the address of the interface that had the same name.                    *)

previous_ip(interfaces, name) ==
  LET same == SelectSeq(interfaces, LAMBDA i : i.name = name)
  IN  IF same = <<>> THEN NoAddress ELSE same[1].ipv4

Numbered(prefix, devices, existing) ==
  [i \in DOMAIN devices |->
     LET name == prefix \o ToString(i - 1)
     IN  [name |-> name, at |-> devices[i].at, ipv4 |-> previous_ip(existing, name)]]

is_ethernet(dev) == dev.class = 2 /\ dev.subclass = 0

looks_like_wifi(dev) == dev.class = 2 /\ (dev.subclass = 128 \/ dev.vendor \in WifiVendors)

\* The address is looked up in the list that was just cleared.
ethernet_rescan_forgets(n) ==
  LET Scan(m) == [m EXCEPT !.eth = [initialized |-> TRUE,
        interfaces |-> Numbered("eth", SelectSeq(m.pci.devices, is_ethernet), <<>>)]]
  IN  The({Scan(m) : m \in {PciDevices(n)}})

ethernet_rescan(n) ==
  LET Scan(m) == [m EXCEPT !.eth = [initialized |-> TRUE,
        interfaces |-> Numbered("eth", SelectSeq(m.pci.devices, is_ethernet), @.interfaces)]]
  IN  The({Scan(m) : m \in {PciDevices(n)}})

ethernet_init(n) == IF n.eth.initialized THEN n ELSE ethernet_rescan(n)

wifi_rescan(n) ==
  LET Scan(m) == [m EXCEPT !.wlan = [initialized |-> TRUE,
        interfaces |-> Numbered("wlan", SelectSeq(m.pci.devices, looks_like_wifi), @.interfaces)]]
  IN  The({Scan(m) : m \in {PciDevices(n)}})

wifi_init(n) == IF n.wlan.initialized THEN n ELSE wifi_rescan(n)

loopback_init(n) ==
  IF n.lo.initialized THEN n
  ELSE [n EXCEPT !.lo = [initialized |-> TRUE,
                         interfaces |-> <<[name |-> "lo", ipv4 |-> <<127, 0, 0, 1>>]>>]]

dns_init(n) ==
  IF n.dns.initialized THEN n
  ELSE [n EXCEPT !.dns = [initialized |-> TRUE, servers |-> <<<<1, 1, 1, 1>>, <<8, 8, 8, 8>>>>]]

-----------------------------------------------------------------------------
(* DHCP leases: one per interface, the address taken from its index.       *)

Host(index) == IF 100 + index < 255 THEN 100 + index ELSE 255

lease_for_ethernet(index, name) ==
  [interface |-> name, address |-> <<192, 168, 10, Host(index)>>,
   gateway |-> <<192, 168, 10, 1>>, dns |-> <<1, 1, 1, 1>>]

lease_for_wifi(index, name) ==
  [interface |-> name, address |-> <<192, 168, 20, Host(index)>>,
   gateway |-> <<192, 168, 20, 1>>, dns |-> <<8, 8, 8, 8>>]

EthLeases(n) == [i \in DOMAIN n.eth.interfaces |->
                   lease_for_ethernet(i - 1, n.eth.interfaces[i].name)]

WifiLeases(n) == [i \in DOMAIN n.wlan.interfaces |->
                    lease_for_wifi(i - 1, n.wlan.interfaces[i].name)]

Addressed(interfaces, leases) ==
  [i \in DOMAIN interfaces |-> [interfaces[i] EXCEPT !.ipv4 = leases[i].address]]

renew_all(n) ==
  LET Lease(m) ==
        [m EXCEPT !.dhcp = [initialized |-> TRUE, leases |-> EthLeases(m) \o WifiLeases(m)],
                  !.eth.interfaces = Addressed(@, EthLeases(m)),
                  !.wlan.interfaces = Addressed(@, WifiLeases(m))]
  IN  The({Lease(m) : m \in {wifi_init(ethernet_init(n))}})

dhcp_init(n) == IF n.dhcp.initialized THEN n ELSE renew_all(n)

dhcp_clear(n) ==
  LET Clear(m) ==
        [m EXCEPT !.dhcp.leases = <<>>,
                  !.eth.interfaces = [i \in DOMAIN @ |-> [@[i] EXCEPT !.ipv4 = NoAddress]],
                  !.wlan.interfaces = [i \in DOMAIN @ |-> [@[i] EXCEPT !.ipv4 = NoAddress]]]
  IN  The({Clear(m) : m \in {wifi_init(ethernet_init(n))}})

LeasesOf(n, name) == SelectSeq(n.dhcp.leases, LAMBDA l : l.interface = name)

-----------------------------------------------------------------------------
(* network.rs.  Links are always up, so the first Ethernet interface is    *)
(* bound, then the first wireless one; the wireless list is not looked at  *)
(* when an Ethernet interface is there.                                    *)

bind_nic_locked(n) ==
  LET Wifi(m) == [m EXCEPT !.net.nic = IF m.wlan.interfaces = <<>> THEN NoNic
                                       ELSE m.wlan.interfaces[1].name]
      Eth(m)  == IF m.eth.interfaces # <<>>
                 THEN [m EXCEPT !.net.nic = m.eth.interfaces[1].name]
                 ELSE The({Wifi(w) : w \in {wifi_init(m)}})
  IN  The({Eth(m) : m \in {ethernet_init(n)}})

network_init(n) ==
  IF n.net.initialized THEN n ELSE [bind_nic_locked(n) EXCEPT !.net.initialized = TRUE]

bind_nic(n) == The({bind_nic_locked(m) : m \in {network_init(n)}})

\* A neighbour is remembered for ever.
ensure_arp_locked(n, ip) ==
  IF Contains(n.net.arp, ip) THEN n ELSE [n EXCEPT !.net.arp = Append(@, ip)]

apply_dhcp(n) ==
  LET Learn(m, lease) ==
        [m EXCEPT !.net.arp = LET Once(s, ip) == IF Contains(s, ip) THEN s ELSE Append(s, ip)
                              IN  Once(Once(@, lease.gateway), lease.dns)]
      Configure(m, lease) ==
        Learn([m EXCEPT !.net.udp = TRUE,
                        !.net.ipv4 = [address |-> lease.address, gateway |-> lease.gateway,
                                      dns |-> lease.dns]],
              lease)
      Look(m) == IF LeasesOf(m, m.net.nic) = <<>> THEN m
                 ELSE Configure(m, LeasesOf(m, m.net.nic)[1])
      Apply(m) == IF m.net.nic = NoNic THEN m ELSE The({Look(d) : d \in {dhcp_init(m)}})
  IN  The({Apply(m) : m \in {network_init(n)}})

Configured(n) == n.net.ipv4 # NoConfig

send_frame_locked(n) ==
  IF n.net.nic = NoNic THEN n ELSE [n EXCEPT !.net.tx = @ + 1, !.net.rx = @ + 1]

\* Commands that need an address take one only when none is configured.
ensure_ipv4(n) ==
  LET Ensure(m) == IF Configured(m) THEN m ELSE The({apply_dhcp(b) : b \in {bind_nic(m)}})
  IN  The({Ensure(m) : m \in {network_init(n)}})

ping_ipv4(n, ip) ==
  LET Echo(m) == IF ip \in ValidIps /\ Configured(m)
                 THEN send_frame_locked(ensure_arp_locked(m, ip)) ELSE m
  IN  The({Echo(m) : m \in {network_init(n)}})

\* The flags are set before the file is written, and stay when that fails.
http_download(n, ip) ==
  LET Send(m) == IF m.net.nic = NoNic THEN m
                 ELSE [send_frame_locked(m) EXCEPT !.net.tcp = TRUE, !.net.http = TRUE]
      Get(m)  == IF Configured(m) THEN Send(ensure_arp_locked(m, ip)) ELSE m
  IN  The({Get(m) : m \in {network_init(n)}})
=============================================================================
