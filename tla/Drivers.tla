------------------------------ MODULE Drivers ------------------------------
(***************************************************************************)
(* The device manager (seed/saios/src/kernel/device.rs), the driver        *)
(* manager (kernel/driver.rs) and SAIRU's recovery (kernel/sairu.rs) with  *)
(* all they act on: the kernel object manager and the event bus that they  *)
(* report to, and the PCI, network and USB drivers that the hooks of the   *)
(* driver manager run.                                                     *)
(*                                                                         *)
(* The kernel boots through the steps that register drivers and devices,   *)
(* then the shell thread issues commands.  A command runs to its end under *)
(* the driver manager's lock, so it is one step.  k holds the statics, one *)
(* field each: those of Network and UsbHost, and                           *)
(*   kom, bus           the object registry and the event bus              *)
(*   devices, drivers   the records of the two managers                    *)
(***************************************************************************)
EXTENDS UsbHost, EventBus, SequencesExt

CONSTANTS
  Framebuffers, \* whether the loader passes a framebuffer: a set of Booleans
  Machines,   \* PCI configuration spaces a machine may have
  Pages,      \* physical pages there are for DMA
  Probes,     \* ways the USB controllers may answer
  Names,      \* drivers the user names in a command
  Targets,    \* addresses the user pings
  Services,   \* kernel services that failed to start
  MaxCalls,   \* bound on the commands issued
  KEEP_LATEST, \* events recovery keeps; 64 in the code
  KOM_EVENTS  \* length of the object manager's event log; 256 in the code

ASSUME DriversAssumption ==
  /\ \A p \in Probes : p.stuck \in Waits \union {"none"} /\ p.unmapped \in Nat
                       /\ p.scratch \in Nat /\ p.ports \in Nat
  /\ Pages \in Nat /\ MaxCalls \in Nat
  /\ {"DriverLoaded", "DriverReloaded", "DriverFaulted", "DeviceAttached"} \subseteq EventKind

VARIABLES
  k,        \* the statics
  boot,     \* the boot step that comes next
  calls,    \* commands issued so far
  last,     \* the last command and the driver it named
  failed    \* services in the Failed state

vars == <<k, boot, calls, last, failed>>

BootSteps == <<"framebuffer", "console", "objects", "managers", "shell", "ready">>

-----------------------------------------------------------------------------
(***************************************************************************)
(* The kernel object manager of seed/saios/src/kernel/object: a registry   *)
(* of named objects and a log of what happened to them.  Its operations    *)
(* are functions on the registry; each runs under the registry's lock.     *)
(***************************************************************************)
NewRegistry == [next_id |-> 1, objects |-> <<>>, events |-> <<>>]

kom_push_event(r, id, event) ==
  LET log == Append(r.events, [id |-> id, event |-> event])
  IN  [r EXCEPT !.events = IF Len(log) > KOM_EVENTS THEN Tail(log) ELSE log]

KomNames(r) == {r.objects[i].name : i \in DOMAIN r.objects}

\* A name is registered once, whatever the types: id 0 stands for the error.
kom_register(r, type, name, state) ==
  LET Add(q) == [q EXCEPT !.next_id = @ + 1,
                          !.objects = Append(@, [id |-> q.next_id, type |-> type,
                                                 name |-> name, state |-> state])]
      Created(q) == kom_push_event(q, r.next_id, "Created")
      Started(q) == IF state = "Running" THEN kom_push_event(q, r.next_id, "Started") ELSE q
  IN  IF name \in KomNames(r) THEN [registry |-> r, id |-> 0]
      ELSE [registry |-> Started(Created(Add(r))), id |-> r.next_id]

kom_find_by_type(r, type) == SelectSeq(r.objects, LAMBDA o : o.type = type)

\* The seeds, only into an empty registry.
kom_init(r) ==
  LET Kernel(q)  == kom_register(q, "Kernel", "saios", "Running").registry
      Process(q) == kom_register(q, "Process", "sish", "Running").registry
      Mount(q)   == kom_register(q, "Mount", "/", "Running").registry
  IN  IF r.objects # <<>> THEN r ELSE Mount(Process(Kernel(r)))

-----------------------------------------------------------------------------
(* device.rs.  A device known by name is updated in place; the object that *)
(* mirrors it is not.                                                      *)

IndexOf(records, name) ==
  LET found == {i \in DOMAIN records : records[i].name = name}
  IN  IF found = {} THEN 0 ELSE CHOOSE i \in found : \A j \in found : i <= j

DeviceObjectState(status) ==
  CASE status = "Online"  -> "Running"
    [] status = "Offline" -> "Stopped"
    [] status = "Faulted" -> "Faulted"

register_device(s, name, driver, status) ==
  LET Add(r) == IF r.id = 0 THEN s
                ELSE [s EXCEPT !.kom = r.registry,
                               !.devices = Append(@, [name |-> name, driver |-> driver,
                                                      status |-> status, object_id |-> r.id]),
                               !.bus = publish(@, "DeviceAttached", name)]
  IN  Add(kom_register(s.kom, "Device", name, DeviceObjectState(status)))

ensure_device(s, name, driver, status) ==
  LET Ensure(i) == IF i = 0 THEN register_device(s, name, driver, status)
                   ELSE [s EXCEPT !.devices[i].driver = driver, !.devices[i].status = status]
  IN  Ensure(IndexOf(s.devices, name))

\* One device per element of a sequence of names.
EnsureAll(s, names, driver, Status) ==
  LET All[i \in 0 .. Len(names)] ==
        IF i = 0 THEN s
        ELSE The({ensure_device(m, names[i], driver, Status[i]) : m \in {All[i - 1]}})
  IN  All[Len(names)]

NamesOf(records) == [i \in DOMAIN records |-> records[i].name]

AllOnline(names) == [i \in DOMAIN names |-> "Online"]

-----------------------------------------------------------------------------
(* driver.rs                                                               *)

DriverObjectState(status) == IF status \in {"Loaded", "Running"} THEN "Running" ELSE status

\* The record is kept although the object manager refused the name.
ensure_driver_unmirrored(s, name, deps, status) ==
  LET i == IndexOf(s.drivers, name)
      r == kom_register(s.kom, "Driver", name, DriverObjectState(status))
  IN  IF i # 0 THEN [s EXCEPT !.drivers[i].status = status, !.drivers[i].deps = deps]
      ELSE [s EXCEPT !.drivers = Append(@, [name |-> name, status |-> status, deps |-> deps,
                                            devices |-> <<>>, object_id |-> r.id,
                                            start_count |-> 0, stop_count |-> 0,
                                            reload_count |-> 0, fault_count |-> 0,
                                            last_error |-> ""]),
                     !.bus = publish(@, "DriverLoaded", name)]

ensure_driver(s, name, deps, status) ==
  LET Add(r) == IF r.id = 0 THEN s
                ELSE [s EXCEPT !.kom = r.registry,
                               !.drivers = Append(@, [name |-> name, status |-> status,
                                                      deps |-> deps, devices |-> <<>>,
                                                      object_id |-> r.id, start_count |-> 0,
                                                      stop_count |-> 0, reload_count |-> 0,
                                                      fault_count |-> 0, last_error |-> ""]),
                               !.bus = publish(@, "DriverLoaded", name)]
      Ensure(i) == IF i = 0
                   THEN Add(kom_register(s.kom, "Driver", name, DriverObjectState(status)))
                   ELSE [s EXCEPT !.drivers[i].status = status, !.drivers[i].deps = deps]
  IN  Ensure(IndexOf(s.drivers, name))

dependencies_ready(s, deps) ==
  \A d \in deps : \E i \in DOMAIN s.drivers :
    s.drivers[i].name = d /\ s.drivers[i].status \in {"Running", "Loaded"}

refresh_devices(s) ==
  [s EXCEPT !.drivers =
     [i \in DOMAIN @ |->
        [@[i] EXCEPT !.devices =
           NamesOf(SelectSeq(s.devices, LAMBDA d : d.driver = s.drivers[i].name))]]]

\* storage::rescan, of which only the devices matter here: one disk with one
\* partition for every mass storage function.
storage_devices(s) ==
  LET Disks(m) == Len(SelectSeq(m.pci.devices, LAMBDA d : d.class = 1))
      names(m) == [i \in 1 .. 2 * Disks(m) |->
                     "/dev/disk" \o ToString((i - 1) \div 2) \o (IF i % 2 = 1 THEN "" ELSE "p1")]
      Register(m, n) == EnsureAll(m, n, "storage", AllOnline(n))
      Do(m) == Register(m, names(m))
  IN  The({Do(m) : m \in {PciDevices(s)}})

FileSystems == {"storage", "ext4", "ntfs", "fat16", "fat32", "fat64", "fat128"}

InterfaceDevices(s, list, driver) ==
  EnsureAll(s, NamesOf(list), driver, AllOnline(NamesOf(list)))

ControllerDevices(s, list) ==
  EnsureAll(s, NamesOf(list), "usb",
            [i \in DOMAIN list |-> IF list[i].state = "Faulted" THEN "Faulted" ELSE "Online"])

\* The fault of a driver whose dependency is missing goes unreported.
check_dependencies_unreported(s, i) ==
  IF dependencies_ready(s, s.drivers[i].deps) THEN s
  ELSE [s EXCEPT !.drivers[i].status = "Faulted",
                 !.drivers[i].fault_count = @ + 1,
                 !.drivers[i].last_error = "dependencies not ready"]

check_dependencies(s, i) ==
  IF dependencies_ready(s, s.drivers[i].deps) THEN s
  ELSE [s EXCEPT !.drivers[i].status = "Faulted",
                 !.drivers[i].fault_count = @ + 1,
                 !.drivers[i].last_error = "dependencies not ready",
                 !.bus = publish(@, "DriverFaulted", s.drivers[i].name)]

Started(s, i) ==
  refresh_devices([s EXCEPT !.drivers[i].status = "Running", !.drivers[i].last_error = "",
                            !.drivers[i].start_count = @ + 1])

Stopped(s, i) ==
  refresh_devices([s EXCEPT !.drivers[i].status = "Stopped", !.drivers[i].last_error = "",
                            !.drivers[i].stop_count = @ + 1])

Reloaded(s, i) ==
  refresh_devices([s EXCEPT !.drivers[i].status = "Running", !.drivers[i].last_error = "",
                            !.drivers[i].reload_count = @ + 1,
                            !.bus = publish(@, "DriverReloaded", s.drivers[i].name)])

-----------------------------------------------------------------------------
(* A command is the sequence of calls it makes; a call is a pair of a      *)
(* function and, for a function of the driver manager, a driver.           *)

Call(s, call, i, p) ==
  CASE call = "pci::init"         -> PciDevices(s)
    [] call = "network::init"     -> network_init(s)
    [] call = "network::bind_nic" -> bind_nic(s)
    [] call = "network::apply_dhcp" -> apply_dhcp(s)
    [] call = "loopback::init"    -> loopback_init(s)
    [] call = "ethernet::init"    -> ethernet_init(s)
    [] call = "ethernet::rescan"  -> ethernet_rescan(s)
    [] call = "wifi::init"        -> wifi_init(s)
    [] call = "wifi::rescan"      -> wifi_rescan(s)
    [] call = "dhcp::renew_all"   -> renew_all(s)
    [] call = "dhcp::clear"       -> dhcp_clear(s)
    [] call = "dns::init"         -> dns_init(s)
    [] call = "usb::init"         -> usb_init(s, p)
    [] call = "usb::rescan"       -> usb_rescan(s, p)
    [] call = "storage::rescan"   -> storage_devices(s)
    [] call = "lo"                -> ensure_device(s, "lo", "loopback", "Online")
    [] call = "eth"               -> InterfaceDevices(s, s.eth.interfaces, "ethernet")
    [] call = "wlan"              -> InterfaceDevices(s, s.wlan.interfaces, "wifi")
    [] call = "usb"               -> ControllerDevices(s, s.usb.controllers)
    [] call = "ready?"            -> check_dependencies(s, i)
    [] call = "found?"            -> s
    [] call = "started"           -> Started(s, i)
    [] call = "stopped"           -> Stopped(s, i)
    [] call = "reloaded"          -> Reloaded(s, i)
    [] call = "refresh"           -> refresh_devices(s)
    [] call = "clear_stale"       -> [s EXCEPT !.bus = clear_stale(@, KEEP_LATEST)]

\* Calls up to the first that fails: only a missing driver and a missing
\* dependency do.
Perform(s, program, p) ==
  LET Do(r, call, i) ==
        IF ~r.ok \/ (call[2] # "" /\ i = 0) THEN [r EXCEPT !.ok = FALSE]
        ELSE [k  |-> Call(r.k, call[1], i, p),
              ok |-> call[1] = "ready?" => dependencies_ready(r.k, r.k.drivers[i].deps)]
      Run[n \in 0 .. Len(program)] ==
        IF n = 0 THEN [k |-> s, ok |-> TRUE]
        ELSE The({Do(r, program[n], IndexOf(r.k.drivers, program[n][2])) : r \in {Run[n - 1]}})
  IN  Run[Len(program)]

Calls(names) == [i \in DOMAIN names |-> <<names[i], "">>]

run_start_hook(name) ==
  Calls(CASE name = "pci"      -> <<"pci::init">>
          [] name = "network"  -> <<"network::init", "loopback::init", "ethernet::init",
                                    "wifi::init", "dns::init", "network::bind_nic", "lo">>
          [] name = "loopback" -> <<"loopback::init", "lo">>
          [] name = "ethernet" -> <<"ethernet::rescan", "network::bind_nic", "ethernet::init",
                                    "eth">>
          [] name = "wifi"     -> <<"wifi::rescan", "network::bind_nic", "wifi::init", "wlan">>
          [] name = "dhcp"     -> <<"dhcp::renew_all", "network::apply_dhcp">>
          [] name = "dns"      -> <<"dns::init">>
          [] name = "usb"      -> <<"usb::rescan", "usb">>
          [] name \in FileSystems -> <<"storage::rescan">>
          [] OTHER -> <<>>)

run_stop_hook(name) == Calls(IF name = "dhcp" THEN <<"dhcp::clear">> ELSE <<>>)

run_reload_hook(name) == run_start_hook(name)

start(name) == <<<<"ready?", name>>>> \o run_start_hook(name) \o <<<<"started", name>>>>

stop(name) == <<<<"found?", name>>>> \o run_stop_hook(name) \o <<<<"stopped", name>>>>

\* No hook fails, and a missing driver is found before the hook runs.
reload(name) == <<<<"found?", name>>>> \o run_reload_hook(name) \o <<<<"reloaded", name>>>>

StartAll(names) == FlattenSeq([i \in DOMAIN names |-> start(names[i])])

ReloadAll(names) == FlattenSeq([i \in DOMAIN names |-> reload(names[i])])
-----------------------------------------------------------------------------
(* Boot.                                                                   *)

EnsureDrivers(s, list) ==
  LET All[i \in 0 .. Len(list)] ==
        IF i = 0 THEN s
        ELSE The({ensure_driver(m, list[i][1], list[i][2], list[i][3]) : m \in {All[i - 1]}})
  IN  All[Len(list)]

attach_framebuffer(s) ==
  ensure_device(ensure_driver(s, "framebuffer", {"serial"}, "Running"),
                "fb0", "framebuffer", "Online")

console_init(s, keyboard_ready) ==
  LET Drivers(m) == EnsureDrivers(m, <<
        <<"serial", {}, "Running">>, <<"input", {"serial"}, "Running">>,
        <<"hid", {"input"}, "Running">>,
        <<"hid-keyboard", {"hid"}, IF keyboard_ready THEN "Running" ELSE "Stopped">>,
        <<"hid-mouse", {"hid"}, "Running">>, <<"mouse", {"hid-mouse"}, "Running">> >>)
      Keyboard(m) == ensure_device(m, "keyboard0", "hid-keyboard",
                                   IF keyboard_ready THEN "Online" ELSE "Offline")
  IN  ensure_device(Keyboard(ensure_device(Drivers(s), "COM1", "serial", "Online")),
                    "mouse0", "hid-mouse", "Online")

\* The object manager asks its providers once: volumes, then interfaces with
\* their leases.
enumerate_providers(s) ==
  LET Wifi(m) == IF m.wlan.interfaces = <<>> THEN m ELSE dhcp_init(m)
      Eth(m)  == IF m.eth.interfaces = <<>> THEN m ELSE dhcp_init(m)
      Interfaces(m) == The({Eth(e) : e \in {ethernet_init(loopback_init(m))}})
      Network(m) == The({Wifi(wifi_init(e)) : e \in {Interfaces(m)}})
  IN  The({Network(m) : m \in {storage_devices(s)}})

driver_init(s) ==
  refresh_devices(EnsureDrivers(s, <<
    <<"pci", {}, "Loaded">>, <<"network", {"pci"}, "Loaded">>, <<"usb", {"pci"}, "Loaded">>,
    <<"loopback", {"network"}, "Loaded">>, <<"ethernet", {"network", "pci"}, "Loaded">>,
    <<"wifi", {"network", "pci"}, "Loaded">>, <<"dhcp", {"network"}, "Loaded">>,
    <<"dns", {"network", "dhcp"}, "Loaded">>, <<"storage", {"pci"}, "Loaded">>,
    <<"ext4", {"storage"}, "Loaded">>, <<"ntfs", {"storage"}, "Loaded">>,
    <<"fat16", {"storage"}, "Loaded">>, <<"fat32", {"storage"}, "Loaded">>,
    <<"fat64", {"storage"}, "Loaded">>, <<"fat128", {"storage"}, "Loaded">> >>))

Booted == boot = Len(BootSteps)

BootStep(name, s) ==
  /\ BootSteps[boot] = name
  /\ k' = s
  /\ boot' = boot + 1
  /\ UNCHANGED <<calls, last, failed>>

Boot ==
  \/ \E present \in Framebuffers :
       BootStep("framebuffer", IF present THEN attach_framebuffer(k) ELSE k)
  \/ \E ready \in BOOLEAN : BootStep("console", console_init(k, ready))
  \/ BootStep("objects", enumerate_providers(k))
  \/ BootStep("managers", driver_init(k))
  \/ BootStep("shell", [k EXCEPT !.kom = kom_init(@)])

-----------------------------------------------------------------------------
(* Commands of the shell.                                                  *)

Broken(s) == {i \in DOMAIN s.drivers : s.drivers[i].status \in {"Faulted", "Stopped"}}

\* Only drivers that faulted are reloaded.
Recoverable_faulted(s) == SelectSeq(s.drivers, LAMBDA d : d.status = "Faulted")

\* The drivers to reload, in the order of the registry.
Recoverable(s) == SelectSeq(s.drivers, LAMBDA d : d.status \in {"Faulted", "Stopped"})

recover(s) ==
  Calls(<<"refresh">>) \o ReloadAll(NamesOf(Recoverable(s))) \o Calls(<<"clear_stale", "refresh">>)

NetUp == StartAll(<<"network", "loopback", "ethernet", "wifi", "dhcp", "dns">>)
         \o Calls(<<"network::bind_nic", "network::apply_dhcp">>)

NetReset == ReloadAll(<<"network", "ethernet", "wifi", "dhcp">>)
            \o Calls(<<"network::bind_nic", "network::apply_dhcp">>)

Dhcp == start("dhcp") \o Calls(<<"network::apply_dhcp">>)

UsbStatus == Calls(<<"usb::init">>)

UsbScan == start("usb") \o UsbStatus

\* The programs of the shell's commands.
Program(command) ==
  CASE command[1] = "driver start"  -> start(command[2])
    [] command[1] = "driver stop"   -> stop(command[2])
    [] command[1] = "driver reload" -> reload(command[2])
    [] command[1] = "net up"        -> NetUp
    [] command[1] = "net reset"     -> NetReset
    [] command[1] = "dhcp"          -> Dhcp
    [] command[1] = "usb status"    -> UsbStatus
    [] command[1] = "usb scan"      -> UsbScan
    [] command[1] = "recover"       -> recover(k)

Commands == {"driver start", "driver stop", "driver reload"} \X Names
            \union {"net up", "net reset", "dhcp", "usb status", "usb scan", "recover"} \X {""}

Issue(command) ==
  /\ Booted /\ calls < MaxCalls
  /\ calls' = calls + 1
  /\ last' = command
  /\ UNCHANGED boot

\* Recovery restarts the failed services first; which of them come back is
\* KSF's business.
Execute(command, p) ==
  /\ Issue(command)
  /\ k' = Perform(k, Program(command), p).k
  /\ failed' \in IF command[1] = "recover" THEN SUBSET failed ELSE {failed}

Ping(ip) ==
  /\ Issue(<<"ping", "">>)
  /\ k' = ping_ipv4(ensure_ipv4(k), ip)
  /\ UNCHANGED failed

Wget(ip) ==
  /\ Issue(<<"wget", "">>)
  /\ k' = http_download(ensure_ipv4(k), ip)
  /\ UNCHANGED failed

Start(space) ==
  NewNetwork(space) @@ [usb |-> NewUsb, free |-> 1 .. Pages,
                        rings |-> [a \in DOMAIN space |-> {}], kom |-> NewRegistry, bus |-> NewBus, devices |-> <<>>, drivers |-> <<>>]

Init ==
  /\ \E space \in Machines : k = Start(space)
  /\ boot = 1 /\ calls = 0 /\ failed = Services
  /\ last = <<"boot", "">>

\* Probes differ only for commands that reach the USB driver.
ProbesOf(command) ==
  IF command[2] = "usb" \/ command[1] \in {"usb status", "usb scan", "recover"}
  THEN Probes ELSE {CHOOSE p \in Probes : TRUE}

Next ==
  \/ Boot
  \/ \E command \in Commands : \E p \in ProbesOf(command) : Execute(command, p)
  \/ \E ip \in Targets : Ping(ip) \/ Wget(ip)

Spec == Init /\ [][Next]_vars
-----------------------------------------------------------------------------
(* Properties.                                                             *)

ObjectOf(record) == {i \in DOMAIN k.kom.objects : k.kom.objects[i].id = record.object_id}

Mirrors(records, type) ==
  /\ \A r \in ToSet(records) : \E i \in ObjectOf(r) :
       /\ ObjectOf(r) = {i}
       /\ k.kom.objects[i].name = r.name
       /\ k.kom.objects[i].type = type
  /\ Len(kom_find_by_type(k.kom, type)) = Len(records)

\* The device and driver managers and the object manager know the same
\* devices and drivers: every record is linked to the one object that bears
\* its name and type (object_id), and no object is left without a record,
\* whatever is registered, registered again, rescanned or reloaded.
ManagersMirrorKom ==
  /\ Mirrors(k.devices, "Device")
  /\ Mirrors(k.drivers, "Driver")

Total(field) ==
  LET Sum[i \in 0 .. Len(k.drivers)] ==
        IF i = 0 THEN 0 ELSE k.drivers[i][field] + Sum[i - 1]
  IN  Sum[Len(k.drivers)]

\* The counters of the event bus agree with the managers' own accounts: one
\* DriverLoaded per driver, one DeviceAttached per device, one DriverReloaded
\* and one DriverFaulted for every reload and fault that a driver counted.
EventsMatchAccounts ==
  /\ k.bus.counters["DriverLoaded"] = Len(k.drivers)
  /\ k.bus.counters["DeviceAttached"] = Len(k.devices)
  /\ k.bus.counters["DriverReloaded"] = Total("reload_count")
  /\ k.bus.counters["DriverFaulted"] = Total("fault_count")

LeaseAddress(name) ==
  IF LeasesOf(k, name) = <<>> THEN NoAddress ELSE LeasesOf(k, name)[1].address

DriverStatus(name) == k.drivers[IndexOf(k.drivers, name)].status

\* An interface has exactly the address of its lease, through rescans that
\* build the interface list anew, renewals and releases; and while the DHCP
\* driver runs, the stack is configured with the lease of the interface it is
\* bound to.
AddressesAgree ==
  /\ \A i \in ToSet(k.eth.interfaces) \union ToSet(k.wlan.interfaces) :
       i.ipv4 = LeaseAddress(i.name)
  /\ Booted /\ DriverStatus("dhcp") = "Running" =>
       k.net.ipv4.address = IF k.net.nic = NoNic THEN NoAddress ELSE LeaseAddress(k.net.nic)

\* No controller is left with the address of memory that is not its own: the
\* pages in its registers are allocated and are no other controller's, after
\* probes that fail at any of their allocations, mappings and waits, when the
\* controller may be running already, and after rescans that forget the runtime
\* of the last probe while a reset that times out leaves its addresses in place.
\* A controller that is reported Initialized has such pages.
DeviceMemoryIsItsOwn ==
  /\ \A a \in DOMAIN k.rings : k.rings[a] \intersect k.free = {}
  /\ \A a, b \in DOMAIN k.rings : a # b => k.rings[a] \intersect k.rings[b] = {}
  /\ \A c \in ToSet(k.usb.controllers) : c.state = "Initialized" => k.rings[c.at] # {}

\* After a recovery no driver is stopped or faulted or still shows an error,
\* those that only another driver's hook registered included, and the event log
\* holds no more than it should keep.
RecoverHeals ==
  last[1] = "recover" =>
    /\ Broken(k) = {}
    /\ \A d \in ToSet(k.drivers) : d.last_error = ""
    /\ Len(k.bus.events) <= KEEP_LATEST
=============================================================================
