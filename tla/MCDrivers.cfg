CONSTANTS
  Machines <- MCMachines
  Probes <- MCProbes
  Targets <- MCTargets
  ValidIps <- MCValidIps
  Pages = 16
  POINTERS_PER_PAGE = 2
  Framebuffers = {TRUE}
  Names = {"pci", "network", "ethernet", "dhcp", "usb", "floppy"}
  Services = {"ipc"}
  MaxCalls = 3
  KEEP_LATEST = 1
  KOM_EVENTS = 2
  MAX_EVENTS = 2
  U64_MAX = 1000
  EventKind = {"DriverLoaded", "DriverReloaded", "DriverFaulted", "DeviceAttached"}
SPECIFICATION Spec
CHECK_DEADLOCK FALSE
INVARIANTS
  ManagersMirrorKom
  EventsMatchAccounts
  AddressesAgree
  DeviceMemoryIsItsOwn
  RecoverHeals
