--------------------------- MODULE ObjectManager ---------------------------
(***************************************************************************)
(* The object manager of seed/saios/src/object_manager.rs as operators on  *)
(* its state m: the objects in the order of registration and the           *)
(* registered providers.  Providers are asked once, by init; what they     *)
(* showed then is what the objects show for ever.  Its event log, texts    *)
(* that only a command prints, is left out.                                *)
(*                                                                         *)
(* Ids start at 1; 0 stands for no object.  A path is a sequence of names; *)
(* /sys is the manager's view for the filesystem.                          *)
(***************************************************************************)
EXTENDS Integers, Sequences, SequencesExt, TLC

-----------------------------------------------------------------------------
(***************************************************************************)
(* The kernel providers of seed/saios/src/provider.rs: what each of them   *)
(* shows of the machine, as objects.  The machine is a record w:           *)
(*   volumes   sequence of [name, mounted]                                 *)
(*   pci       number of PCI functions known so far                        *)
(*   threads   sequence of [id, state]                                     *)
(*   lo, eth, wlan   sequences of interfaces [name, up]                    *)
(* A path is a sequence of names.                                          *)
(***************************************************************************)
ProviderObject(namespace, name, type, state) ==
  [path |-> <<namespace, name>>, name |-> name, type |-> type, status |-> state[1],
   health |-> state[2], parent |-> <<namespace>>]

storage_enumerate(w) ==
  [i \in DOMAIN w.volumes |->
     ProviderObject("storage", w.volumes[i].name, "Volume",
                    IF w.volumes[i].mounted THEN <<"Online", "Healthy">>
                    ELSE <<"Offline", "Offline">>)]

device_enumerate(w) ==
  [i \in 1 .. w.pci |->
     ProviderObject("devices", "pci" \o ToString(i - 1), "Device", <<"Online", "Healthy">>)]

ThreadState(state) ==
  CASE state = "Dead" -> <<"Offline", "Critical">>
    [] state \in {"Blocked", "Sleeping"} -> <<"Busy", "Warning">>
    [] OTHER -> <<"Online", "Healthy">>

process_enumerate(w) ==
  [i \in DOMAIN w.threads |->
     ProviderObject("processes", ToString(w.threads[i].id), "Process",
                    ThreadState(w.threads[i].state))]

InterfaceState(up) == IF up THEN <<"Online", "Healthy">> ELSE <<"Offline", "Warning">>

Interfaces(list) ==
  [i \in DOMAIN list |->
     ProviderObject("network", list[i].name, "Network", InterfaceState(list[i].up))]

network_enumerate(w) == Interfaces(w.lo) \o Interfaces(w.eth) \o Interfaces(w.wlan)

enumerate_provider(name, w) ==
  CASE name = "storage"   -> storage_enumerate(w)
    [] name = "devices"   -> device_enumerate(w)
    [] name = "processes" -> process_enumerate(w)
    [] name = "network"   -> network_enumerate(w)

-----------------------------------------------------------------------------
(* The manager. *)

NewManager == [initialized |-> FALSE, next_id |-> 1, objects |-> <<>>, providers |-> <<>>]

object_by_path(m, path) ==
  LET i == SelectInSeq(m.objects, LAMBDA o : o.path = path)
  IN  IF i = 0 THEN 0 ELSE m.objects[i].id

\* A child is linked in its parent, when the parent is there.
Linked(objects, parent, id) ==
  [i \in DOMAIN objects |->
     IF objects[i].id = parent THEN [objects[i] EXCEPT !.children = Append(@, id)] ELSE objects[i]]

register_object(m, obj) ==
  LET parent == object_by_path(m, obj.parent)
  IN  IF object_by_path(m, obj.path) # 0 THEN m
      ELSE [m EXCEPT !.next_id = @ + 1,
                     !.objects = Append(Linked(@, parent, m.next_id),
                                        [id |-> m.next_id, path |-> obj.path, name |-> obj.name,
                                         type |-> obj.type, status |-> obj.status,
                                         health |-> obj.health, parent |-> parent,
                                         provider |-> "core", children |-> <<>>])]

Online == <<"Online", "Healthy">>
Offline == <<"Offline", "Offline">>

Under(parent, path, type, state) ==
  [path |-> path, name |-> Last(path), type |-> type, status |-> state[1],
   health |-> state[2], parent |-> parent]

BootstrapObjects ==
  LET Top(name, type, state) == Under(<<"system">>, <<name>>, type, state)
  IN  << Under(<<>>, <<"system">>, "Kernel", Online),
         Top("devices", "Device", Online), Top("drivers", "Driver", Online),
         Top("memory", "Memory", Online), Top("storage", "Volume", Online),
         Top("network", "Network", Offline), Top("processes", "Process", Online),
         Top("services", "Service", Online), Top("logs", "Event", Online),
         Top("ai", "AI Skill", Offline), Top("users", "Service", Online),
         Under(<<"drivers">>, <<"drivers", "pci">>, "Driver", Online),
         Under(<<"storage">>, <<"storage", "tmpfs">>, "Volume", Online),
         Under(<<"services">>, <<"services", "shell">>, "Service", Online) >>

RegisterAll(m, objects) ==
  LET after[k \in 0 .. Len(objects)] ==
        IF k = 0 THEN m
        ELSE CHOOSE r \in {register_object(b, objects[k]) : b \in {after[k - 1]}} : TRUE
  IN  after[Len(objects)]

seed_bootstrap_objects(m) == RegisterAll(m, BootstrapObjects)

\* An object that is there already changes its provider and nothing else.
register_provider_objects(m, name, objects) ==
  LET Paths == {objects[i].path : i \in DOMAIN objects}
      Owned(r) == [r EXCEPT !.objects =
        [i \in DOMAIN @ |-> IF @[i].path \in Paths THEN [@[i] EXCEPT !.provider = name] ELSE @[i]]]
  IN  Owned(RegisterAll(m, objects))

register_provider_instance(m, name, w) ==
  IF Contains(m.providers, name) THEN m
  ELSE [register_provider_objects(m, name, enumerate_provider(name, w))
          EXCEPT !.providers = Append(@, name)]

Providers == <<"storage", "devices", "processes", "network">>

seed_runtime_objects(m, w) ==
  LET after[k \in 0 .. Len(Providers)] ==
        IF k = 0 THEN m
        ELSE CHOOSE r \in {register_provider_instance(b, Providers[k], w) : b \in {after[k - 1]}} : TRUE
  IN  after[Len(Providers)]

om_init(m, w) ==
  IF m.initialized THEN m
  ELSE [seed_runtime_objects(seed_bootstrap_objects(m), w) EXCEPT !.initialized = TRUE]

\* The checks of verify.
om_verify(m) ==
  /\ m.initialized
  /\ IsInjective([i \in DOMAIN m.objects |-> m.objects[i].id])
  /\ IsInjective(m.providers)

-----------------------------------------------------------------------------
(* Looking objects up.                                                     *)

Renamed(path, from, to) ==
  IF Len(path) >= 2 /\ path[1] = from THEN <<to>> \o Tail(path) ELSE path

canonical_path(path) ==
  Renamed(Renamed(Renamed(path, "device", "devices"), "driver", "drivers"),
          "process", "processes")

\* The objects of /sys; those of /sys/storage and /sys/network have no such
\* name there.
canonical_object_path(path) ==
  LET raw == canonical_path(path)
  IN  IF \/ Len(raw) >= 3 /\ raw[1] = "sys"
            /\ raw[2] \in {"devices", "drivers", "services", "processes"}
         \/ Len(raw) = 2 /\ raw[1] = "sys"
            /\ raw[2] \in {"memory", "network", "storage", "drivers", "devices", "services"}
      THEN Tail(raw) ELSE raw

metadata(m, path) == object_by_path(m, canonical_object_path(path))

lookup_by_id(m, id) == m.objects[SelectInSeq(m.objects, LAMBDA o : o.id = id)]

list_namespace(m, namespace) ==
  {Last(m.objects[i].path) : i \in {i \in DOMAIN m.objects :
     Len(m.objects[i].path) = Len(namespace) + 1 /\ Front(m.objects[i].path) = namespace}}

\* One object against key=value; a predicate that excludes has want FALSE.
Matches(m, obj, pred) ==
  pred.want = CASE pred.key = "kind"     -> obj.type = pred.value
                [] pred.key = "health"   -> obj.health = pred.value
                [] pred.key = "provider" -> obj.provider = pred.value
                [] pred.key = "parent"   -> /\ obj.parent # 0
                                            /\ lookup_by_id(m, obj.parent).name = pred.value

query(m, predicates) ==
  {m.objects[i].path : i \in {i \in DOMAIN m.objects :
     \A p \in predicates : Matches(m, m.objects[i], p)}}

inspect(m, path) == canonical_path(path) = <<"memory">> \/ object_by_path(m, canonical_path(path)) # 0

SysDirectories == {"devices", "drivers", "memory", "scheduler", "storage", "network", "services",
                   "providers"}

\* The names in a directory of /sys.
sys_readdir(m, path) ==
  CASE path = <<"sys">> -> SysDirectories \union {"health"}
    [] path \in {<<"sys", d>> : d \in {"devices", "drivers", "storage", "services"}} ->
         list_namespace(m, Tail(path))
    [] path = <<"sys", "memory">>    -> {"stats"}
    [] path = <<"sys", "network">>   -> {"status"}
    [] path = <<"sys", "scheduler">> -> {"threads", "uptime"}
    [] path = <<"sys", "providers">> -> ToSet(m.providers)
    [] OTHER -> {}

\* Whether sys_readdir knows the path at all.
IsSysDirectory(path) == path = <<"sys">> \/ path \in {<<"sys", d>> : d \in SysDirectories}

\* The providers can be listed and not read.
sys_readable_no_provider(m, path) ==
  \/ path \in {<<"sys", "health">>, <<"sys", "memory", "stats">>, <<"sys", "network", "status">>,
               <<"sys", "scheduler", "threads">>, <<"sys", "scheduler", "uptime">>,
               <<"sys", "providers">>}
  \/ /\ Len(path) >= 3 /\ path[2] \in {"devices", "drivers", "services"}
     /\ inspect(m, Tail(path))

\* Whether sys_read answers with a text.
sys_readable(m, path) ==
  \/ path \in {<<"sys", "health">>, <<"sys", "memory", "stats">>, <<"sys", "network", "status">>,
               <<"sys", "scheduler", "threads">>, <<"sys", "scheduler", "uptime">>,
               <<"sys", "providers">>}
  \/ Len(path) = 3 /\ path[2] = "providers" /\ Contains(m.providers, path[3])
  \/ /\ Len(path) >= 3 /\ path[2] \in {"devices", "drivers", "services"}
     /\ inspect(m, Tail(path))
=============================================================================
