------------------------------- MODULE Saifs -------------------------------
(***************************************************************************)
(* The namespace of seed/saios/src/saifs.rs: providers mounted at paths,   *)
(* handles, events and subscriptions, over the VFS (module Vfs) and the    *)
(* object manager.  Provider 1 is the VFS; the others are like the ones of *)
(* saifs/tests.rs: a fixed tree that refuses every change.                 *)
(*                                                                         *)
(* Every call runs to its end on the shell thread, so it is one step; the  *)
(* SAIFS lock is held around the provider's work and is taken before the   *)
(* VFS lock and that before the object manager's.  The VFS is also called  *)
(* directly, by the commands and programs of module Vfs.  Where a volume   *)
(* is mounted the namespace is not looked at.  A path is a sequence of     *)
(* names with "." and ".."; NUL is a name with a zero byte, which no path  *)
(* may have.                                                               *)
(***************************************************************************)
EXTENDS Vfs, ObjectManager

CONSTANTS
  Worlds,       \* the machines the object manager may find
  SAIFS_EVENTS  \* length of the event log; 256 in the code

\* A member of Sessions also has
\*   names   paths given to the calls of the namespace
\*   points  paths given to its mount and unmount
\*   mocks   the test providers there are
\*   worlds  and the bounds handles, events, subs
ASSUME SaifsAssumption ==
  /\ SAIFS_EVENTS \in Nat \ {0}
  /\ \A s \in Sessions : /\ s.handles \in Nat /\ s.events \in Nat /\ s.subs \in Nat
                         /\ s.worlds \subseteq Worlds
                         /\ s.mounts = {} \/ s.names \cup s.points = {}

VARIABLES
  saifs,    \* SaifsState
  om,       \* the object manager
  handles,  \* the handles in use; written and alone are history: what was
            \* written through the handle, and whether the file is otherwise
            \* untouched since
  done      \* the change just asked for: the call, whether it succeeded, whether
            \* its path was on a read-only mount; None after other calls

svars == <<saifs, om, handles, done>>
allvars == <<vars, svars>>

NUL == "\\0"

canonicalize_path(parts) == IF Contains(parts, NUL) THEN None ELSE Normalize(parts)

normalize_path(parts) == IF canonicalize_path(parts) = None THEN <<>> ELSE Normalize(parts)

-----------------------------------------------------------------------------
(* State.                                                                  *)

NewSaifs == [next_provider |-> 1, next_handle |-> 1, next_event |-> 1, next_sub |-> 1,
             providers |-> <<>>, mounts |-> <<>>, events |-> <<>>, subscriptions |-> {}]

\* mount and unmount do not trim the log.
Log(s, type, path) ==
  [s EXCEPT !.next_event = @ + 1,
            !.events = Append(@, [id |-> s.next_event, type |-> type, path |-> path])]

Trim(s) == [s EXCEPT !.events = IF Len(@) > SAIFS_EVENTS
                                THEN SubSeq(@, Len(@) - SAIFS_EVENTS + 1, Len(@)) ELSE @]

ProviderNamed(s, name) == SelectInSeq(s.providers, LAMBDA p : p.name = name)

register_provider_internal(s, name) ==
  IF ProviderNamed(s, name) # 0 THEN s
  ELSE [s EXCEPT !.next_provider = @ + 1,
                 !.providers = Append(@, [id |-> s.next_provider, name |-> name])]

\* init, of a state that is not initialized.
saifs_init(s) ==
  LET r == register_provider_internal(s, "vfs")
  IN  Log([r EXCEPT !.mounts = Append(@, [path |-> <<>>, provider |-> r.providers[1].id,
                                          read_only |-> FALSE])],
          "Mounted", <<>>)

provider_by_id_internal(s, id) ==
  LET i == SelectInSeq(s.providers, LAMBDA p : p.id = id)
  IN  IF i = 0 THEN None ELSE s.providers[i].name

path_in_mount(mount_path, path) == IsPrefix(mount_path, path)

\* The first mount that fits.
resolve_mount_first(s, path) ==
  LET fits == {i \in DOMAIN s.mounts : path_in_mount(s.mounts[i].path, path)}
  IN  IF fits = {} THEN None ELSE s.mounts[CHOOSE i \in fits : \A j \in fits : i <= j]

\* The longest mount path, counted in characters in the code; the last one of
\* equal length.
resolve_mount_internal(s, path) ==
  LET best[n \in 0 .. Len(s.mounts)] ==
        LET Better(b) == IF /\ path_in_mount(s.mounts[n].path, path)
                            /\ (b = None \/ Len(s.mounts[n].path) >= Len(b.path))
                         THEN s.mounts[n] ELSE b
        IN  IF n = 0 THEN None ELSE Better(best[n - 1])
  IN  best[Len(s.mounts)]

provider_path_from_mount(mount_path, path) == SubSeq(path, Len(mount_path) + 1, Len(path))

resolve_path_internal(s, parts) ==
  LET On(path, mount) ==
        IF mount = None THEN None
        ELSE [path |-> path, provider_path |-> provider_path_from_mount(mount.path, path),
              mount |-> mount.path, provider |-> mount.provider, read_only |-> mount.read_only]
  IN  IF canonicalize_path(parts) = None THEN None
      ELSE On(Normalize(parts), resolve_mount_internal(s, Normalize(parts)))

-----------------------------------------------------------------------------
(* The providers.  lookup answers with the object's id and the kind.       *)

open_node(v, path) == resolve(v.nodes, ROOT, Path(path))

VfsLookup(m, v, path) ==
  IF is_sys_path(path) /\ metadata(m, path) # 0 THEN [id |-> metadata(m, path), kind |-> "Object"]
  ELSE IF is_sys_path(path) /\ (IsSysDirectory(path) \/ sys_readable(m, path))
  THEN [id |-> 0, kind |-> "Virtual"]
  ELSE IF open_node(v, path) = None THEN None
  ELSE [id |-> metadata(m, path), kind |-> v.nodes[open_node(v, path)].kind]

MockTree == (<<>> :> "Directory") @@ (<<"beta">> :> "Directory") @@ (<<"alpha">> :> "File")
            @@ (<<"beta", "gamma">> :> "File")

MockLookup(path) == IF path \in DOMAIN MockTree THEN [id |-> 0, kind |-> MockTree[path]] ELSE None

ProviderLookup(name, path) ==
  IF name = "vfs" THEN VfsLookup(om, vfs, path) ELSE MockLookup(path)

\* The names in a directory, None for what is none.  vfs::ls adds the devices
\* to /dev, which no session has.
VfsEnumerate(path) ==
  IF is_sys_path(path) THEN (IF IsSysDirectory(path) THEN sys_readdir(om, path) ELSE None)
  ELSE IF ~IsKind(vfs.nodes, open_node(vfs, path), "Directory") THEN None
  ELSE {vfs.nodes[c].name : c \in vfs.nodes[open_node(vfs, path)].children}

MockEnumerate(path) ==
  CASE path = <<>> -> {"beta", "alpha"}
    [] path = <<"beta">> -> {"gamma"}
    [] OTHER -> None

namespace_enumerate(parts) ==
  LET In(name, path) == IF name = "vfs" THEN VfsEnumerate(path) ELSE MockEnumerate(path)
      Do(r) == IF r = None THEN None
               ELSE In(provider_by_id_internal(saifs, r.provider), r.provider_path)
  IN  Do(resolve_path_internal(saifs, parts))

namespace_lookup(parts) ==
  LET Do(r) == IF r = None THEN None
               ELSE ProviderLookup(provider_by_id_internal(saifs, r.provider), r.provider_path)
  IN  Do(resolve_path_internal(saifs, parts))

-----------------------------------------------------------------------------
(* Calls.                                                                  *)

Finish(call, path, ok) ==
  LET r == resolve_path_internal(saifs, path)
  IN  done' = [call |-> call, ok |-> ok, ro |-> r # None /\ r.read_only]

Quiet == done' = None

OnlySaifs == UNCHANGED <<vars, om, handles>>

RegisterProvider(name) ==
  /\ saifs' = register_provider_internal(saifs, name)
  /\ Quiet
  /\ OnlySaifs

mount(s, path, provider, ro) ==
  IF \/ path = None \/ provider_by_id_internal(s, provider) = None
     \/ \E i \in DOMAIN s.mounts : s.mounts[i].path = path
  THEN s
  ELSE Log([s EXCEPT !.mounts = Append(@, [path |-> path, provider |-> provider, read_only |-> ro])],
           "Mounted", path)

MountProvider(parts, provider, ro) ==
  /\ saifs.next_event <= session.events
  /\ saifs' = mount(saifs, canonicalize_path(parts), provider, ro)
  /\ Quiet
  /\ OnlySaifs

\* The mount goes and the log does not say so.
unmount_silently(s, path) ==
  IF path \in {None, <<>>} THEN s
  ELSE [s EXCEPT !.mounts = SelectSeq(@, LAMBDA m : m.path # path)]

unmount(s, path) ==
  IF path \in {None, <<>>} \/ \A i \in DOMAIN s.mounts : s.mounts[i].path # path THEN s
  ELSE Log([s EXCEPT !.mounts = SelectSeq(@, LAMBDA m : m.path # path)], "Unmounted", path)

Unmount(parts) ==
  /\ saifs.next_event <= session.events
  /\ saifs' = unmount(saifs, canonicalize_path(parts))
  /\ Quiet
  /\ OnlySaifs

\* What the VFS answers.
FromVfs(call, parts, r) ==
  /\ vfs' = r.vfs
  /\ storage' = r.storage
  /\ Finish(call, parts, r.ok)
  /\ Forget
  /\ UNCHANGED <<session, hung, saifs, om>>

Refused(call, parts) ==
  /\ Finish(call, parts, FALSE)
  /\ UNCHANGED <<vars, saifs, om, handles>>

\* Nothing but the last call changes when a path is not found.
Ignored == Quiet /\ UNCHANGED <<vars, saifs, om, handles>>

\* The file at path is changed by someone else than these handles.
Disturbed(hs, path) == {[h EXCEPT !.alone = @ /\ h.path # path] : h \in hs}

\* create and remove: r is the resolved path.
Changes(r) == r # None /\ ~r.read_only /\ provider_by_id_internal(saifs, r.provider) = "vfs"

Create(parts, kind) ==
  LET r == resolve_path_internal(saifs, parts)
  IN  /\ Len(vfs.nodes) < session.inodes
      /\ IF Changes(r)
         THEN /\ FromVfs("create", parts, Make(vfs, storage, Path(r.provider_path), kind))
              /\ UNCHANGED handles
         ELSE Refused("create", parts)

RemovePath(parts) ==
  LET r == resolve_path_internal(saifs, parts)
  IN  IF Changes(r)
      THEN /\ FromVfs("remove", parts, unlink(vfs, storage, Path(r.provider_path)))
           /\ handles' = Disturbed(handles, r.provider_path)
      ELSE Refused("remove", parts)

CdTo(path) ==
  LET inode == resolve(vfs.nodes, vfs.cwd, Path(path))
      ok == IsKind(vfs.nodes, inode, "Directory")
  IN  /\ vfs' = IF ok THEN [vfs EXCEPT !.cwd = inode] ELSE vfs
      /\ Quiet /\ Forget
      /\ UNCHANGED <<session, storage, hung, saifs, om, handles>>

ChangeDirectory(parts) == CdTo(normalize_path(parts))

\* A handle is opened; an id is used up only when the lookup succeeds.
OpenHandle(parts) ==
  LET r == resolve_path_internal(saifs, parts)
      found == namespace_lookup(parts)
      new == [id |-> saifs.next_handle, path |-> r.path, provider_path |-> r.provider_path,
              object_id |-> found.id, provider |-> r.provider, kind |-> found.kind, offset |-> 0,
              written |-> <<>>, alone |-> TRUE]
  IN  /\ saifs.next_handle <= session.handles
      /\ IF found = None THEN Ignored
         ELSE /\ saifs' = [saifs EXCEPT !.next_handle = @ + 1]
              /\ handles' = handles \union {new}
              /\ Quiet
              /\ UNCHANGED <<vars, om>>

DropHandle(h) ==
  /\ handles' = handles \ {h}
  /\ Quiet
  /\ UNCHANGED <<vars, saifs, om>>

\* The file is written from its start each time.
SeekStart_rewinds(v, fd, offset) == [v EXCEPT !.open_files[fd].offset = 0]

SeekStart(v, fd, offset) ==
  [v EXCEPT !.open_files[fd].offset = Clamp(offset, inode_len(v.nodes, v.open_files[fd].inode))]

\* Open, seek, write, close.  The path is the absolute one, whatever is
\* mounted there, and a read-only mount does not matter.
HandleWrite(h, data) ==
  LET r == open(vfs, Path(h.path), read_write_create)
      after == close(write(SeekStart(r.vfs, r.fd, h.offset), r.fd, data), r.fd)
      ok == r.fd # None
  IN  /\ h.offset + Len(data) <= session.len /\ Len(vfs.nodes) < session.inodes
      /\ vfs' = IF ok THEN after ELSE vfs
      /\ handles' = IF ~ok THEN handles
                    ELSE Disturbed(handles \ {h}, h.path)
                         \union {[h EXCEPT !.offset = @ + Len(data), !.written = @ \o data]}
      /\ Finish("write", h.path, ok)
      /\ Forget
      /\ UNCHANGED <<session, storage, hung, saifs, om>>

\* read_text: a handle that is used once.
ReadText(parts) ==
  LET r == resolve_path_internal(saifs, parts)
  IN  /\ saifs.next_handle <= session.handles
      /\ IF namespace_lookup(parts) = None THEN Ignored
         ELSE /\ vfs' = read_path(vfs, storage, Path(r.path))
              /\ saifs' = [saifs EXCEPT !.next_handle = @ + 1]
              /\ Quiet /\ Forget
              /\ UNCHANGED <<session, storage, hung, om, handles>>

PublishEvent(type) ==
  /\ saifs.next_event <= session.events
  /\ saifs' = Trim(Log(saifs, type, <<"object">>))
  /\ Quiet
  /\ OnlySaifs

Subscribe ==
  /\ saifs.next_sub <= session.subs
  /\ saifs' = [saifs EXCEPT !.next_sub = @ + 1, !.subscriptions = @ \union {saifs.next_sub}]
  /\ Quiet
  /\ OnlySaifs

Unsubscribe(id) ==
  /\ saifs' = [saifs EXCEPT !.subscriptions = @ \ {id}]
  /\ Quiet
  /\ OnlySaifs

SaifsInit ==
  /\ Init
  /\ \E w \in session.worlds : om = om_init(NewManager, w)
  /\ saifs = saifs_init(NewSaifs)
  /\ handles = {}
  /\ done = None

\* A call of the namespace; the thread that makes them must not hang.
SaifsCall ==
  \/ \E name \in session.mocks : RegisterProvider(name)
  \/ \E path \in session.points : \/ Unmount(path)
                                 \/ \E p \in 1 .. 2, ro \in BOOLEAN : MountProvider(path, p, ro)
  \/ \E path \in session.names : \/ \E kind \in {"File", "Directory"} : Create(path, kind)
                                \/ RemovePath(path) \/ OpenHandle(path)
                                \/ ReadText(path) \/ ChangeDirectory(path)
  \/ \E h \in handles : DropHandle(h) \/ \E data \in session.data : HandleWrite(h, data)
  \/ PublishEvent("PropertyChanged")
  \/ Subscribe \/ \E id \in 1 .. session.subs : Unsubscribe(id)

\* A call of the VFS that does not come through the namespace.
VfsCall ==
  /\ Next
  /\ handles' = {[h EXCEPT !.alone = @ /\ vfs'.nodes = vfs.nodes] : h \in handles}
  /\ Quiet
  /\ UNCHANGED <<saifs, om>>

SaifsNext == (~hung /\ SaifsCall) \/ VfsCall

SaifsSpec == SaifsInit /\ [][SaifsNext]_allvars

\* The checks of verify.
saifs_verify(s) ==
  /\ \E i \in DOMAIN s.mounts : s.mounts[i].path = <<>>
  /\ s.providers # <<>>

-----------------------------------------------------------------------------
(* Properties.                                                             *)

\* Every path without a zero byte goes to the deepest mount above it,
\* however "." and ".." spell it and in whatever order mounts came and went:
\* resolve_mount_internal finds one, the provider is registered, the path
\* asked of the provider is what is left below the mount, and no other mount
\* lies between the two.  So create and remove below a read-only mount fail
\* (test_read_only_mount_blocks_mutation, saifs/tests.rs).
RoutesToDeepestMount ==
  /\ (done # None /\ done.ro /\ done.call # "write") => ~done.ok
  /\ \A parts \in session.names \union session.points : ~Contains(parts, NUL) =>
       LET r == resolve_path_internal(saifs, parts)
       IN  /\ r # None
           /\ provider_by_id_internal(saifs, r.provider) # None
           /\ r.mount \o r.provider_path = Normalize(parts)
           /\ \A i \in DOMAIN saifs.mounts :
                IsPrefix(saifs.mounts[i].path, Normalize(parts)) => Len(saifs.mounts[i].path) <= Len(r.mount)

\* The kernel's own verification of SAIFS and of the object manager passes
\* whenever it is called: the root stays mounted and ids stay unique through
\* every sequence of mounts, unmounts and registrations.
VerifyPasses == saifs_verify(saifs) /\ om_verify(om)

\* The event log and the mount table tell one story: the newest event about a
\* path that the log still holds says whether something is mounted there,
\* ids grow by one along the log, and the newest event has the newest id.
LogTellsMounts ==
  LET log == saifs.events
      About(path) == {i \in DOMAIN log : log[i].type \in {"Mounted", "Unmounted"} /\ log[i].path = path}
      Newest(path) == log[CHOOSE i \in About(path) : \A j \in About(path) : j <= i].type
  IN  /\ \A path \in {log[i].path : i \in DOMAIN log} : About(path) # {} =>
           (Newest(path) = "Mounted") = (\E i \in DOMAIN saifs.mounts : saifs.mounts[i].path = path)
      /\ \A i \in DOMAIN log : log[i].id = saifs.next_event - Len(log) + i - 1

\* What the object manager made of the providers' answers is consistent: an
\* object is listed in its namespace, by the query for its provider and among
\* its parent's children exactly once, and it is found under its own path, even
\* when two providers, or a provider and the built-in objects, name one path.
NamespacesMatchProviders ==
  \A i \in DOMAIN om.objects :
    LET o == om.objects[i]
        parents == {p \in DOMAIN om.objects : Contains(om.objects[p].children, o.id)}
    IN  /\ object_by_path(om, o.path) = o.id
        /\ o.path \in query(om, {[key |-> "provider", value |-> o.provider, want |-> TRUE]})
        /\ parents = {p \in DOMAIN om.objects : om.objects[p].id = o.parent}
        /\ IsInjective(o.children)
        /\ Len(o.path) = 2 => Last(o.path) \in list_namespace(om, Front(o.path))

\* Whatever is mounted over whatever, a name that list shows in a directory is
\* found by lookup.  The volumes of /sys/storage are the exception: they are
\* listed there and have no path under /sys.
ListedNamesAreFound ==
  \A parts \in (session.names \union session.points) \ {<<"sys", "storage">>} :
    \A names \in {namespace_enumerate(parts)} : names # None =>
      \A name \in names : namespace_lookup(Append(parts, name)) # None

\* What the kernel shows of itself is one consistent picture: its own
\* verification passes, the objects match what the providers said, and what a
\* directory lists is there.
NamespacesAgree == VerifyPasses /\ NamespacesMatchProviders /\ ListedNamesAreFound

\* Writes through one handle follow one another in the file, although each of
\* them opens, seeks and closes anew: unless another handle, a removal or a
\* direct call touched the file, it begins with everything the handle wrote.
HandleWritesConcatenate ==
  \A h \in handles : (h.alone /\ h.written # <<>>) =>
    IsPrefix(h.written, Content(vfs, storage, Path(h.path)))
=============================================================================
