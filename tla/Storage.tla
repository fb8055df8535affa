------------------------------- MODULE Storage -------------------------------
(***************************************************************************)
(* The storage driver of seed/saios/src/driver/storage.rs as operators on  *)
(* its state: the volume registry, the partitions' bytes and the trees of  *)
(* the mounted volumes.  A tree maps a path (a sequence of names) to its   *)
(* node.  A change to a FAT32 volume rewrites the whole partition with the *)
(* serialised tree.                                                        *)
(*                                                                         *)
(* Disks are memory that every scan creates anew.  What a partition holds  *)
(* is the tree it would be read back as: a serialised tree that was cut    *)
(* off at the partition's end does not parse, and neither do the zeros of  *)
(* a new disk; both load as the default tree.                              *)
(***************************************************************************)
EXTENDS Tmpfs

CONSTANTS
  Registry,     \* the volumes a scan finds, in order: name, filesystem, partition
  Capacity,     \* of a partition
  FatDirs       \* directories of an empty FAT32 volume

\* Volumes are told apart by their names; the scan numbers them.
ASSUME StorageAssumption ==
  /\ Registry \in Seq([name : Text, filesystem : Text, partition : BOOLEAN])
  /\ \A i, j \in DOMAIN Registry : Registry[i].name = Registry[j].name => i = j
  /\ \A i \in DOMAIN Registry : Registry[i].name # "tmpfs"

Dir == [kind |-> "Directory", data |-> <<>>]
File(data) == [kind |-> "File", data |-> data]

default_fat_tree == [p \in {<<>>} \cup {<<d>> : d \in FatDirs} |-> Dir]

default_ro_tree == [p \in {<<>>, <<"README">>} |-> IF p = <<>> THEN Dir ELSE File(<<0>>)]

Size(tree) == MapThenSumSet(LAMBDA p : 1 + Len(tree[p].data), DOMAIN tree)

\* discover_disks_from_pci and rebuild_volume_registry.
Scan ==
  [volumes |-> <<[name |-> "tmpfs", filesystem |-> "TmpFs", partition |-> FALSE,
                  mounted_at |-> [abs |-> TRUE, parts |-> <<>>]]>>
               \o [i \in DOMAIN Registry |->
                     [name |-> Registry[i].name, filesystem |-> Registry[i].filesystem,
                      partition |-> Registry[i].partition, mounted_at |-> None]],
   disk    |-> [v \in {Registry[i].name : i \in {j \in DOMAIN Registry : Registry[j].partition}}
                |-> default_fat_tree],
   mounted |-> <<>>]

fs_supports_rw_tree(fs) == fs = "Fat32"
fs_supports_mount_tree(fs) == fs \in {"Fat32", "Ext4", "Ntfs"}

\* The position of a volume in the registry, 0 when there is none.
Named(st, name) == position({i \in DOMAIN st.volumes : st.volumes[i].name = name})

MountedAt(st, path) == position({i \in DOMAIN st.volumes : st.volumes[i].mounted_at = path})

Fails(st) == [st |-> st, ok |-> FALSE]

-----------------------------------------------------------------------------
(* Partitions.                                                             *)

\* write_partition_bytes: what does not fit is cut off, and the call fails.
WritePartition(st, name, tree) ==
  IF Size(tree) <= Capacity
  THEN [st |-> [st EXCEPT !.disk[name] = tree], ok |-> TRUE]
  ELSE [st |-> [st EXCEPT !.disk[name] = default_fat_tree], ok |-> FALSE]

save_mounted_volume(st, name) == WritePartition(st, name, st.mounted[name])

WithEntry(f, k, v) == [j \in DOMAIN f \cup {k} |-> IF j = k THEN v ELSE f[j]]

Drop(f, k) == [j \in DOMAIN f \ {k} |-> f[j]]

\* A tree that is there already stays.
ensure_volume_mounted(st, vol) ==
  IF vol.name \in DOMAIN st.mounted \/ ~fs_supports_mount_tree(vol.filesystem) THEN st
  ELSE [st EXCEPT !.mounted = WithEntry(@, vol.name, IF vol.filesystem = "Fat32"
                                                     THEN st.disk[vol.name] ELSE default_ro_tree)]

\* The path is kept as it was given.
MountAt(st, idx, vol, path) ==
  IF \/ vol.mounted_at # None
     \/ \E i \in DOMAIN st.volumes : st.volumes[i].mounted_at = path
     \/ vol.filesystem = "Fat32" /\ ~vol.partition /\ vol.name \notin DOMAIN st.mounted
  THEN Fails(st)
  ELSE [st |-> [ensure_volume_mounted(st, vol) EXCEPT !.volumes[idx].mounted_at = path],
        ok |-> TRUE]

mount_volume(st, name, path) ==
  LET At(idx) == IF idx = 0 THEN Fails(st) ELSE MountAt(st, idx, st.volumes[idx], path)
  IN  At(Named(st, name))

UmountAt(st, idx, vol) ==
  [st |-> [(IF vol.filesystem = "Fat32" THEN save_mounted_volume(st, vol.name).st ELSE st)
             EXCEPT !.volumes[idx].mounted_at = None, !.mounted = Drop(@, vol.name)],
   ok |-> TRUE]

umount_volume(st, path) ==
  LET At(idx) == IF idx = 0 THEN Fails(st) ELSE UmountAt(st, idx, st.volumes[idx])
  IN  At(MountedAt(st, path))

\* The filesystem is recorded before the partition is looked up.
FormatAt(st, vol, as, fs) ==
  IF vol.mounted_at # None THEN Fails(st)
  ELSE IF fs # "Fat32" THEN [st |-> as, ok |-> TRUE]
  ELSE IF ~vol.partition THEN Fails(as)
  ELSE WritePartition(as, vol.name, default_fat_tree)

format_volume(st, name, fs) ==
  LET At(idx) == IF idx = 0 THEN Fails(st)
                 ELSE FormatAt(st, st.volumes[idx],
                               [st EXCEPT !.volumes[idx].filesystem = fs], fs)
  IN  At(Named(st, name))

-----------------------------------------------------------------------------
(* Operations on the volume that a path lies on.                           *)

MountPoint(vol) == Normalize(vol.mounted_at.parts)

\* Of the volumes mounted above a path: the longest mount path, the last one of
\* equal ones.
Longest(at) ==
  CHOOSE i \in DOMAIN at : \A j \in DOMAIN at : \/ Len(at[j]) < Len(at[i])
                                                \/ Len(at[j]) = Len(at[i]) /\ j <= i

VolumeIndex(st, p) ==
  Longest([i \in {i \in DOMAIN st.volumes : /\ st.volumes[i].mounted_at # None
                                            /\ starts_with(p, MountPoint(st.volumes[i]))}
           |-> MountPoint(st.volumes[i])])

\* mounted_volume_for_path_internal: where the path p lies, on which volume and
\* at which path of its tree.
OnVolume(p, vol) ==
  [path |-> p, name |-> vol.name, filesystem |-> vol.filesystem,
   rel |-> SubSeq(p, Len(MountPoint(vol)) + 1, Len(p))]

Locate(st, p) == OnVolume(p, st.volumes[VolumeIndex(st, p)])

is_storage_backed(at) == at.name # "tmpfs"

Writable(at) == fs_supports_rw_tree(at.filesystem)

CommitUnsaved(st, at, tree) ==
  [st |-> [st EXCEPT !.mounted[at.name] = tree], ok |-> TRUE]

\* The changed tree stays when it cannot be saved.
Commit(st, at, tree) ==
  save_mounted_volume([st EXCEPT !.mounted[at.name] = tree], at.name)

ensure_parent_dir(tree, rel) ==
  /\ rel # <<>>
  /\ parent_path(rel) \in DOMAIN tree
  /\ tree[parent_path(rel)].kind = "Directory"

\* fs_create and fs_mkdir.
fs_create(st, at, node) ==
  LET tree == st.mounted[at.name]
  IN  IF ~Writable(at) \/ at.rel \in DOMAIN tree \/ ~ensure_parent_dir(tree, at.rel)
      THEN Fails(st)
      ELSE Commit(st, at, WithEntry(tree, at.rel, node))

fs_delete(st, at) ==
  LET tree == st.mounted[at.name]
  IN  IF \/ at.rel = <<>> \/ ~Writable(at) \/ at.rel \notin DOMAIN tree
         \/ /\ tree[at.rel].kind = "Directory"
            /\ \E q \in DOMAIN tree : q # at.rel /\ starts_with(q, at.rel)
      THEN Fails(st)
      ELSE Commit(st, at, Drop(tree, at.rel))

\* to followed by the text of path after old.  For the root that text lacks
\* its "/", so that names grow together.
Joined(to, old, path) ==
  IF old = <<>> THEN parent_path(to) \o <<file_name(to) \o path[1]>> \o Tail(path)
  ELSE to \o SubSeq(path, Len(old) + 1, Len(path))

\* Where fs_rename leaves the node at path: the directory itself is moved
\* first and then meets the loop over its children.
RenamedPath(tree, old, to, path) ==
  LET moved == IF path = old THEN to ELSE path
  IN  IF tree[old].kind = "Directory" /\ moved # old /\ starts_with(moved, old)
      THEN Joined(to, old, moved) ELSE moved

RenamedTree(tree, old, to) ==
  LET New(path) == RenamedPath(tree, old, to, path)
  IN  [q \in {New(path) : path \in DOMAIN tree} |->
         tree[CHOOSE path \in DOMAIN tree : New(path) = q]]

fs_rename(st, from, to) ==
  LET tree == st.mounted[from.name]
  IN  IF \/ from.name # to.name \/ ~Writable(from)
         \/ ~ensure_parent_dir(tree, to.rel)
         \/ to.rel \in DOMAIN tree \/ from.rel \notin DOMAIN tree
      THEN Fails(st)
      ELSE Commit(st, from, RenamedTree(tree, from.rel, to.rel))

fs_write(st, at, data) ==
  LET tree == st.mounted[at.name]
  IN  IF \/ ~Writable(at)
         \/ at.rel \notin DOMAIN tree /\ ~ensure_parent_dir(tree, at.rel)
         \/ at.rel \in DOMAIN tree /\ tree[at.rel].kind # "File"
      THEN Fails(st)
      ELSE Commit(st, at, WithEntry(tree, at.rel, File(data)))

\* The bytes fs_read answers, or None.
fs_read(st, at) ==
  LET tree == st.mounted[at.name]
  IN  IF ~fs_supports_mount_tree(at.filesystem) THEN None
      ELSE IF at.rel \in DOMAIN tree /\ tree[at.rel].kind = "File"
      THEN tree[at.rel].data ELSE None
==============================================================================
