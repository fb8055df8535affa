--------------------------------- MODULE Vfs ---------------------------------
(***************************************************************************)
(* The virtual filesystem of seed/saios/src/vfs.rs over the tree of Tmpfs  *)
(* and the volumes of Storage, driven by the shell's commands and programs *)
(* and by the file system calls.  Each call runs to its end under the VFS  *)
(* lock on the one thread that uses files, so a command is one step.       *)
(*                                                                         *)
(* A call on a path normalizes it first.  For a relative path that walks   *)
(* from the current directory up to the root; if the walk never ends, the  *)
(* call never returns and the lock stays held (hung).                      *)
(*                                                                         *)
(* last is a history variable: the copy or append that was just made, with *)
(* the content it had to preserve.                                         *)
(***************************************************************************)
EXTENDS Storage

CONSTANTS
  Seeds,        \* the directories of the standard tree, in order
  Sessions      \* the sessions: records of what the commands of one may name
                \*   dirs    paths given to mkdir, unlink, rename, cd
                \*   files   paths given to touch, open, write_path, cp, mv
                \*   mounts  paths given to mount and umount
                \*   data    byte strings written
                \*   modes   options given to open
                \*   formats filesystems given to format
                \*   inodes, fds, len: bounds on nodes, descriptors, file length

VARIABLES
  session,  \* the member of Sessions that takes place
  vfs,      \* VfsState: nodes, cwd, open_files, mounts
  storage,  \* StorageState
  hung,
  last

vars == <<session, vfs, storage, hung, last>>

read_only == [read |-> TRUE, write |-> FALSE, create |-> FALSE, truncate |-> FALSE, append |-> FALSE]
write_only_create == [read |-> FALSE, write |-> TRUE, create |-> TRUE, truncate |-> TRUE, append |-> FALSE]
read_write_create == [read |-> TRUE, write |-> TRUE, create |-> TRUE, truncate |-> FALSE, append |-> FALSE]
append_create == [read |-> FALSE, write |-> TRUE, create |-> TRUE, truncate |-> FALSE, append |-> TRUE]

OpenOptions == {read_only, write_only_create, read_write_create, append_create}

ASSUME VfsAssumption ==
  /\ Seeds \in Seq(Seq(Text))
  /\ \A s \in Sessions :
       /\ s.dirs \cup s.files \cup s.mounts \subseteq PathType
       /\ s.data \subseteq Seq(Nat)
       /\ s.modes \subseteq OpenOptions /\ s.formats \subseteq Text
       /\ s.inodes \in Nat /\ s.fds \in Nat /\ s.len \in Nat
       /\ Len(Seeds) < s.inodes
       /\ \A data \in s.data : Len(data) <= s.len

-----------------------------------------------------------------------------
(* The calls, on a state s = [vfs, storage, ok].                           *)

is_sys_path(p) == p # <<>> /\ p[1] = "sys"

\* A path normalized, and the volume it lies on.
At(v, st, path) == Locate(st, normalized_path(v.nodes, v.cwd, path))

Unchanged(v, st, ok) == [vfs |-> v, storage |-> st, ok |-> ok]

FromStorage(v, r) == [vfs |-> v, storage |-> r.st, ok |-> r.ok]

\* What an operation on the tree answers: the nodes, None when it fails.
FromTree(v, st, nodes) ==
  IF nodes = None THEN Unchanged(v, st, FALSE)
  ELSE Unchanged([v EXCEPT !.nodes = nodes], st, TRUE)

\* mkdir and touch.
Make(v, st, path, kind) ==
  LET Do(at) ==
        IF is_sys_path(at.path) THEN Unchanged(v, st, FALSE)
        ELSE IF is_storage_backed(at)
        THEN FromStorage(v, fs_create(st, at, [kind |-> kind, data |-> <<>>]))
        ELSE FromTree(v, st, create(v.nodes, v.cwd, path, kind))
  IN  Do(At(v, st, path))

invalidate_inode_descriptors(files, inode) ==
  [fd \in DOMAIN files |->
     IF files[fd] # None /\ files[fd].inode = inode THEN None ELSE files[fd]]

RemoveNode_keeps_cwd(v, inode, nodes) == [v EXCEPT !.nodes = nodes]

\* The state when remove_inode has answered with nodes.
RemoveNode(v, inode, nodes) ==
  [v EXCEPT !.nodes = nodes, !.cwd = IF @ = inode THEN ROOT ELSE @]

\* The descriptors are gone also when the node then stays.
UnlinkInode(v, st, inode) ==
  LET shut == [v EXCEPT !.open_files = invalidate_inode_descriptors(@, inode)]
      Do(nodes) == IF nodes = None THEN Unchanged(shut, st, FALSE)
                   ELSE Unchanged(RemoveNode(shut, inode, nodes), st, TRUE)
  IN  IF inode = None THEN Unchanged(v, st, FALSE) ELSE Do(remove_inode(v.nodes, inode))

unlink(v, st, path) ==
  LET Do(at) ==
        IF is_sys_path(at.path) THEN Unchanged(v, st, FALSE)
        ELSE IF is_storage_backed(at) THEN FromStorage(v, fs_delete(st, at))
        ELSE UnlinkInode(v, st, resolve(v.nodes, v.cwd, path))
  IN  Do(At(v, st, path))

rename(v, st, from, to) ==
  LET FromRename(r) == Unchanged([v EXCEPT !.nodes = r.nodes], st, r.ok)
      Do(f, t) ==
        IF is_sys_path(f.path) \/ is_sys_path(t.path) THEN Unchanged(v, st, FALSE)
        ELSE IF is_storage_backed(f) \/ is_storage_backed(t)
        THEN FromStorage(v, fs_rename(st, f, t))
        ELSE FromRename(rename_path(v.nodes, v.cwd, from, to))
  IN  Do(At(v, st, from), At(v, st, to))

\* The first free slot of the table, or a new one.
alloc_fd(files) ==
  LET slot == position({fd \in DOMAIN files : files[fd] = None})
  IN  IF slot = 0 THEN Len(files) + 1 ELSE slot

\* The descriptor fd for inode, in the tree as open leaves it.
Descriptor(v, nodes, inode, o, fd) ==
  LET file == [inode |-> inode, readable |-> o.read, writable |-> o.write, append |-> o.append,
               offset |-> IF o.append THEN inode_len(nodes, inode) ELSE 0]
  IN  [vfs |-> [v EXCEPT !.nodes = nodes,
                         !.open_files = IF fd > Len(@) THEN Append(@, file)
                                        ELSE [@ EXCEPT ![fd] = file]],
       fd  |-> fd]

NotOpened(v) == [vfs |-> v, fd |-> None]

OpenInode(v, nodes, inode, o) ==
  IF ~IsKind(nodes, inode, "File") THEN NotOpened(v)
  ELSE Descriptor(v, IF o.truncate THEN truncate_inode(nodes, inode) ELSE nodes,
                  inode, o, alloc_fd(v.open_files))

\* open looks only at the tree, never at the volumes.  The answer is the
\* state and the descriptor, None when it fails.
open(v, path, o) ==
  LET Created == IF o.create /\ resolve(v.nodes, v.cwd, path) = None
                 THEN create(v.nodes, v.cwd, path, "File") ELSE v.nodes
      In(nodes) == IF nodes = None THEN NotOpened(v)
                   ELSE OpenInode(v, nodes, resolve(nodes, v.cwd, path), o)
  IN  IF (o.write \/ o.create) /\ is_sys_path(normalized_path(v.nodes, v.cwd, path))
      THEN NotOpened(v)
      ELSE In(Created)

IsOpen(v, fd) == fd \in DOMAIN v.open_files /\ v.open_files[fd] # None

close(v, fd) == [v EXCEPT !.open_files[fd] = None]

Start_stale(v, f) == f.offset

\* Where a write through f begins.
Start(v, f) == IF f.append THEN inode_len(v.nodes, f.inode) ELSE f.offset

WriteAt(v, fd, at, data) ==
  [v EXCEPT !.nodes = write_inode_at(@, v.open_files[fd].inode, at, data),
            !.open_files[fd].offset = at + Len(data)]

write(v, fd, data) == WriteAt(v, fd, Start(v, v.open_files[fd]), data)

\* What the object manager shows under /sys is no file of the tree.
sys_read(path) == None

DataOf(nodes, inode) == IF IsKind(nodes, inode, "File") THEN nodes[inode].data ELSE None

\* read_path without its effect, the content or None.
Content(v, st, path) ==
  LET Do(at) == IF is_sys_path(at.path) THEN sys_read(at.path)
                ELSE IF is_storage_backed(at) THEN fs_read(st, at)
                ELSE DataOf(v.nodes, resolve(v.nodes, v.cwd, path))
  IN  Do(At(v, st, path))

\* The descriptor that read_path opens is closed again; its slot remains.
read_path(v, st, path) ==
  LET Closed(r) == IF r.fd = None THEN v ELSE close(r.vfs, r.fd)
      Do(at) == IF is_sys_path(at.path) \/ is_storage_backed(at) THEN v
                ELSE Closed(open(v, path, read_only))
  IN  Do(At(v, st, path))

\* Open for writing, write, close: what write_path and cp_program do.
WriteWhole(v, st, path, data) ==
  LET Do(r) == IF r.fd = None THEN Unchanged(v, st, FALSE)
               ELSE Unchanged(close(write(r.vfs, r.fd, data), r.fd), st, TRUE)
  IN  Do(open(v, path, write_only_create))

write_path(v, st, path, data) ==
  LET Do(at) == IF is_storage_backed(at) THEN FromStorage(v, fs_write(st, at, data))
                ELSE WriteWhole(v, st, path, data)
  IN  Do(At(v, st, path))

-----------------------------------------------------------------------------
(* Commands and programs of the shell.                                     *)

\* resolve_relative_path: the current directory's path goes in front.
Absolute(v, path) ==
  IF path.abs THEN path ELSE Path(path_for_inode(v.nodes, v.cwd) \o path.parts)

\* cmd_cp, on absolute paths.
Copy(v, st, src, dst) ==
  LET Put(after, data) == IF data = None THEN Unchanged(after, st, FALSE)
                          ELSE write_path(after, st, dst, data)
  IN  Put(read_path(v, st, src), Content(v, st, src))

cmd_cp(v, st, src, dst) == Copy(v, st, Absolute(v, src), Absolute(v, dst))

\* cp_program opens both files itself.
cp_program(v, st, src, dst) ==
  LET From(r) == IF r.fd = None THEN Unchanged(v, st, FALSE)
                 ELSE WriteWhole(close(r.vfs, r.fd), st, Absolute(v, dst),
                                 v.nodes[r.vfs.open_files[r.fd].inode].data)
  IN  From(open(v, Absolute(v, src), read_only))

\* When the rename fails, a copy that succeeds is followed by unlink.
mv_program(v, st, src, dst) ==
  LET Copied(c)  == IF c.ok THEN unlink(c.vfs, c.storage, Absolute(v, src)) ELSE c
      Renamed(r) == IF r.ok THEN r ELSE Copied(cp_program(r.vfs, r.storage, src, dst))
  IN  Renamed(rename(v, st, Absolute(v, src), Absolute(v, dst)))

\* cmd_mount of the shell and of diskpart, and auto_mount_real_fs: make the
\* directory, record the mount, then mount the volume.
MountOn(made, name, path, ro, abs) ==
  LET fs == made.storage.volumes[Named(made.storage, name)].filesystem
      mount == [path |-> abs, fs_name |-> fs, read_only |-> ro]
  IN  IF \/ ~IsKind(made.vfs.nodes, resolve(made.vfs.nodes, made.vfs.cwd, Path(abs)), "Directory")
         \/ \E m \in made.vfs.mounts : m.path = abs
      THEN [made EXCEPT !.ok = FALSE]
      ELSE FromStorage([made.vfs EXCEPT !.mounts = @ \cup {mount}],
                       mount_volume(made.storage, name, path))

cmd_mount(v, st, name, path, ro) ==
  LET Do(made) == MountOn(made, name, path, ro,
                          normalized_path(made.vfs.nodes, made.vfs.cwd, path))
  IN  Do(Make(v, st, path, "Directory"))

cmd_umount(v, st, path) ==
  LET Do(abs) ==
        IF abs = <<>> \/ \A m \in v.mounts : m.path # abs THEN Unchanged(v, st, FALSE)
        ELSE FromStorage([v EXCEPT !.mounts = {m \in @ : m.path # abs}], umount_volume(st, path))
  IN  Do(normalized_path(v.nodes, v.cwd, path))

-----------------------------------------------------------------------------
(* Steps.                                                                  *)

\* The tree after k directories; one that cannot be made is left out.
seed_standard_tree[k \in 0 .. Len(Seeds)] ==
  LET Made(nodes, made) == IF made = None THEN nodes ELSE made
  IN  IF k = 0 THEN <<NewNode("/", "Directory", None)>>
      ELSE Made(seed_standard_tree[k - 1],
                create(seed_standard_tree[k - 1], ROOT, Path(Seeds[k]), "Directory"))

Init ==
  /\ session \in Sessions
  /\ vfs = [nodes |-> seed_standard_tree[Len(Seeds)],
            cwd |-> ROOT, open_files |-> <<>>,
            mounts |-> {[path |-> <<>>, fs_name |-> "TmpFs", read_only |-> FALSE]}]
  /\ storage = Scan
  /\ hung = FALSE
  /\ last = None

\* The walk from the current directory never ends.
Hangs(path) == ~path.abs /\ path_for_inode(vfs.nodes, vfs.cwd) = None

Returns(path) == ~hung /\ ~Hangs(path)

Hang(path) ==
  /\ ~hung /\ Hangs(path)
  /\ hung' = TRUE
  /\ last' = None
  /\ UNCHANGED <<session, vfs, storage>>

\* A call took place with result s, within the bounds.
Effect(s) ==
  /\ Len(s.vfs.nodes) <= session.inodes
  /\ Len(s.vfs.open_files) <= session.fds
  /\ vfs' = s.vfs
  /\ storage' = s.storage
  /\ UNCHANGED <<session, hung>>

Forget == last' = None

MakeNode(path, kind) ==
  /\ Returns(path) /\ Forget
  /\ \E s \in {Make(vfs, storage, path, kind)} : Effect(s)

Unlink(path) ==
  /\ Returns(path) /\ Forget
  /\ \E s \in {unlink(vfs, storage, path)} : Effect(s)

Rename(from, to) ==
  /\ Returns(from) /\ Returns(to) /\ Forget
  /\ \E s \in {rename(vfs, storage, from, to)} : Effect(s)

Cd(path) ==
  /\ ~hung /\ Forget
  /\ \E inode \in {resolve(vfs.nodes, vfs.cwd, path)} :
       /\ IsKind(vfs.nodes, inode, "Directory")
       /\ vfs' = [vfs EXCEPT !.cwd = inode]
  /\ UNCHANGED <<session, storage, hung>>

Open(path, o) ==
  /\ Returns(path) /\ Forget
  /\ \E r \in {open(vfs, path, o)} : Effect(Unchanged(r.vfs, storage, r.fd # None))

Close(fd) ==
  /\ ~hung /\ IsOpen(vfs, fd) /\ Forget
  /\ Effect(Unchanged(close(vfs, fd), storage, TRUE))

Read(fd, max_len) ==
  /\ ~hung /\ IsOpen(vfs, fd) /\ vfs.open_files[fd].readable /\ Forget
  /\ \E f \in {vfs.open_files[fd]} :
       vfs' = [vfs EXCEPT !.open_files[fd].offset =
                 @ + Len(read_inode_range(vfs.nodes, f.inode, f.offset, max_len))]
  /\ UNCHANGED <<session, storage, hung>>

Write(fd, data) ==
  /\ ~hung /\ IsOpen(vfs, fd) /\ vfs.open_files[fd].writable
  /\ Start(vfs, vfs.open_files[fd]) + Len(data) <= session.len
  /\ Effect(Unchanged(write(vfs, fd, data), storage, TRUE))
  /\ \E f \in {vfs.open_files[fd]} :
       last' = IF f.append THEN [op |-> "append", inode |-> f.inode,
                                 content |-> vfs.nodes[f.inode].data \o data]
               ELSE None


\* An offset is kept within the file.
Clamp(target, len) == IF target < 0 THEN 0 ELSE IF target > len THEN len ELSE target

\* from the start, the current offset or the end, by delta.
Seek(fd, from, delta) ==
  /\ ~hung /\ IsOpen(vfs, fd) /\ Forget
  /\ \E f \in {vfs.open_files[fd]}, len \in {inode_len(vfs.nodes, vfs.open_files[fd].inode)} :
       LET target == delta + CASE from = "Start"   -> 0
                               [] from = "Current" -> f.offset
                               [] from = "End"     -> len
       IN  vfs' = [vfs EXCEPT !.open_files[fd].offset = Clamp(target, len)]
  /\ UNCHANGED <<session, storage, hung>>

WritePath(path, data) ==
  /\ Returns(path) /\ Forget
  /\ \E s \in {write_path(vfs, storage, path, data)} : Effect(s)

CmdCp(src, dst) ==
  /\ Returns(src) /\ Returns(dst)
  /\ \E s \in {cmd_cp(vfs, storage, src, dst)} :
       /\ Effect(s)
       /\ last' = IF s.ok THEN [op |-> "cp", dst |-> Absolute(vfs, dst),
                                 content |-> Content(vfs, storage, Absolute(vfs, src))]
                  ELSE None

CpProgram(src, dst) ==
  /\ Returns(src) /\ Returns(dst) /\ Forget
  /\ \E s \in {cp_program(vfs, storage, src, dst)} : Effect(s)

MvProgram(src, dst) ==
  /\ Returns(src) /\ Returns(dst) /\ Forget
  /\ \E s \in {mv_program(vfs, storage, src, dst)} : Effect(s)

CmdMount(name, path, ro) ==
  /\ Returns(path) /\ path # Path(<<>>) /\ Forget
  /\ \E s \in {cmd_mount(vfs, storage, name, path, ro)} : Effect(s)

CmdUmount(path) ==
  /\ Returns(path) /\ Forget
  /\ \E s \in {cmd_umount(vfs, storage, path)} : Effect(s)

rescan ==
  /\ ~hung /\ Forget
  /\ storage' = Scan
  /\ UNCHANGED <<session, vfs, hung>>

Format(name, fs) ==
  /\ ~hung /\ Forget
  /\ storage' = format_volume(storage, name, fs).st
  /\ UNCHANGED <<session, vfs, hung>>

Names == {Registry[i].name : i \in DOMAIN Registry}

Next ==
  \/ \E path \in session.dirs : Hang(path) \/ MakeNode(path, "Directory") \/ Unlink(path) \/ Cd(path)
  \/ \E from, to \in session.dirs : Rename(from, to)
  \/ \E path \in session.files : \/ MakeNode(path, "File")
                             \/ \E o \in session.modes : Open(path, o)
                             \/ \E data \in session.data : WritePath(path, data)
  \/ \E fd \in 1 .. session.fds : \/ Close(fd)
                             \/ Read(fd, 1)
                             \/ \E data \in session.data : Write(fd, data)
                             \/ \E from \in {"Start", "Current", "End"} : Seek(fd, from, -1) \/ Seek(fd, from, 1)
  \/ \E src, dst \in session.files : CmdCp(src, dst) \/ CpProgram(src, dst) \/ MvProgram(src, dst)
  \/ \E name \in Names, path \in session.mounts, ro \in BOOLEAN : CmdMount(name, path, ro)
  \/ \E path \in session.mounts : CmdUmount(path)
  \/ \E name \in Names, fs \in session.formats : Format(name, fs)
  \/ session.mounts # {} /\ rescan

Spec == Init /\ [][Next]_vars

-----------------------------------------------------------------------------
(* Properties.                                                             *)

\* A descriptor never outlives its file: unlink invalidates the descriptors
\* of the inode it removes, so read, write and seek always find a file.
DescriptorsHaveFiles ==
  \A fd \in DOMAIN vfs.open_files :
    vfs.open_files[fd] # None => IsKind(vfs.nodes, vfs.open_files[fd].inode, "File")

\* Every node but the root has a parent that exists.
NoOrphans(nodes) ==
  \A i \in DOMAIN nodes : (i # ROOT /\ nodes[i] # None) => Live(nodes, nodes[i].parent)

\* The two sides of the tree agree through every insert, removal and rename
\* of TmpFs: a listed child exists and names its directory as its parent, and no
\* directory lists two children of one name.  However directories are removed
\* and renamed, the current directory is a directory that exists (remove_inode
\* resets cwd, and a directory with children cannot go), and the open
\* descriptors are on files that exist.  Every node is listed by its parent, also
\* when a rename has put it below itself, until a node is orphaned: a rename may
\* put a directory below a file, whose unlinking leaves the directory without a
\* parent, and a rename to a path that leads there drops its source from the
\* tree before it fails.
TreeIsConsistent ==
  /\ IsKind(vfs.nodes, vfs.cwd, "Directory")
  /\ DescriptorsHaveFiles
  /\ \A i \in DOMAIN vfs.nodes : vfs.nodes[i] # None =>
       /\ \A c \in vfs.nodes[i].children : Live(vfs.nodes, c) /\ vfs.nodes[c].parent = i
       /\ vfs.nodes[i].kind = "Directory" =>
            \A c, d \in vfs.nodes[i].children : vfs.nodes[c].name = vfs.nodes[d].name => c = d
  /\ NoOrphans(vfs.nodes) =>
       \A i \in DOMAIN vfs.nodes : (i # ROOT /\ vfs.nodes[i] # None) =>
         i \in vfs.nodes[vfs.nodes[i].parent].children

\* A write through a descriptor opened for appending keeps what is in the
\* file, also when another descriptor has extended or truncated it since.
AppendKeepsContent ==
  (last # None /\ last.op = "append") => vfs.nodes[last.inode].data = last.content

\* A copy that the cp command reports as made holds what the source held,
\* whether the two files are on the tree or on a volume and whatever the
\* destination held before.  Below /sys a volume can be mounted and written, and
\* read_path still asks the object manager.
CopiesAreExact ==
  (last # None /\ last.op = "cp" /\ ~is_sys_path(Normalize(last.dst.parts))) =>
    Content(vfs, storage, last.dst) = last.content

\* No write that is reported as made loses content: neither the copies of cp
\* nor the writes of an append descriptor.
WritesAreExact == CopiesAreExact /\ AppendKeepsContent

\* A volume mounted at a path has its tree loaded, and a FAT32 partition
\* holds that tree whenever it is large enough for it: every operation that
\* changes the tree saves it.
VolumesAreSaved ==
  \A i \in DOMAIN storage.volumes :
    LET v == storage.volumes[i]
    IN  (v.mounted_at # None /\ fs_supports_mount_tree(v.filesystem)) =>
          /\ v.name \in DOMAIN storage.mounted
          /\ (v.filesystem = "Fat32" /\ Size(storage.mounted[v.name]) <= Capacity)
               => storage.disk[v.name] = storage.mounted[v.name]
==============================================================================
