------------------------------ MODULE VfsProofs ------------------------------
(***************************************************************************)
(* Proofs about module Vfs: the tree of the virtual filesystem stays       *)
(* consistent, writes lose nothing and mounted volumes are saved, for any  *)
(* volumes, sessions and numbers of nodes, descriptors and bytes.          *)
(***************************************************************************)
EXTENDS Vfs, StorageProofs

USE SMTT(20), ZenonT(20)

-----------------------------------------------------------------------------
(* Descriptors.                                                            *)

FileType == [inode : Nat, readable : BOOLEAN, writable : BOOLEAN, append : BOOLEAN, offset : Nat]

FilesOK(nodes, files) ==
  /\ files \in Seq(FileType \cup {None})
  /\ \A fd \in DOMAIN files : files[fd] # None => IsKind(nodes, files[fd].inode, "File")

VfsOK(v) ==
  /\ v = [nodes |-> v.nodes, cwd |-> v.cwd, open_files |-> v.open_files, mounts |-> v.mounts]
  /\ TreeOK(v.nodes)
  /\ IsKind(v.nodes, v.cwd, "Directory")
  /\ FilesOK(v.nodes, v.open_files)

WithNodes(v, nodes) == [v EXCEPT !.nodes = nodes]
WithFiles(v, files) == [v EXCEPT !.open_files = files]

LEMMA VfsFields ==
  ASSUME NEW v, VfsOK(v), NEW nodes, NEW files
  PROVE  /\ WithNodes(v, nodes) = [nodes |-> nodes, cwd |-> v.cwd, open_files |-> v.open_files,
                                   mounts |-> v.mounts]
         /\ WithFiles(v, files) = [nodes |-> v.nodes, cwd |-> v.cwd, open_files |-> files,
                                   mounts |-> v.mounts]
BY DEF VfsOK, WithNodes, WithFiles

\* v with the fields a call gives it.
LEMMA VfsRecord ==
  ASSUME NEW nodes, NEW cwd, NEW files, NEW mounts,
         TreeOK(nodes), IsKind(nodes, cwd, "Directory"), FilesOK(nodes, files)
  PROVE  VfsOK([nodes |-> nodes, cwd |-> cwd, open_files |-> files, mounts |-> mounts])
BY DEF VfsOK

LEMMA CwdLive ==
  ASSUME NEW v, VfsOK(v)
  PROVE  v.cwd \in Nat /\ Live(v.nodes, v.cwd) /\ v.nodes \in NodeSeq
<1>1. v.nodes \in NodeSeq /\ Live(v.nodes, v.cwd)
  BY Zenon DEF VfsOK, IsKind, TreeOK
<1> QED BY <1>1, LiveNode, Zenon

\* The nodes of v replaced by others that are still there.
LEMMA NodesChanged ==
  ASSUME NEW v, VfsOK(v), NEW n2, TreeOK(n2), Survives(v.nodes, n2)
  PROVE  /\ VfsOK(WithNodes(v, n2)) /\ WithNodes(v, n2).nodes = n2
         /\ WithNodes(v, n2).cwd = v.cwd /\ WithNodes(v, n2).open_files = v.open_files
<1>1. IsKind(n2, v.cwd, "Directory")
  BY Zenon DEF VfsOK, IsKind, Survives
<1>2. FilesOK(n2, v.open_files)
  BY Zenon DEF VfsOK, FilesOK, IsKind, Survives
<1> DEFINE v2 == WithNodes(v, n2)
<1>3. v2 = [nodes |-> n2, cwd |-> v.cwd, open_files |-> v.open_files, mounts |-> v.mounts]
  BY VfsFields, Zenon
<1> HIDE DEF v2
<1>4. VfsOK(v2)
  BY <1>1, <1>2, <1>3, VfsRecord, Zenon
<1> QED BY <1>3, <1>4 DEF v2

LEMMA FilesChanged ==
  ASSUME NEW v, VfsOK(v), NEW files, FilesOK(v.nodes, files)
  PROVE  /\ VfsOK(WithFiles(v, files)) /\ WithFiles(v, files).nodes = v.nodes
         /\ WithFiles(v, files).cwd = v.cwd /\ WithFiles(v, files).open_files = files
<1> DEFINE v2 == WithFiles(v, files)
<1>1. v2 = [nodes |-> v.nodes, cwd |-> v.cwd, open_files |-> files, mounts |-> v.mounts]
  BY VfsFields, Zenon
<1>2. TreeOK(v.nodes) /\ IsKind(v.nodes, v.cwd, "Directory")
  BY Zenon DEF VfsOK
<1> HIDE DEF v2
<1>3. VfsOK(v2)
  BY <1>1, <1>2, VfsRecord, Zenon
<1> QED BY <1>1, <1>3 DEF v2

SetFile(files, fd, f) == [files EXCEPT ![fd] = f]

\* One descriptor replaced.
LEMMA SetFileOK ==
  ASSUME NEW nodes, NEW files, FilesOK(nodes, files), NEW fd \in DOMAIN files,
         NEW f \in FileType \cup {None}, f # None => IsKind(nodes, f.inode, "File")
  PROVE  FilesOK(nodes, SetFile(files, fd, f)) /\ SetFile(files, fd, f)[fd] = f
         /\ DOMAIN SetFile(files, fd, f) = DOMAIN files
<1> DEFINE g == SetFile(files, fd, f)
           T == FileType \cup {None}
<1>1. files \in Seq(T)
  BY DEF FilesOK
<1> HIDE DEF T
<1>2. /\ DOMAIN g = DOMAIN files /\ g[fd] = f
      /\ \A k \in DOMAIN files : k # fd => g[k] = files[k]
  BY <1>1 DEF SetFile
<1>3. g \in Seq(T)
  <2>1. DOMAIN files = 1 .. Len(files) /\ Len(files) \in Nat
    BY <1>1, LenProperties
  <2>2. \A k \in 1 .. Len(files) : g[k] \in T
    BY <2>1, <1>1, <1>2, ElementOfSeq DEF T
  <2>3. g = [k \in 1 .. Len(files) |-> g[k]]
    BY <2>1, Zenon DEF SetFile
  <2> HIDE DEF g
  <2> QED BY <2>1, <2>2, <2>3, IsASeq
<1> HIDE DEF g
<1>4. \A k \in DOMAIN g : g[k] # None => IsKind(nodes, g[k].inode, "File")
  BY <1>2, Zenon DEF FilesOK
<1> QED BY <1>2, <1>3, <1>4, Zenon DEF FilesOK, g, T

LEMMA AddFileOK ==
  ASSUME NEW nodes, NEW files, FilesOK(nodes, files), NEW f \in FileType,
         IsKind(nodes, f.inode, "File")
  PROVE  /\ FilesOK(nodes, Append(files, f)) /\ Append(files, f)[Len(files) + 1] = f
         /\ Len(files) + 1 \in DOMAIN Append(files, f)
<1> DEFINE g == Append(files, f)
           T == FileType \cup {None}
<1>1. files \in Seq(T) /\ f \in T
  BY DEF FilesOK
<1> HIDE DEF T
<1>2. DOMAIN files = 1 .. Len(files) /\ Len(files) \in Nat
  BY <1>1, LenProperties
<1>3. /\ g \in Seq(T) /\ DOMAIN g = 1 .. Len(files) + 1 /\ g[Len(files) + 1] = f
      /\ \A k \in 1 .. Len(files) : g[k] = files[k]
  BY <1>1, AppendProperties
<1> HIDE DEF g
<1>4. ASSUME NEW k \in DOMAIN g, g[k] # None PROVE IsKind(nodes, g[k].inode, "File")
  <2>1. CASE k = Len(files) + 1
    BY <2>1, <1>3
  <2>2. CASE k # Len(files) + 1
    <3>1. k \in 1 .. Len(files)
      BY <2>2, <1>2, <1>3
    <3> QED BY <3>1, <1>2, <1>3, <1>4, Zenon DEF FilesOK
  <2> QED BY <2>1, <2>2
<1>5. Len(files) + 1 \in DOMAIN g
  BY <1>2, <1>3
<1> QED BY <1>3, <1>4, <1>5, Zenon DEF FilesOK, g, T

-----------------------------------------------------------------------------
(* The calls.                                                              *)

\* The path can be normalized.
PathOK(v, path) == path \in PathType /\ (path.abs \/ path_for_inode(v.nodes, v.cwd) # None)

ResultOK(s) ==
  /\ s = [vfs |-> s.vfs, storage |-> s.storage, ok |-> s.ok]
  /\ VfsOK(s.vfs) /\ StorageOK(s.storage)

LEMMA PathIsNames ==
  ASSUME NEW v, VfsOK(v), NEW path, PathOK(v, path)
  PROVE  /\ normalized_path(v.nodes, v.cwd, path) \in Seq(Text)
         /\ Absolute(v, path) \in PathType /\ Absolute(v, path).abs
<1> DEFINE dir == path_for_inode(v.nodes, v.cwd)
<1>1. path.parts \in Seq(Text)
  BY DEF PathOK, PathType
<1>2. CASE path.abs
  <2>1. <<>> \o path.parts \in Seq(Text)
    BY <1>1
  <2>2. normalized_path(v.nodes, v.cwd, path) = Normalize(<<>> \o path.parts)
    BY <1>2, Zenon DEF normalized_path
  <2> QED BY <1>2, <2>1, <2>2, NormalizeType, Zenon DEF Absolute, PathOK
<1>3. CASE ~path.abs
  <2>1. dir \in Seq(Text)
    BY <1>3, CwdLive, PathNames DEF PathOK
  <2>2. dir \o path.parts \in Seq(Text)
    BY <1>1, <2>1
  <2>3. normalized_path(v.nodes, v.cwd, path) = Normalize(dir \o path.parts)
    BY <1>3, Zenon DEF normalized_path
  <2>4. Absolute(v, path) = Path(dir \o path.parts)
    BY <1>3, Zenon DEF Absolute
  <2> DEFINE parts == dir \o path.parts
  <2> HIDE DEF parts
  <2>5. Path(parts).abs /\ (parts \in Seq(Text) => Path(parts) \in PathType)
    BY DEF Path, PathType
  <2> QED BY <2>2, <2>3, <2>4, <2>5, NormalizeType, Zenon DEF parts
<1> QED BY <1>2, <1>3

LEMMA AbsoluteOK ==
  ASSUME NEW v, NEW w, VfsOK(v), NEW path, PathOK(v, path)
  PROVE  PathOK(w, Absolute(v, path))
BY PathIsNames, Zenon DEF PathOK

LEMMA AtMounted ==
  ASSUME NEW v, VfsOK(v), NEW st, StorageOK(st), NEW path, PathOK(v, path)
  PROVE  Mounted(st, At(v, st, path))
BY PathIsNames, LocateMounted, Zenon DEF At

LEMMA UnchangedFields ==
  ASSUME NEW v, NEW st, NEW ok
  PROVE  /\ Unchanged(v, st, ok).vfs = v /\ Unchanged(v, st, ok).storage = st
         /\ Unchanged(v, st, ok).ok = ok
BY DEF Unchanged

LEMMA StorageFields ==
  ASSUME NEW v, NEW r
  PROVE  /\ FromStorage(v, r).vfs = v /\ FromStorage(v, r).storage = r.st
         /\ FromStorage(v, r).ok = r.ok
BY DEF FromStorage

LEMMA UnchangedOK ==
  ASSUME NEW v, VfsOK(v), NEW st, StorageOK(st), NEW ok
  PROVE  ResultOK(Unchanged(v, st, ok))
<1>1. Unchanged(v, st, ok) = [vfs |-> v, storage |-> st, ok |-> ok]
  BY Zenon DEF Unchanged
<1> HIDE DEF Unchanged
<1> QED BY <1>1, UnchangedFields DEF ResultOK

LEMMA FromStorageOK ==
  ASSUME NEW v, VfsOK(v), NEW r, StorageOK(r.st)
  PROVE  ResultOK(FromStorage(v, r))
<1>1. FromStorage(v, r) = [vfs |-> v, storage |-> r.st, ok |-> r.ok]
  BY Zenon DEF FromStorage
<1> QED BY <1>1, StorageFields DEF ResultOK

LEMMA MakeOK ==
  ASSUME NEW v, VfsOK(v), NEW st, StorageOK(st), NEW path, PathOK(v, path),
         NEW kind \in {"File", "Directory"}
  PROVE  ResultOK(Make(v, st, path, kind))
<1> DEFINE at == At(v, st, path)
           node == [kind |-> kind, data |-> <<>>]
           n2 == create(v.nodes, v.cwd, path, kind)
<1>1. CASE is_sys_path(at.path)
  BY <1>1, UnchangedOK, Zenon DEF Make
<1>2. CASE ~is_sys_path(at.path) /\ is_storage_backed(at)
  <2>1. Make(v, st, path, kind) = FromStorage(v, fs_create(st, at, node))
    BY <1>2, Zenon DEF Make
  <2>2. node.data \in Seq(Nat)
    OBVIOUS
  <2>3. Mounted(st, at)
    BY AtMounted, Zenon
  <2> HIDE DEF at, node
  <2>4. StorageOK(fs_create(st, at, node).st)
    BY <2>2, <2>3, FsCreateOK
  <2> QED BY <2>1, <2>4, FromStorageOK, Zenon
<1>3. CASE ~is_sys_path(at.path) /\ ~is_storage_backed(at)
  <2>1. Make(v, st, path, kind) = FromTree(v, st, n2)
    BY <1>3, Zenon DEF Make
  <2>2. CASE n2 = None
    <3>1. Make(v, st, path, kind) = Unchanged(v, st, FALSE)
      BY <2>1, <2>2, Zenon DEF FromTree
    <3> QED BY <3>1, UnchangedOK, Zenon
  <2>3. CASE n2 # None
    <3>1. Make(v, st, path, kind) = Unchanged(WithNodes(v, n2), st, TRUE)
      BY <2>1, <2>3, Zenon DEF FromTree, WithNodes
    <3>2. TreeOK(n2) /\ Survives(v.nodes, n2)
      BY <2>3, CreateTree, Zenon DEF VfsOK, PathOK
    <3> HIDE DEF n2
    <3>3. VfsOK(WithNodes(v, n2))
      BY <3>2, NodesChanged, Zenon
    <3> QED BY <3>1, <3>3, UnchangedOK, Zenon
  <2> QED BY <2>2, <2>3
<1> QED BY <1>1, <1>2, <1>3, Zenon

LEMMA InvalidatedOK ==
  ASSUME NEW nodes, NEW files, FilesOK(nodes, files), NEW inode
  PROVE  LET g == invalidate_inode_descriptors(files, inode)
         IN  /\ FilesOK(nodes, g)
             /\ \A fd \in DOMAIN g : g[fd] # None => g[fd].inode # inode
<1> DEFINE g == invalidate_inode_descriptors(files, inode)
           T == FileType \cup {None}
<1>1. files \in Seq(T)
  BY DEF FilesOK
<1>2. None \in T
  OBVIOUS
<1> HIDE DEF T
<1>3. DOMAIN files = 1 .. Len(files) /\ Len(files) \in Nat
  BY <1>1, LenProperties
<1>4. \A k \in 1 .. Len(files) : files[k] \in T
  BY <1>1, ElementOfSeq
<1>5. DOMAIN g = DOMAIN files /\ g = [k \in DOMAIN files |-> g[k]]
  BY DEF invalidate_inode_descriptors
<1>6. \A k \in DOMAIN files : /\ g[k] = None \/ g[k] = files[k]
                              /\ g[k] # None => g[k].inode # inode
  BY Zenon DEF invalidate_inode_descriptors
<1> HIDE DEF g
<1>7. g \in Seq(T)
  <2>1. \A k \in 1 .. Len(files) : g[k] \in T
    BY <1>2, <1>3, <1>4, <1>6, Zenon
  <2> QED BY <2>1, <1>3, <1>5, IsASeq
<1>8. \A k \in DOMAIN g : g[k] # None => IsKind(nodes, g[k].inode, "File")
  BY <1>5, <1>6, Zenon DEF FilesOK
<1> QED BY <1>5, <1>6, <1>7, <1>8, Zenon DEF FilesOK, g, T

\* The descriptors of the inode and, if it was the current directory, cwd no
\* longer name it.
LEMMA UnlinkInodeOK ==
  ASSUME NEW v, VfsOK(v), NEW st, StorageOK(st), NEW inode
  PROVE  ResultOK(UnlinkInode(v, st, inode))
<1> DEFINE files == invalidate_inode_descriptors(v.open_files, inode)
           shut == WithFiles(v, files)
           n2 == remove_inode(v.nodes, inode)
<1>1. CASE inode = None
  BY <1>1, UnchangedOK, Zenon DEF UnlinkInode
<1>2. FilesOK(v.nodes, files) /\ \A fd \in DOMAIN files : files[fd] # None => files[fd].inode # inode
  BY InvalidatedOK, Zenon DEF VfsOK
<1>3. VfsOK(shut)
  <2> HIDE DEF files
  <2> QED BY <1>2, FilesChanged, Zenon
<1>4. shut = [nodes |-> v.nodes, cwd |-> v.cwd, open_files |-> files, mounts |-> v.mounts]
  BY VfsFields, Zenon
<1>5. shut = [v EXCEPT !.open_files = invalidate_inode_descriptors(@, inode)]
  BY DEF WithFiles
<1>6. CASE inode # None /\ n2 = None
  <2>1. UnlinkInode(v, st, inode) = Unchanged(shut, st, FALSE)
    BY <1>5, <1>6, Zenon DEF UnlinkInode
  <2> QED BY <2>1, <1>3, UnchangedOK, Zenon
<1>7. CASE inode # None /\ n2 # None
  <2> DEFINE cwd == IF v.cwd = inode THEN ROOT ELSE v.cwd
             v2 == RemoveNode(shut, inode, n2)
  <2>1. UnlinkInode(v, st, inode) = Unchanged(v2, st, TRUE)
    BY <1>5, <1>7, Zenon DEF UnlinkInode
  <2>2. /\ TreeOK(n2) /\ inode # ROOT
        /\ \A i : (Live(v.nodes, i) /\ i # inode) => Live(n2, i) /\ n2[i].kind = v.nodes[i].kind
    BY <1>7, RemoveTree, Zenon DEF VfsOK
  <2> HIDE DEF n2, files, shut
  <2>3. v2 = [nodes |-> n2, cwd |-> cwd, open_files |-> files, mounts |-> v.mounts]
    <3> DEFINE v1 == [shut EXCEPT !.nodes = n2]
    <3>1. v2 = [v1 EXCEPT !.cwd = cwd]
      <4>1. shut.cwd = v.cwd
        BY <1>4
      <4> QED BY <4>1 DEF RemoveNode
    <3>2. v1 = [nodes |-> n2, cwd |-> v.cwd, open_files |-> files, mounts |-> v.mounts]
      BY <1>4
    <3> HIDE DEF v1, cwd, v2
    <3> QED BY <3>1, <3>2
  <2>4. IsKind(n2, cwd, "Directory")
    <3>1. CASE v.cwd = inode
      BY <2>2, <3>1, Zenon DEF TreeOK
    <3>2. CASE v.cwd # inode
      BY <2>2, <3>2, Zenon DEF IsKind, VfsOK
    <3> QED BY <3>1, <3>2, Zenon
  <2>5. FilesOK(n2, files)
    BY <1>2, <2>2, Zenon DEF FilesOK, IsKind
  <2> HIDE DEF v2, cwd
  <2>6. VfsOK(v2)
    BY <2>2, <2>3, <2>4, <2>5, VfsRecord, Zenon
  <2> QED BY <2>1, <2>6, UnchangedOK, Zenon
<1> QED BY <1>1, <1>6, <1>7, Zenon

LEMMA UnlinkOK ==
  ASSUME NEW v, VfsOK(v), NEW st, StorageOK(st), NEW path, PathOK(v, path)
  PROVE  ResultOK(unlink(v, st, path))
<1> DEFINE at == At(v, st, path)
<1>1. CASE is_sys_path(at.path)
  BY <1>1, UnchangedOK, Zenon DEF unlink
<1>2. CASE ~is_sys_path(at.path) /\ is_storage_backed(at)
  <2>1. unlink(v, st, path) = FromStorage(v, fs_delete(st, at))
    BY <1>2, Zenon DEF unlink
  <2>2. Mounted(st, at)
    BY AtMounted, Zenon
  <2> HIDE DEF at
  <2>3. StorageOK(fs_delete(st, at).st)
    BY <2>2, FsDeleteOK, Zenon
  <2> QED BY <2>1, <2>3, FromStorageOK, Zenon
<1>3. CASE ~is_sys_path(at.path) /\ ~is_storage_backed(at)
  <2>1. unlink(v, st, path) = UnlinkInode(v, st, resolve(v.nodes, v.cwd, path))
    BY <1>3, Zenon DEF unlink
  <2> QED BY <2>1, UnlinkInodeOK, Zenon
<1> QED BY <1>1, <1>2, <1>3, Zenon

\* A rename that fails leaves the paths of directories as they were.
LEMMA RenameOK ==
  ASSUME NEW v, VfsOK(v), NEW st, StorageOK(st), NEW from, PathOK(v, from), NEW to, PathOK(v, to)
  PROVE  LET s == rename(v, st, from, to)
         IN  /\ ResultOK(s)
             /\ s.vfs.cwd = v.cwd
             /\ ~s.ok => SameNodes(v.nodes, s.vfs.nodes)
<1> DEFINE f == At(v, st, from)
           t == At(v, st, to)
           s == rename(v, st, from, to)
<1>1. SameNodes(v.nodes, v.nodes)
  BY CwdLive, Zenon DEF SameNodes
<1>2. CASE is_sys_path(f.path) \/ is_sys_path(t.path)
  <2>1. s = Unchanged(v, st, FALSE)
    BY <1>2, Zenon DEF rename
  <2>2. ResultOK(s) /\ s.vfs = v
    <3>1. ResultOK(s)
      BY <2>1, UnchangedOK, Zenon
    <3>2. s.vfs = v
      BY <2>1 DEF Unchanged
    <3> QED BY <3>1, <3>2, Zenon
  <2> QED BY <1>1, <2>2, Zenon
<1>3. CASE ~(is_sys_path(f.path) \/ is_sys_path(t.path)) /\ (is_storage_backed(f) \/ is_storage_backed(t))
  <2>1. s = FromStorage(v, fs_rename(st, f, t))
    BY <1>3, Zenon DEF rename
  <2>2. Mounted(st, f)
    BY AtMounted, Zenon
  <2> HIDE DEF f, t
  <2>3. StorageOK(fs_rename(st, f, t).st)
    BY <2>2, FsRenameOK, Zenon
  <2>4. ResultOK(s) /\ s.vfs = v
    <3> DEFINE r == fs_rename(st, f, t)
    <3> HIDE DEF s, r
    <3> QED BY <2>1, <2>3, FromStorageOK, StorageFields DEF r
  <2> QED BY <1>1, <2>4, Zenon
<1>4. CASE ~(is_sys_path(f.path) \/ is_sys_path(t.path)) /\ ~(is_storage_backed(f) \/ is_storage_backed(t))
  <2> DEFINE r == rename_path(v.nodes, v.cwd, from, to)
             n2 == r.nodes
  <2>1. s = Unchanged(WithNodes(v, n2), st, r.ok)
    BY <1>4, Zenon DEF rename, WithNodes
  <2>2. TreeOK(n2) /\ Survives(v.nodes, n2)
    BY RenamePathTree, CwdLive, Zenon DEF VfsOK, PathOK
  <2>3. ~r.ok => SameNodes(v.nodes, n2)
    BY RenameFails, Zenon DEF VfsOK
  <2> HIDE DEF n2, r, s
  <2>4. VfsOK(WithNodes(v, n2)) /\ WithNodes(v, n2).cwd = v.cwd /\ WithNodes(v, n2).nodes = n2
    BY <2>2, NodesChanged, Zenon
  <2> DEFINE v2 == WithNodes(v, n2)
  <2> HIDE DEF v2
  <2>5. ResultOK(s) /\ s.vfs = v2
    BY <2>1, <2>4, UnchangedOK, UnchangedFields DEF v2
  <2>6. s.ok = r.ok
    BY <2>1 DEF Unchanged
  <2> QED BY <2>3, <2>4, <2>5, <2>6, Zenon DEF v2, s
<1> QED BY <1>2, <1>3, <1>4, Zenon

-----------------------------------------------------------------------------
(* open, write and close.                                                  *)

LEMMA AllocFd ==
  ASSUME NEW nodes, NEW files, FilesOK(nodes, files)
  PROVE  /\ Len(files) \in Nat /\ DOMAIN files = 1 .. Len(files)
         /\ alloc_fd(files) \in 1 .. Len(files) + 1
<1> DEFINE I == {i \in DOMAIN files : files[i] = None}
<1>1. Len(files) \in Nat /\ DOMAIN files = 1 .. Len(files)
  BY LenProperties DEF FilesOK
<1>2. position(I) = IF I # {} THEN Min(I) ELSE 0
  BY Zenon DEF position
<1>3. I \subseteq 1 .. Len(files)
  BY <1>1
<1> HIDE DEF I
<1>4. CASE I = {}
  <2>1. alloc_fd(files) = Len(files) + 1
    BY <1>2, <1>4, Zenon DEF alloc_fd, I
  <2> QED BY <1>1, <2>1
<1>5. CASE I # {}
  <2>1. Min(I) \in I
    BY <1>1, <1>3, <1>5, LeastIndex, Zenon
  <2>2. Min(I) # 0
    BY <1>1, <1>3, <2>1
  <2>3. alloc_fd(files) = Min(I)
    BY <1>2, <1>5, <2>2, Zenon DEF alloc_fd, I
  <2>4. alloc_fd(files) \in 1 .. Len(files)
    BY <1>3, <2>1, <2>3, Zenon
  <2> QED BY <1>1, <2>4
<1> QED BY <1>4, <1>5

\* The descriptor that open makes.
FileOf(nodes, inode, o) ==
  [inode |-> inode, readable |-> o.read, writable |-> o.write, append |-> o.append,
   offset |-> IF o.append THEN inode_len(nodes, inode) ELSE 0]

LEMMA OptionTypes ==
  ASSUME NEW o \in OpenOptions
  PROVE  /\ o.read \in BOOLEAN /\ o.write \in BOOLEAN /\ o.create \in BOOLEAN
         /\ o.truncate \in BOOLEAN /\ o.append \in BOOLEAN
<1> DEFINE Flag(b) == b = TRUE \/ b = FALSE
           Flags(x) == Flag(x.read) /\ Flag(x.write) /\ Flag(x.create) /\ Flag(x.truncate)
                       /\ Flag(x.append)
<1>1. Flags(read_only) /\ Flags(write_only_create)
  BY DEF read_only, write_only_create
<1>2. Flags(read_write_create) /\ Flags(append_create)
  BY DEF read_write_create, append_create
<1> HIDE DEF Flags
<1>3. Flags(o)
  BY <1>1, <1>2, Zenon DEF OpenOptions
<1> QED BY <1>3, Zenon DEF Flags

LEMMA FileOfType ==
  ASSUME NEW nodes, TreeOK(nodes), NEW inode, IsKind(nodes, inode, "File"), NEW o \in OpenOptions
  PROVE  /\ FileOf(nodes, inode, o) \in FileType
         /\ FileOf(nodes, inode, o).inode = inode
         /\ FileOf(nodes, inode, o).append = o.append
         /\ ~o.append => FileOf(nodes, inode, o).offset = 0
<1>1. inode \in Nat /\ nodes[inode] \in NodeType
  BY LiveNode, Zenon DEF TreeOK, IsKind
<1>2. inode_len(nodes, inode) \in Nat
  BY <1>1, LenProperties DEF inode_len, NodeType
<1> DEFINE offset == IF o.append THEN inode_len(nodes, inode) ELSE 0
<1>3. offset \in Nat /\ (~o.append => offset = 0)
  BY <1>2
<1> HIDE DEF offset
<1>4. FileOf(nodes, inode, o) = [inode |-> inode, readable |-> o.read, writable |-> o.write,
                                 append |-> o.append, offset |-> offset]
  BY Zenon DEF FileOf, offset
<1>5. FileOf(nodes, inode, o) \in FileType
  <2>1. o.read \in BOOLEAN /\ o.write \in BOOLEAN /\ o.append \in BOOLEAN
    BY OptionTypes, Zenon
  <2> QED BY <1>1, <1>3, <1>4, <2>1 DEF FileType
<1> QED BY <1>3, <1>4, <1>5

LEMMA DescriptorOK ==
  ASSUME NEW v, VfsOK(v), NEW n2, TreeOK(n2), Survives(v.nodes, n2),
         NEW inode, IsKind(n2, inode, "File"), NEW o \in OpenOptions
  PROVE  LET fd == alloc_fd(v.open_files)
             r  == Descriptor(v, n2, inode, o, fd)
         IN  /\ VfsOK(r.vfs) /\ r.vfs.nodes = n2 /\ r.vfs.cwd = v.cwd
             /\ r.fd = fd /\ fd \in Nat /\ fd \in DOMAIN r.vfs.open_files
             /\ r.vfs.open_files[fd] = FileOf(n2, inode, o)
<1> DEFINE fd == alloc_fd(v.open_files)
           r == Descriptor(v, n2, inode, o, fd)
           file == FileOf(n2, inode, o)
           v1 == WithNodes(v, n2)
           files == v.open_files
           g == IF fd > Len(files) THEN Append(files, file) ELSE SetFile(files, fd, file)
           v2 == WithFiles(v1, g)
<1>1. /\ VfsOK(v1) /\ v1.nodes = n2 /\ v1.cwd = v.cwd /\ v1.open_files = files
  BY NodesChanged, Zenon
<1>2. FilesOK(n2, files)
  BY <1>1, Zenon DEF VfsOK
<1>3. Len(files) \in Nat /\ DOMAIN files = 1 .. Len(files) /\ fd \in 1 .. Len(files) + 1
  BY <1>2, AllocFd, Zenon
<1>4. file \in FileType /\ file.inode = inode
  BY FileOfType
<1> HIDE DEF file, files, fd
<1>5. FilesOK(n2, g) /\ fd \in DOMAIN g /\ g[fd] = file
  <2>1. CASE fd > Len(files)
    <3>1. fd = Len(files) + 1 /\ g = Append(files, file)
      BY <1>3, <2>1
    <3>2. /\ FilesOK(n2, Append(files, file)) /\ Append(files, file)[Len(files) + 1] = file
          /\ Len(files) + 1 \in DOMAIN Append(files, file)
      BY <1>2, <1>4, AddFileOK
    <3> QED BY <3>1, <3>2
  <2>2. CASE ~(fd > Len(files))
    <3>1. fd \in DOMAIN files /\ g = SetFile(files, fd, file)
      BY <1>3, <2>2
    <3>2. file \in FileType \cup {None}
      BY <1>4
    <3>3. IsKind(n2, file.inode, "File")
      BY <1>4
    <3>4. /\ FilesOK(n2, SetFile(files, fd, file)) /\ SetFile(files, fd, file)[fd] = file
          /\ DOMAIN SetFile(files, fd, file) = DOMAIN files
      BY <1>2, <3>1, <3>2, <3>3, SetFileOK
    <3> HIDE DEF g
    <3> QED BY <3>1, <3>4
  <2> QED BY <2>1, <2>2
<1> HIDE DEF g, v1
<1>6. VfsOK(v2) /\ v2.nodes = n2 /\ v2.cwd = v.cwd /\ v2.open_files = g
  BY <1>1, <1>5, FilesChanged
<1>7. r = [vfs |-> v2, fd |-> fd]
  BY Zenon DEF Descriptor, WithNodes, WithFiles, v1, g, files, file, FileOf, SetFile
<1> HIDE DEF v2, r
<1>8. r.vfs = v2 /\ r.fd = fd
  BY <1>7
<1>9. fd \in Nat
  BY <1>3
<1> QED BY <1>5, <1>6, <1>8, <1>9, Zenon DEF r, fd, file

\* v2 has a descriptor fd on the file that path leads to.
FileOpened(v, v2, fd, path, o) ==
  /\ VfsOK(v2) /\ v2.cwd = v.cwd
  /\ fd \in Nat /\ fd \in DOMAIN v2.open_files
  /\ v2.open_files[fd] \in FileType
  /\ v2.open_files[fd].inode = resolve(v2.nodes, v.cwd, path)
  /\ IsKind(v2.nodes, v2.open_files[fd].inode, "File")
  /\ v2.open_files[fd].append = o.append
  /\ ~o.append => v2.open_files[fd].offset = 0
  /\ o.truncate => v2.nodes[v2.open_files[fd].inode].data = <<>>
  /\ (~o.create /\ ~o.truncate) => v2.nodes = v.nodes

NotThere(v, r) == r.vfs = v /\ r.fd = None

LEMMA NotOpenedFields == ASSUME NEW v PROVE NotThere(v, NotOpened(v))
BY DEF NotThere, NotOpened

LEMMA OpenInodeOK ==
  ASSUME NEW v, VfsOK(v), NEW n1, TreeOK(n1), Survives(v.nodes, n1), NEW path \in PathType,
         NEW o \in OpenOptions, ~o.create => n1 = v.nodes
  PROVE  LET r == OpenInode(v, n1, resolve(n1, v.cwd, path), o)
         IN  NotThere(v, r) \/ FileOpened(v, r.vfs, r.fd, path, o)
<1> DEFINE inode == resolve(n1, v.cwd, path)
           r == OpenInode(v, n1, inode, o)
<1>1. CASE ~IsKind(n1, inode, "File")
  <2>1. r = NotOpened(v)
    BY <1>1, Zenon DEF OpenInode
  <2> QED BY <2>1, NotOpenedFields, Zenon
<1>2. CASE IsKind(n1, inode, "File")
  <2> DEFINE n2 == IF o.truncate THEN truncate_inode(n1, inode) ELSE n1
             fd == alloc_fd(v.open_files)
  <2>1. r = Descriptor(v, n2, inode, o, fd)
    BY <1>2, Zenon DEF OpenInode
  <2>2. n1 \in NodeSeq /\ v.cwd \in Nat
    BY CwdLive, ZenonT(40) DEF TreeOK
  <2>3. /\ TreeOK(n2) /\ Survives(n1, n2) /\ SameShape(n1, n2)
        /\ o.truncate => n2[inode].data = <<>>
        /\ ~o.truncate => n2 = n1
    <3>1. CASE o.truncate
      <4>1. n2 = WithData(n1, inode, <<>>)
        BY <3>1, WriteData, Zenon
      <4>2. <<>> \in Seq(Nat) /\ Live(n1, inode)
        BY <1>2 DEF IsKind
      <4> HIDE DEF n2, inode
      <4> DEFINE empty == <<>>
                 n == WithData(n1, inode, empty)
      <4> HIDE DEF empty
      <4>3. TreeOK(n) /\ Survives(n1, n) /\ SameShape(n1, n) /\ n[inode].data = empty
        <5>1. empty \in Seq(Nat)
          BY <4>2 DEF empty
        <5> QED BY <4>2, <5>1, DataTree
      <4> HIDE DEF n
      <4> QED BY <3>1, <4>1, <4>3, Zenon DEF n, empty
    <3>2. CASE ~o.truncate
      <4>1. n2 = n1
        BY <3>2, Zenon
      <4>2. SameShape(n1, n1) /\ Survives(n1, n1)
        BY <2>2, Zenon DEF SameShape, SameNodes, Survives
      <4> HIDE DEF n2
      <4> QED BY <3>2, <4>1, <4>2, Zenon
    <3> QED BY <3>1, <3>2
  <2> HIDE DEF n2
  <2>4. Survives(v.nodes, n2)
    BY <2>3, Zenon DEF Survives
  <2>5. IsKind(n2, inode, "File")
    BY <1>2, <2>3, Zenon DEF IsKind, Survives
  <2>6. resolve(n2, v.cwd, path) = inode
    BY <2>2, <2>3, ResolveSame
  <2> HIDE DEF inode, r
  <2>7. /\ VfsOK(r.vfs) /\ r.vfs.nodes = n2 /\ r.vfs.cwd = v.cwd
        /\ r.fd = fd /\ fd \in Nat /\ fd \in DOMAIN r.vfs.open_files
        /\ r.vfs.open_files[fd] = FileOf(n2, inode, o)
    BY <2>1, <2>3, <2>4, <2>5, DescriptorOK
  <2> DEFINE f == FileOf(n2, inode, o)
  <2>8. /\ f \in FileType /\ f.inode = inode /\ f.append = o.append
        /\ ~o.append => f.offset = 0
    BY <2>3, <2>5, FileOfType
  <2> HIDE DEF f, fd
  <2>9. FileOpened(v, r.vfs, r.fd, path, o)
    BY <2>3, <2>5, <2>6, <2>7, <2>8, Zenon DEF FileOpened, f
  <2> QED BY <2>9, Zenon DEF r, inode
<1> QED BY <1>1, <1>2, Zenon

\* open either changes nothing or makes a descriptor on the file.
LEMMA OpenOK ==
  ASSUME NEW v, VfsOK(v), NEW path \in PathType, NEW o \in OpenOptions
  PROVE  LET r == open(v, path, o)
         IN  NotThere(v, r) \/ FileOpened(v, r.vfs, r.fd, path, o)
<1> DEFINE r == open(v, path, o)
           made == create(v.nodes, v.cwd, path, "File")
           Refused == (o.write \/ o.create) /\ is_sys_path(normalized_path(v.nodes, v.cwd, path))
           Creates == o.create /\ resolve(v.nodes, v.cwd, path) = None
<1>1. CASE Refused
  <2>1. r = NotOpened(v)
    BY <1>1, Zenon DEF open
  <2> QED BY <2>1, NotOpenedFields, Zenon
<1>2. CASE ~Refused /\ Creates /\ made = None
  <2>1. r = NotOpened(v)
    BY <1>2, Zenon DEF open
  <2> QED BY <2>1, NotOpenedFields, Zenon
<1>3. CASE ~Refused /\ Creates /\ made # None
  <2>1. r = OpenInode(v, made, resolve(made, v.cwd, path), o)
    BY <1>3, Zenon DEF open
  <2>2. TreeOK(made) /\ Survives(v.nodes, made)
    BY <1>3, CreateTree, Zenon DEF VfsOK
  <2> HIDE DEF made, r
  <2>3. NotThere(v, r) \/ FileOpened(v, r.vfs, r.fd, path, o)
    BY <1>3, <2>1, <2>2, OpenInodeOK, Zenon
  <2> QED BY <2>3, Zenon DEF r
<1>4. CASE ~Refused /\ ~Creates
  <2> DEFINE nodes == v.nodes
  <2>1. CASE nodes = None
    <3>1. r = NotOpened(v)
      BY <1>4, <2>1, Zenon DEF open
    <3> QED BY <3>1, NotOpenedFields, Zenon
  <2>2. nodes # None => r = OpenInode(v, nodes, resolve(nodes, v.cwd, path), o)
    BY <1>4, Zenon DEF open
  <2>3. TreeOK(nodes) /\ Survives(nodes, nodes)
    BY Zenon DEF VfsOK, Survives
  <2> HIDE DEF r
  <2>4. nodes # None => (NotThere(v, r) \/ FileOpened(v, r.vfs, r.fd, path, o))
    BY <2>2, <2>3, OpenInodeOK, Zenon
  <2> QED BY <2>1, <2>4, Zenon DEF r
<1> QED BY <1>1, <1>2, <1>3, <1>4, Zenon

LEMMA CloseOK ==
  ASSUME NEW v, VfsOK(v), NEW fd \in DOMAIN v.open_files
  PROVE  VfsOK(close(v, fd)) /\ close(v, fd).nodes = v.nodes /\ close(v, fd).cwd = v.cwd
<1> DEFINE files == SetFile(v.open_files, fd, None)
<1>1. close(v, fd) = WithFiles(v, files)
  BY DEF close, WithFiles, SetFile
<1>2. FilesOK(v.nodes, files)
  BY SetFileOK DEF VfsOK
<1> HIDE DEF files
<1> QED BY <1>1, <1>2, FilesChanged

WithOffset(f, at) == [f EXCEPT !.offset = at]

LEMMA OffsetType ==
  ASSUME NEW f \in FileType, NEW at \in Nat
  PROVE  WithOffset(f, at) \in FileType /\ WithOffset(f, at).inode = f.inode
BY DEF WithOffset, FileType

\* Moving one offset.
LEMMA MoveOffset ==
  ASSUME NEW v, VfsOK(v), NEW fd \in DOMAIN v.open_files, NEW f, f = v.open_files[fd],
         f \in FileType, IsKind(v.nodes, f.inode, "File"), NEW at \in Nat
  PROVE  LET v2 == [v EXCEPT !.open_files[fd].offset = at]
         IN  /\ VfsOK(v2) /\ v2.nodes = v.nodes /\ v2.cwd = v.cwd
             /\ DOMAIN v2.open_files = DOMAIN v.open_files
<1> DEFINE g == WithOffset(f, at)
           files == SetFile(v.open_files, fd, g)
           v2 == [v EXCEPT !.open_files[fd].offset = at]
<1>1. v2 = WithFiles(v, files)
  BY DEF WithFiles, SetFile, WithOffset
<1>2. g \in FileType /\ g.inode = f.inode
  BY OffsetType
<1> HIDE DEF g
<1>3. FilesOK(v.nodes, files) /\ DOMAIN files = DOMAIN v.open_files
  <2>1. FilesOK(v.nodes, v.open_files) /\ g \in FileType \cup {None} /\ IsKind(v.nodes, g.inode, "File")
    BY <1>2, Zenon DEF VfsOK
  <2> QED BY <2>1, SetFileOK
<1> HIDE DEF files
<1>4. /\ VfsOK(WithFiles(v, files)) /\ WithFiles(v, files).nodes = v.nodes
      /\ WithFiles(v, files).cwd = v.cwd /\ WithFiles(v, files).open_files = files
  BY <1>3, FilesChanged
<1> HIDE DEF v2
<1>5. /\ VfsOK(v2) /\ v2.nodes = v.nodes /\ v2.cwd = v.cwd
      /\ DOMAIN v2.open_files = DOMAIN v.open_files
  BY <1>1, <1>3, <1>4
<1> QED BY <1>5, Zenon DEF v2

\* v2 is v after a write through fd that left the bytes data in the file.
Wrote(v, v2, fd, inode, data) ==
  /\ VfsOK(v2) /\ v2.cwd = v.cwd
  /\ SameShape(v.nodes, v2.nodes)
  /\ v2.nodes[inode].data = data
  /\ DOMAIN v2.open_files = DOMAIN v.open_files

\* A write changes the bytes of its file, and an append keeps what was there.
LEMMA WriteOK ==
  ASSUME NEW v, VfsOK(v), NEW fd \in DOMAIN v.open_files, NEW f, f = v.open_files[fd],
         f \in FileType, IsKind(v.nodes, f.inode, "File"), NEW data \in Seq(Nat)
  PROVE  LET old == v.nodes[f.inode].data
         IN  /\ old \in Seq(Nat) /\ Start(v, f) \in Nat
             /\ Wrote(v, write(v, fd, data), fd, f.inode, Spliced(old, Start(v, f), data))
             /\ f.append => Start(v, f) = Len(old)
             /\ ~f.append => Start(v, f) = f.offset
<1> DEFINE inode == f.inode
           old == v.nodes[inode].data
           at == Start(v, f)
           bytes == Spliced(old, at, data)
           n2 == WithData(v.nodes, inode, bytes)
           v1 == WithNodes(v, n2)
           v2 == write(v, fd, data)
<1>1. Live(v.nodes, inode) /\ v.nodes[inode] \in NodeType
  BY LiveNode, CwdLive, Zenon DEF IsKind
<1>2. old \in Seq(Nat) /\ Len(old) \in Nat
  BY <1>1, LenProperties, Zenon DEF NodeType
<1>3. (f.append => at = Len(old)) /\ (~f.append => at = f.offset)
  BY Zenon DEF Start, inode_len
<1>4. at \in Nat
  <2>1. f.offset \in Nat
    BY DEF FileType
  <2> QED BY <1>2, <1>3, <2>1, Zenon
<1>5. bytes \in Seq(Nat)
  BY <1>2, <1>4, SplicedBytes, Zenon
<1>6. v2 = [v EXCEPT !.nodes = n2, !.open_files[fd].offset = at + Len(data)]
  <2> DEFINE n3 == write_inode_at(v.nodes, v.open_files[fd].inode, at, data)
  <2>1. v2 = WriteAt(v, fd, at, data)
    BY Zenon DEF write
  <2>2. n3 = n2
    <3>1. n3 = write_inode_at(v.nodes, inode, at, data)
      BY Zenon
    <3> HIDE DEF inode, at
    <3>2. write_inode_at(v.nodes, inode, at, data) = n2
      BY WriteData
    <3> HIDE DEF n3, n2
    <3> QED BY <3>1, <3>2, Zenon
  <2>3. WriteAt(v, fd, at, data) = [v EXCEPT !.nodes = n3, !.open_files[fd].offset = at + Len(data)]
    BY Zenon DEF WriteAt
  <2> HIDE DEF n3, n2, at, v2
  <2> QED BY <2>1, <2>2, <2>3, Zenon
<1>7. v2 = [v1 EXCEPT !.open_files[fd].offset = at + Len(data)]
  <2> HIDE DEF n2, at, v2
  <2>1. v1.open_files = v.open_files
    BY VfsFields
  <2> QED BY <1>6 DEF WithNodes
<1> HIDE DEF bytes, old, inode
<1>8. TreeOK(n2) /\ Survives(v.nodes, n2) /\ SameShape(v.nodes, n2) /\ n2[inode].data = bytes
  BY <1>1, <1>5, DataTree DEF VfsOK
<1> HIDE DEF n2
<1>9. VfsOK(v1) /\ v1.nodes = n2 /\ v1.cwd = v.cwd /\ v1.open_files = v.open_files
  BY <1>8, NodesChanged, Zenon
<1>10. IsKind(n2, f.inode, "File")
  BY <1>8, Zenon DEF IsKind, Survives
<1>11. at + Len(data) \in Nat
  <2> HIDE DEF at
  <2> QED BY <1>4, LenProperties
<1> DEFINE to == at + Len(data)
<1> HIDE DEF v1, v2, at, to
<1>12. /\ VfsOK(v2) /\ v2.nodes = v1.nodes /\ v2.cwd = v1.cwd
       /\ DOMAIN v2.open_files = DOMAIN v1.open_files
  <2>1. fd \in DOMAIN v1.open_files /\ f = v1.open_files[fd] /\ IsKind(v1.nodes, f.inode, "File")
    BY <1>9, <1>10, Zenon
  <2>2. v2 = [v1 EXCEPT !.open_files[fd].offset = to] /\ to \in Nat
    BY <1>7, <1>11 DEF to
  <2> QED BY <1>9, <2>1, <2>2, MoveOffset
<1>13. Wrote(v, v2, fd, inode, bytes)
  BY <1>8, <1>9, <1>12, Zenon DEF Wrote
<1> QED BY <1>2, <1>3, <1>4, <1>13, Zenon DEF v2, at, bytes, old, inode

-----------------------------------------------------------------------------
(* Reading and writing whole files.                                        *)

LEMMA AbsoluteAt ==
  ASSUME NEW v, NEW st, NEW path \in PathType, path.abs
  PROVE  /\ normalized_path(v.nodes, v.cwd, path) = Normalize(path.parts)
         /\ At(v, st, path) = Locate(st, Normalize(path.parts))
         /\ At(v, st, path).path = Normalize(path.parts)
<1>1. <<>> \o path.parts = path.parts
  BY DEF PathType
<1>2. normalized_path(v.nodes, v.cwd, path) = Normalize(path.parts)
  BY <1>1, Zenon DEF normalized_path
<1>3. At(v, st, path) = Locate(st, Normalize(path.parts))
  BY <1>2, Zenon DEF At
<1>4. \A p : Locate(st, p).path = p
  BY DEF Locate, OnVolume
<1> QED BY <1>2, <1>3, <1>4, Zenon

\* Where a path lies depends on the volumes alone.
LEMMA LocateSame ==
  ASSUME NEW st, NEW st2, st2.volumes = st.volumes, NEW p
  PROVE  Locate(st2, p) = Locate(st, p)
<1> DEFINE Index(vols) == Longest([i \in {i \in DOMAIN vols : /\ vols[i].mounted_at # None
                                                              /\ starts_with(p, MountPoint(vols[i]))}
                                   |-> MountPoint(vols[i])])
<1>1. \A x : VolumeIndex(x, p) = Index(x.volumes)
  BY Zenon DEF VolumeIndex
<1> HIDE DEF Index
<1>2. VolumeIndex(st2, p) = VolumeIndex(st, p)
  BY <1>1, Zenon
<1> QED BY <1>2, Zenon DEF Locate

LEMMA ContentBytes ==
  ASSUME NEW v, VfsOK(v), NEW st, StorageOK(st), NEW path, PathOK(v, path),
         Content(v, st, path) # None
  PROVE  Content(v, st, path) \in Seq(Nat)
<1> DEFINE at == At(v, st, path)
           c == Content(v, st, path)
           inode == resolve(v.nodes, v.cwd, path)
<1>1. CASE is_sys_path(at.path)
  <2>1. c = None
    BY <1>1, Zenon DEF Content, sys_read
  <2> QED BY <2>1
<1>2. CASE ~is_sys_path(at.path) /\ is_storage_backed(at)
  <2>1. c = fs_read(st, at)
    BY <1>2, Zenon DEF Content
  <2>2. Mounted(st, at)
    BY AtMounted, Zenon
  <2> HIDE DEF at, c
  <2>3. /\ fs_supports_mount_tree(at.filesystem)
        /\ at.rel \in DOMAIN st.mounted[at.name]
        /\ c = st.mounted[at.name][at.rel].data
    BY <2>1, Zenon DEF fs_read, c
  <2>4. IsTree(st.mounted[at.name])
    BY <2>2, <2>3, MountedTree, Zenon
  <2> QED BY <2>3, <2>4, Zenon DEF IsTree, c
<1>3. CASE ~is_sys_path(at.path) /\ ~is_storage_backed(at)
  <2>1. c = DataOf(v.nodes, inode)
    BY <1>3, Zenon DEF Content
  <2>2. IsKind(v.nodes, inode, "File") /\ c = v.nodes[inode].data
    BY <2>1, Zenon DEF DataOf
  <2>3. v.nodes[inode] \in NodeType
    BY <2>2, LiveNode, CwdLive, Zenon DEF IsKind
  <2> HIDE DEF inode
  <2>4. v.nodes[inode].data \in Seq(Nat)
    BY <2>3 DEF NodeType
  <2> QED BY <2>2, <2>4, Zenon
<1> QED BY <1>1, <1>2, <1>3, Zenon

\* read_path leaves the tree alone.
LEMMA ReadPathOK ==
  ASSUME NEW v, VfsOK(v), NEW st, NEW path \in PathType
  PROVE  LET v2 == read_path(v, st, path)
         IN  VfsOK(v2) /\ v2.nodes = v.nodes /\ v2.cwd = v.cwd
<1> DEFINE at == At(v, st, path)
           r == open(v, path, read_only)
           v2 == read_path(v, st, path)
<1>1. CASE is_sys_path(at.path) \/ is_storage_backed(at) \/ r.fd = None
  <2>1. v2 = v
    BY <1>1, Zenon DEF read_path
  <2> QED BY <2>1, Zenon
<1>2. CASE ~(is_sys_path(at.path) \/ is_storage_backed(at)) /\ r.fd # None
  <2>1. v2 = close(r.vfs, r.fd)
    BY <1>2, Zenon DEF read_path
  <2>2. read_only \in OpenOptions /\ ~read_only.create /\ ~read_only.truncate
    BY DEF OpenOptions, read_only
  <2>3. FileOpened(v, r.vfs, r.fd, path, read_only)
    BY <1>2, <2>2, OpenOK, Zenon DEF NotThere
  <2> HIDE DEF r
  <2>4. VfsOK(r.vfs) /\ r.vfs.cwd = v.cwd /\ r.fd \in DOMAIN r.vfs.open_files /\ r.vfs.nodes = v.nodes
    BY <2>2, <2>3, Zenon DEF FileOpened
  <2> HIDE DEF v2
  <2>5. VfsOK(v2) /\ v2.nodes = v.nodes /\ v2.cwd = v.cwd
    BY <2>1, <2>4, CloseOK, Zenon
  <2> QED BY <2>5, Zenon DEF v2
<1> QED BY <1>1, <1>2, Zenon

\* What a call answered, and what the file then holds.
Holds(v, st, s, path, data) ==
  /\ ResultOK(s) /\ s.storage = st /\ s.vfs.cwd = v.cwd
  /\ s.ok => DataOf(s.vfs.nodes, resolve(s.vfs.nodes, s.vfs.cwd, path)) = data

\* Opened, written and closed, a file holds the data and nothing of what it
\* held before.
LEMMA WriteWholeOK ==
  ASSUME NEW v, VfsOK(v), NEW st, StorageOK(st), NEW path \in PathType, NEW data \in Seq(Nat)
  PROVE  Holds(v, st, WriteWhole(v, st, path, data), path, data)
<1> DEFINE o == write_only_create
           r == open(v, path, o)
           s == WriteWhole(v, st, path, data)
<1>1. o \in OpenOptions /\ ~o.append /\ o.truncate
  BY DEF OpenOptions, write_only_create
<1>2. CASE r.fd = None
  <2>1. s = Unchanged(v, st, FALSE)
    BY <1>2, Zenon DEF WriteWhole
  <2>2. ResultOK(s)
    BY <2>1, UnchangedOK, Zenon
  <2>3. s.storage = st /\ s.vfs = v /\ ~s.ok
    BY <2>1 DEF Unchanged
  <2> HIDE DEF s
  <2>4. Holds(v, st, s, path, data)
    BY <2>2, <2>3, Zenon DEF Holds
  <2> QED BY <2>4, Zenon DEF s
<1>3. CASE r.fd # None
  <2> DEFINE v1 == r.vfs
             fd == r.fd
             f == v1.open_files[fd]
             inode == f.inode
             v2 == write(v1, fd, data)
             v3 == close(v2, fd)
  <2>1. s = Unchanged(v3, st, TRUE)
    BY <1>3, Zenon DEF WriteWhole
  <2>2. FileOpened(v, v1, fd, path, o)
    BY <1>1, <1>3, OpenOK, Zenon DEF NotThere
  <2> HIDE DEF o, r
  <2>3. /\ VfsOK(v1) /\ v1.cwd = v.cwd /\ fd \in DOMAIN v1.open_files
        /\ f \in FileType /\ inode = resolve(v1.nodes, v.cwd, path)
        /\ IsKind(v1.nodes, inode, "File")
        /\ ~f.append /\ f.offset = 0 /\ v1.nodes[inode].data = <<>>
    BY <1>1, <2>2, Zenon DEF FileOpened
  <2> DEFINE old == v1.nodes[inode].data
  <2> HIDE DEF v1, fd
  <2>4. /\ Wrote(v1, v2, fd, f.inode, Spliced(v1.nodes[f.inode].data, Start(v1, f), data))
        /\ Start(v1, f) = f.offset
    <3> HIDE DEF f
    <3>1. f = v1.open_files[fd] /\ IsKind(v1.nodes, f.inode, "File")
      BY <2>3, Zenon DEF f
    <3> QED BY <2>3, <3>1, WriteOK
  <2> HIDE DEF f
  <2>5. Spliced(old, Start(v1, f), data) = data
    <3> DEFINE empty == <<>>
    <3>1. empty \in Seq(Nat) /\ Len(empty) = 0 /\ empty \o data = data
      OBVIOUS
    <3> HIDE DEF empty
    <3>2. Spliced(empty, Len(empty), data) = empty \o data
      BY <3>1, SplicedEnd, Zenon
    <3>3. old = empty /\ Start(v1, f) = Len(empty)
      <4>1. old = empty
        BY <2>3, Zenon DEF empty
      <4>2. Start(v1, f) = Len(empty)
        BY <2>3, <2>4, <3>1, Zenon
      <4> QED BY <4>1, <4>2
    <3> HIDE DEF old
    <3> QED BY <3>1, <3>2, <3>3, Zenon
  <2> HIDE DEF inode
  <2>6. Wrote(v1, v2, fd, inode, data)
    BY <2>4, <2>5, Zenon DEF old, inode
  <2> HIDE DEF v2
  <2>7. VfsOK(v3) /\ v3.nodes = v2.nodes /\ v3.cwd = v.cwd
    <3>1. VfsOK(v2) /\ v2.cwd = v.cwd /\ fd \in DOMAIN v2.open_files
      BY <2>3, <2>6, Zenon DEF Wrote
    <3> QED BY <3>1, CloseOK
  <2>8. resolve(v3.nodes, v3.cwd, path) = inode
    <3>1. v1.nodes \in NodeSeq /\ v.cwd \in Nat
      BY <2>3, CwdLive, Zenon
    <3>2. resolve(v2.nodes, v.cwd, path) = resolve(v1.nodes, v.cwd, path)
      BY <2>6, <3>1, ResolveSame DEF Wrote
    <3> HIDE DEF v3
    <3> QED BY <2>3, <2>7, <3>2, Zenon
  <2>9. DataOf(v3.nodes, inode) = data
    <3>1. IsKind(v2.nodes, inode, "File")
      BY <2>3, <2>6, Zenon DEF IsKind, Wrote, SameShape, SameNodes
    <3> HIDE DEF v3
    <3> QED BY <2>6, <2>7, <3>1, Zenon DEF DataOf, Wrote
  <2> HIDE DEF v3, s
  <2>10. ResultOK(s)
    BY <2>1, <2>7, UnchangedOK, Zenon
  <2>11. s.storage = st /\ s.vfs = v3
    BY <2>1 DEF Unchanged
  <2>12. Holds(v, st, s, path, data)
    BY <2>7, <2>8, <2>9, <2>10, <2>11, Zenon DEF Holds
  <2> QED BY <2>12, Zenon DEF s
<1> QED BY <1>2, <1>3, Zenon

\* A call answered, and the file at the absolute path holds the data.
Stored(s, path, data) ==
  /\ ResultOK(s)
  /\ (s.ok /\ path.abs /\ ~is_sys_path(Normalize(path.parts))) => Content(s.vfs, s.storage, path) = data

LEMMA WritePathOK ==
  ASSUME NEW v, VfsOK(v), NEW st, StorageOK(st), NEW path, PathOK(v, path), NEW data \in Seq(Nat)
  PROVE  Stored(write_path(v, st, path, data), path, data)
<1> DEFINE at == At(v, st, path)
           s == write_path(v, st, path, data)
           p == Normalize(path.parts)
<1>1. path \in PathType
  BY Zenon DEF PathOK
<1>2. CASE is_storage_backed(at)
  <2> DEFINE r == fs_write(st, at, data)
  <2>1. s = FromStorage(v, r)
    BY <1>2, Zenon DEF write_path
  <2>2. Mounted(st, at)
    BY AtMounted, Zenon
  <2>3. StorageOK(r.st) /\ r.st.volumes = st.volumes /\ (r.ok => fs_read(r.st, at) = data)
    <3> HIDE DEF at
    <3> QED BY <2>2, FsWriteOK
  <2> HIDE DEF r, s
  <2>4. ResultOK(s) /\ s.vfs = v /\ s.storage = r.st /\ s.ok = r.ok
    BY <2>1, <2>3, FromStorageOK, StorageFields
  <2>5. ASSUME s.ok, path.abs, ~is_sys_path(p) PROVE Content(s.vfs, s.storage, path) = data
    <3>1. at = Locate(st, p) /\ at.path = p
      BY <1>1, <2>5, AbsoluteAt, Zenon
    <3>2. At(s.vfs, s.storage, path) = Locate(r.st, p)
      <4>1. At(s.vfs, s.storage, path) = Locate(s.storage, p)
        BY <1>1, <2>5, AbsoluteAt, Zenon
      <4> QED BY <2>4, <4>1, Zenon
    <3> HIDE DEF at, p
    <3>3. Locate(r.st, p) = Locate(st, p)
      BY <2>3, LocateSame, Zenon
    <3>4. At(s.vfs, s.storage, path) = at
      BY <3>1, <3>2, <3>3, Zenon
    <3>5. Content(s.vfs, s.storage, path) = fs_read(s.storage, at)
      BY <1>2, <2>5, <3>1, <3>4, Zenon DEF Content
    <3> QED BY <2>3, <2>4, <2>5, <3>5, Zenon
  <2>6. Stored(s, path, data)
    BY <2>4, <2>5, Zenon DEF Stored
  <2> QED BY <2>6, Zenon DEF s
<1>3. CASE ~is_storage_backed(at)
  <2>1. s = WriteWhole(v, st, path, data)
    BY <1>3, Zenon DEF write_path
  <2> HIDE DEF s
  <2>2. Holds(v, st, s, path, data)
    BY <1>1, <2>1, WriteWholeOK, Zenon
  <2>3. ASSUME s.ok, path.abs, ~is_sys_path(p) PROVE Content(s.vfs, s.storage, path) = data
    <3>1. at = Locate(st, p) /\ at.path = p
      BY <1>1, <2>3, AbsoluteAt, Zenon
    <3>2. At(s.vfs, s.storage, path) = Locate(st, p)
      BY <1>1, <2>2, <2>3, AbsoluteAt, ZenonT(40) DEF Holds
    <3> HIDE DEF at, p
    <3>3. Content(s.vfs, s.storage, path) = DataOf(s.vfs.nodes, resolve(s.vfs.nodes, s.vfs.cwd, path))
      BY <1>3, <2>3, <3>1, <3>2, Zenon DEF Content
    <3> QED BY <2>2, <2>3, <3>3, Zenon DEF Holds
  <2>4. Stored(s, path, data)
    BY <2>2, <2>3, Zenon DEF Stored, Holds
  <2> QED BY <2>4, Zenon DEF s
<1> QED BY <1>2, <1>3, Zenon

LEMMA CopyOK ==
  ASSUME NEW v, VfsOK(v), NEW st, StorageOK(st), NEW src, PathOK(v, src),
         NEW dst \in PathType, dst.abs
  PROVE  Stored(Copy(v, st, src, dst), dst, Content(v, st, src))
<1> DEFINE after == read_path(v, st, src)
           data == Content(v, st, src)
           s == Copy(v, st, src, dst)
<1>1. VfsOK(after)
  BY ReadPathOK, Zenon DEF PathOK
<1>2. CASE data = None
  <2>1. s = Unchanged(after, st, FALSE)
    BY <1>2, Zenon DEF Copy
  <2> HIDE DEF after, s
  <2>2. ResultOK(s)
    BY <1>1, <2>1, UnchangedOK, Zenon
  <2>3. ~s.ok
    BY <2>1 DEF Unchanged
  <2>4. Stored(s, dst, data)
    BY <2>2, <2>3, Zenon DEF Stored
  <2> QED BY <2>4, Zenon DEF s
<1>3. CASE data # None
  <2>1. s = write_path(after, st, dst, data)
    BY <1>3, Zenon DEF Copy
  <2>2. data \in Seq(Nat)
    BY <1>3, ContentBytes, Zenon
  <2>3. PathOK(after, dst)
    BY Zenon DEF PathOK
  <2> HIDE DEF after, s, data
  <2>4. Stored(s, dst, data)
    BY <1>1, <2>1, <2>2, <2>3, WritePathOK, Zenon
  <2> QED BY <2>4, Zenon DEF s, data
<1> QED BY <1>2, <1>3, Zenon

LEMMA CpProgramOK ==
  ASSUME NEW v, VfsOK(v), NEW st, StorageOK(st), NEW src, PathOK(v, src), NEW dst, PathOK(v, dst)
  PROVE  ResultOK(cp_program(v, st, src, dst))
<1> DEFINE from == Absolute(v, src)
           to == Absolute(v, dst)
           r == open(v, from, read_only)
           s == cp_program(v, st, src, dst)
<1>1. from \in PathType /\ to \in PathType
  BY PathIsNames, Zenon
<1>2. CASE r.fd = None
  <2>1. s = Unchanged(v, st, FALSE)
    BY <1>2, Zenon DEF cp_program
  <2> QED BY <2>1, UnchangedOK, Zenon
<1>3. CASE r.fd # None
  <2> DEFINE v1 == close(r.vfs, r.fd)
             data == v.nodes[r.vfs.open_files[r.fd].inode].data
  <2>1. s = WriteWhole(v1, st, to, data)
    BY <1>3, Zenon DEF cp_program
  <2>2. read_only \in OpenOptions /\ ~read_only.create /\ ~read_only.truncate
    BY DEF OpenOptions, read_only
  <2> HIDE DEF from
  <2>3. FileOpened(v, r.vfs, r.fd, from, read_only)
    BY <1>1, <1>3, <2>2, OpenOK, Zenon DEF NotThere
  <2> HIDE DEF r
  <2>4. /\ VfsOK(r.vfs) /\ r.fd \in DOMAIN r.vfs.open_files
        /\ IsKind(v.nodes, r.vfs.open_files[r.fd].inode, "File")
    BY <2>2, <2>3, Zenon DEF FileOpened
  <2>5. VfsOK(v1)
    BY <2>4, CloseOK, Zenon
  <2>6. data \in Seq(Nat)
    <3> DEFINE inode == r.vfs.open_files[r.fd].inode
    <3>1. v.nodes[inode] \in NodeType
      BY <2>4, LiveNode, CwdLive, Zenon DEF IsKind
    <3> HIDE DEF inode
    <3>2. v.nodes[inode].data \in Seq(Nat)
      BY <3>1 DEF NodeType
    <3> QED BY <3>2, Zenon DEF inode
  <2> HIDE DEF v1, data, to, s
  <2>7. ResultOK(s)
    BY <1>1, <2>1, <2>5, <2>6, WriteWholeOK, Zenon DEF Holds
  <2> QED BY <2>7, Zenon DEF s
<1> QED BY <1>2, <1>3, Zenon

LEMMA MvProgramOK ==
  ASSUME NEW v, VfsOK(v), NEW st, StorageOK(st), NEW src, PathOK(v, src), NEW dst, PathOK(v, dst)
  PROVE  ResultOK(mv_program(v, st, src, dst))
<1> DEFINE from == Absolute(v, src)
           to == Absolute(v, dst)
           r == rename(v, st, from, to)
           c == cp_program(r.vfs, r.storage, src, dst)
           s == mv_program(v, st, src, dst)
<1>1. \A w : PathOK(w, from) /\ PathOK(w, to)
  BY AbsoluteOK, Zenon
<1>2. ResultOK(r) /\ r.vfs.cwd = v.cwd /\ (~r.ok => SameNodes(v.nodes, r.vfs.nodes))
  <2> HIDE DEF from, to
  <2> QED BY <1>1, RenameOK
<1>3. CASE r.ok
  <2>1. s = r
    BY <1>3, Zenon DEF mv_program
  <2> QED BY <1>2, <2>1, Zenon
<1>4. CASE ~r.ok
  <2>1. s = IF c.ok THEN unlink(c.vfs, c.storage, from) ELSE c
    BY <1>4, Zenon DEF mv_program
  <2> HIDE DEF r, from, to
  <2>2. PathOK(r.vfs, src) /\ PathOK(r.vfs, dst)
    <3>1. path_for_inode(r.vfs.nodes, r.vfs.cwd) = path_for_inode(v.nodes, v.cwd)
      BY <1>2, <1>4, CwdLive, PathSame, Zenon
    <3> QED BY <3>1, Zenon DEF PathOK
  <2>3. ResultOK(c)
    BY <1>2, <2>2, CpProgramOK, Zenon DEF ResultOK
  <2> HIDE DEF c
  <2>4. ResultOK(unlink(c.vfs, c.storage, from))
    BY <1>1, <2>3, UnlinkOK, Zenon DEF ResultOK
  <2> QED BY <2>1, <2>3, <2>4, Zenon
<1> QED BY <1>3, <1>4, Zenon

WithMounts(v, mounts) == [v EXCEPT !.mounts = mounts]

LEMMA MountsChanged ==
  ASSUME NEW v, VfsOK(v), NEW mounts
  PROVE  VfsOK(WithMounts(v, mounts))
<1> DEFINE v2 == WithMounts(v, mounts)
<1>1. v2 = [nodes |-> v.nodes, cwd |-> v.cwd, open_files |-> v.open_files, mounts |-> mounts]
  BY DEF WithMounts, VfsOK
<1>2. TreeOK(v.nodes) /\ IsKind(v.nodes, v.cwd, "Directory") /\ FilesOK(v.nodes, v.open_files)
  BY Zenon DEF VfsOK
<1> HIDE DEF v2
<1> QED BY <1>1, <1>2, VfsRecord, Zenon DEF v2

LEMMA MountOnOK ==
  ASSUME NEW made, ResultOK(made), NEW name, NEW path \in PathType, NEW ro, NEW abs
  PROVE  ResultOK(MountOn(made, name, path, ro, abs))
<1> DEFINE fs == made.storage.volumes[Named(made.storage, name)].filesystem
           mount == [path |-> abs, fs_name |-> fs, read_only |-> ro]
           Refused == \/ ~IsKind(made.vfs.nodes, resolve(made.vfs.nodes, made.vfs.cwd, Path(abs)),
                                 "Directory")
                      \/ \E m \in made.vfs.mounts : m.path = abs
           v2 == WithMounts(made.vfs, made.vfs.mounts \cup {mount})
           r == mount_volume(made.storage, name, path)
           s == MountOn(made, name, path, ro, abs)
<1>1. VfsOK(made.vfs) /\ StorageOK(made.storage)
  BY Zenon DEF ResultOK
<1>2. CASE Refused
  <2>1. s = [made EXCEPT !.ok = FALSE]
    BY <1>2, Zenon DEF MountOn
  <2>2. s = [vfs |-> made.vfs, storage |-> made.storage, ok |-> FALSE]
    <3> HIDE DEF s
    <3> QED BY <2>1, Zenon DEF ResultOK
  <2>3. s = Unchanged(made.vfs, made.storage, FALSE)
    BY <2>2, Zenon DEF Unchanged
  <2> QED BY <1>1, <2>3, UnchangedOK, Zenon
<1>3. CASE ~Refused
  <2>1. s = FromStorage(v2, r)
    BY <1>3, Zenon DEF MountOn, WithMounts
  <2> HIDE DEF mount
  <2>2. VfsOK(v2)
    BY <1>1, MountsChanged, Zenon
  <2>3. StorageOK(r.st)
    BY <1>1, MountVolumeOK
  <2> QED BY <2>1, <2>2, <2>3, FromStorageOK, Zenon
<1> QED BY <1>2, <1>3, Zenon

LEMMA CmdMountOK ==
  ASSUME NEW v, VfsOK(v), NEW st, StorageOK(st), NEW name, NEW path, PathOK(v, path), NEW ro
  PROVE  ResultOK(cmd_mount(v, st, name, path, ro))
<1> DEFINE made == Make(v, st, path, "Directory")
           abs == normalized_path(made.vfs.nodes, made.vfs.cwd, path)
<1>1. cmd_mount(v, st, name, path, ro) = MountOn(made, name, path, ro, abs)
  BY Zenon DEF cmd_mount
<1>2. ResultOK(made) /\ path \in PathType
  BY MakeOK, Zenon DEF PathOK
<1> HIDE DEF made, abs
<1> QED BY <1>1, <1>2, MountOnOK, Zenon

LEMMA CmdUmountOK ==
  ASSUME NEW v, VfsOK(v), NEW st, StorageOK(st), NEW path, PathOK(v, path)
  PROVE  ResultOK(cmd_umount(v, st, path))
<1> DEFINE abs == normalized_path(v.nodes, v.cwd, path)
           Refused == abs = <<>> \/ \A m \in v.mounts : m.path # abs
           v2 == WithMounts(v, {m \in v.mounts : m.path # abs})
           r == umount_volume(st, path)
           s == cmd_umount(v, st, path)
<1>1. CASE Refused
  <2>1. s = Unchanged(v, st, FALSE)
    BY <1>1, Zenon DEF cmd_umount
  <2> QED BY <2>1, UnchangedOK, Zenon
<1>2. CASE ~Refused
  <2>1. s = FromStorage(v2, r)
    BY <1>2, Zenon DEF cmd_umount, WithMounts
  <2>2. VfsOK(v2)
    BY MountsChanged, Zenon
  <2>3. path # Path(<<>>)
    <3>1. SUFFICES ASSUME path = Path(<<>>) PROVE FALSE
      BY Zenon
    <3>2. path.abs /\ path.parts = <<>>
      BY <3>1 DEF Path
    <3>3. path \in PathType
      BY Zenon DEF PathOK
    <3>4. abs = Normalize(path.parts)
      BY <3>2, <3>3, AbsoluteAt, Zenon
    <3>5. Normalize(path.parts) = <<>>
      <4>1. path.parts \in Seq(Text)
        BY <3>3 DEF PathType
      <4> QED BY <3>2, <4>1, NormalizeType, Zenon
    <3> QED BY <1>2, <3>4, <3>5, Zenon
  <2>4. StorageOK(r.st)
    BY <2>3, UmountVolumeOK DEF PathOK
  <2> QED BY <2>1, <2>2, <2>4, FromStorageOK, Zenon
<1> QED BY <1>1, <1>2, Zenon

-----------------------------------------------------------------------------
(* The initial tree.                                                       *)

RootTree == <<NewNode("/", "Directory", None)>>

LEMMA RootTreeOK == TreeOK(RootTree)
<1> DEFINE node == NewNode("/", "Directory", None)
           nodes == RootTree
<1>1. "/" \in Text
  BY Zenon DEF Text
<1>2. node \in NodeType /\ node.kind = "Directory" /\ node.parent = None /\ node.children = {}
  BY <1>1 DEF NewNode, NodeType
<1>3. node # None
  BY <1>2, TmpfsAssumption, Zenon
<1> HIDE DEF node
<1>4. nodes \in NodeSeq /\ DOMAIN nodes = {1} /\ nodes[1] = node
  BY <1>2 DEF NodeSeq, RootTree, node
<1> HIDE DEF nodes
<1>5. \A i : Live(nodes, i) <=> i = ROOT
  BY <1>3, <1>4 DEF Live, ROOT
<1>6. nodes[ROOT] = node
  BY <1>4 DEF ROOT
<1>7. IsKind(nodes, ROOT, "Directory") /\ nodes[ROOT].parent = None
  BY <1>2, <1>5, <1>6, Zenon DEF IsKind
<1>8. ChildrenOK(nodes) /\ NamesOK(nodes)
  BY <1>2, <1>5, <1>6, Zenon DEF ChildrenOK, NamesOK
<1>9. ParentsKnown(nodes) /\ Listed(nodes)
  BY <1>5, Zenon DEF ParentsKnown, Listed
<1>10. TreeOK(nodes)
  BY <1>4, <1>7, <1>8, <1>9, Zenon DEF TreeOK
<1> QED BY <1>10, Zenon DEF nodes

\* seed_standard_tree goes from tree to tree.
Seeded(tree, parts) ==
  LET made == create(tree, ROOT, Path(parts), "Directory")
  IN  IF made = None THEN tree ELSE made

LEMMA SeededOK ==
  ASSUME NEW tree, TreeOK(tree), NEW parts \in Seq(Text)
  PROVE  TreeOK(Seeded(tree, parts))
<1> DEFINE path == Path(parts)
           made == create(tree, ROOT, path, "Directory")
<1>1. path \in PathType
  BY DEF Path, PathType
<1> HIDE DEF path
<1>2. made # None => TreeOK(made)
  BY <1>1, CreateTree, Zenon
<1> QED BY <1>2, Zenon DEF Seeded, path

LEMMA SeedsOK == TreeOK(seed_standard_tree[Len(Seeds)])
<1> DEFINE N == Len(Seeds)
           D == {tree \in NodeSeq : TreeOK(tree)}
           step == [k \in 1 .. N |-> [d \in D |-> Seeded(d, Seeds[k])]]
           Step(t, k) == IF k = 0 THEN RootTree ELSE Seeded(t[k - 1], Seeds[k])
           f == CHOOSE t : t = [k \in 0 .. N |-> Step(t, k)]
<1>1. N \in Nat /\ \A k \in 1 .. N : Seeds[k] \in Seq(Text)
  BY VfsAssumption, LenProperties, ElementOfSeq
<1>2. \A tree : tree \in D <=> TreeOK(tree)
  BY Zenon DEF TreeOK
<1>3. RootTree \in D /\ \A k \in 1 .. N, d \in D : Seeded(d, Seeds[k]) \in D
  BY <1>1, <1>2, RootTreeOK, SeededOK, Zenon
<1> HIDE DEF D, N
<1>4. step \in [1 .. N -> [D -> D]]
  BY <1>3, Zenon
<1>5. seed_standard_tree = f
  BY Zenon DEF seed_standard_tree, Seeded, RootTree, N
<1>6. PICK g \in [0 .. N -> D] : g[0] = RootTree /\ \A k \in 1 .. N : g[k] = step[k][g[k - 1]]
  <2>1. RootTree \in D /\ N \in Nat
    BY <1>1, <1>3, Zenon
  <2> HIDE DEF step
  <2>2. Solvable(D, RootTree, N, step)
    BY <2>1, <1>4, Recursion, Zenon
  <2> QED BY <2>2, Zenon DEF Solvable
<1>7. \A k \in 0 .. N : g[k] = Step(g, k)
  <2>1. ASSUME NEW k \in 1 .. N PROVE g[k] = Seeded(g[k - 1], Seeds[k])
    <3>1. k - 1 \in 0 .. N /\ k \in 1 .. N
      BY <1>1
    <3>2. g[k - 1] \in D /\ g[k] = step[k][g[k - 1]]
      BY <3>1, <1>6, Zenon
    <3> QED BY <3>2
  <2> QED BY <1>1, <1>6, <2>1
<1>8. g = [k \in 0 .. N |-> Step(g, k)]
  <2> HIDE DEF Step
  <2>1. g = [k \in 0 .. N |-> g[k]]
    OBVIOUS
  <2> QED BY <2>1, <1>7
<1>9. f = [k \in 0 .. N |-> Step(f, k)]
  <2> HIDE DEF Step
  <2> QED BY <1>8, Zenon
<1>10. \A k \in 0 .. N : f[k] = Step(f, k)
  <2> HIDE DEF Step, f
  <2> QED BY <1>9, Zenon
<1> HIDE DEF f
<1>11. f[0] = RootTree /\ \A k \in 1 .. N : f[k] = Seeded(f[k - 1], Seeds[k])
  BY <1>1, <1>10
<1>12. f[N] \in D
  <2> DEFINE P == {k \in 0 .. N : f[k] \in D}
  <2>1. 0 \in P
    BY <1>1, <1>3, <1>11
  <2>2. ASSUME NEW k \in 1 .. N, k - 1 \in P PROVE k \in P
    <3>1. f[k - 1] \in D /\ k \in 0 .. N
      BY <2>2, <1>1
    <3>2. f[k] \in D
      BY <3>1, <1>3, <1>11, Zenon
    <3> QED BY <3>1, <3>2
  <2> HIDE DEF P
  <2>3. N \in P
    BY <1>1, <2>1, <2>2, UpTo
  <2> QED BY <2>3 DEF P
<1> QED BY <1>2, <1>5, <1>12, Zenon DEF N

-----------------------------------------------------------------------------
(* The invariant.                                                          *)

IInv ==
  /\ session \in Sessions
  /\ VfsOK(vfs)
  /\ StorageOK(storage)
  /\ WritesAreExact

LEMMA InitIInv == Init => IInv
<1> SUFFICES ASSUME Init PROVE IInv
  OBVIOUS
<1> DEFINE nodes == seed_standard_tree[Len(Seeds)]
           files == <<>>
           mounts == {[path |-> <<>>, fs_name |-> "TmpFs", read_only |-> FALSE]}
<1>1. TreeOK(nodes)
  BY SeedsOK
<1>2. IsKind(nodes, ROOT, "Directory")
  BY <1>1, Zenon DEF TreeOK
<1>3. FilesOK(nodes, files)
  BY DEF FilesOK
<1>4. vfs = [nodes |-> nodes, cwd |-> ROOT, open_files |-> files, mounts |-> mounts]
  BY Zenon DEF Init
<1> HIDE DEF nodes, files, mounts
<1>5. VfsOK(vfs)
  BY <1>1, <1>2, <1>3, <1>4, VfsRecord, Zenon
<1>6. StorageOK(storage)
  BY ScanOK, Zenon DEF Init
<1>7. WritesAreExact
  BY Zenon DEF Init, WritesAreExact, CopiesAreExact, AppendKeepsContent
<1> QED BY <1>5, <1>6, <1>7, Zenon DEF IInv, Init

\* What the assumptions give of the session.
LEMMA SessionFacts ==
  ASSUME IInv
  PROVE  /\ session.dirs \cup session.files \cup session.mounts \subseteq PathType
         /\ session.data \subseteq Seq(Nat)
         /\ session.modes \subseteq OpenOptions /\ session.formats \subseteq Text
BY VfsAssumption, Zenon DEF IInv

LEMMA ReturnsPath ==
  ASSUME NEW path \in PathType, Returns(path)
  PROVE  PathOK(vfs, path)
BY Zenon DEF Returns, Hangs, PathOK

LEMMA ForgetExact == ASSUME last' = None PROVE WritesAreExact'
BY Zenon DEF WritesAreExact, CopiesAreExact, AppendKeepsContent

LEMMA EffectStep ==
  ASSUME IInv, NEW s, ResultOK(s), Effect(s), WritesAreExact'
  PROVE  IInv'
BY Zenon DEF IInv, Effect, ResultOK

LEMMA HangStep ==
  ASSUME IInv, NEW path, Hang(path)
  PROVE  IInv'
<1>1. last' = None /\ UNCHANGED <<session, vfs, storage>>
  BY Zenon DEF Hang
<1>2. WritesAreExact'
  BY <1>1, ForgetExact, Zenon
<1> QED BY <1>1, <1>2 DEF IInv

LEMMA MakeNodeStep ==
  ASSUME IInv, NEW path \in PathType, NEW kind \in {"File", "Directory"}, MakeNode(path, kind)
  PROVE  IInv'
<1> DEFINE s == Make(vfs, storage, path, kind)
<1>1. Returns(path) /\ last' = None /\ Effect(s)
  BY Zenon DEF MakeNode, Forget
<1>2. ResultOK(s)
  BY <1>1, ReturnsPath, MakeOK, Zenon DEF IInv
<1> QED BY <1>1, <1>2, ForgetExact, EffectStep, Zenon

LEMMA UnlinkStep ==
  ASSUME IInv, NEW path \in PathType, Unlink(path)
  PROVE  IInv'
<1> DEFINE s == unlink(vfs, storage, path)
<1>1. Returns(path) /\ last' = None /\ Effect(s)
  BY Zenon DEF Unlink, Forget
<1>2. ResultOK(s)
  BY <1>1, ReturnsPath, UnlinkOK, Zenon DEF IInv
<1> QED BY <1>1, <1>2, ForgetExact, EffectStep, Zenon

LEMMA RenameStep ==
  ASSUME IInv, NEW from \in PathType, NEW to \in PathType, Rename(from, to)
  PROVE  IInv'
<1> DEFINE s == rename(vfs, storage, from, to)
<1>1. Returns(from) /\ Returns(to) /\ last' = None /\ Effect(s)
  BY Zenon DEF Rename, Forget
<1>2. ResultOK(s)
  BY <1>1, ReturnsPath, RenameOK, Zenon DEF IInv
<1> QED BY <1>1, <1>2, ForgetExact, EffectStep, Zenon

LEMMA CdStep ==
  ASSUME IInv, NEW path, Cd(path)
  PROVE  IInv'
<1> DEFINE inode == resolve(vfs.nodes, vfs.cwd, path)
<1>1. /\ last' = None /\ UNCHANGED <<session, storage>>
      /\ IsKind(vfs.nodes, inode, "Directory")
      /\ vfs' = [vfs EXCEPT !.cwd = inode]
  BY Zenon DEF Cd, Forget
<1> HIDE DEF inode
<1>2. /\ vfs = [nodes |-> vfs.nodes, cwd |-> vfs.cwd, open_files |-> vfs.open_files,
                mounts |-> vfs.mounts]
      /\ TreeOK(vfs.nodes) /\ FilesOK(vfs.nodes, vfs.open_files)
  BY Zenon DEF IInv, VfsOK
<1>3. vfs' = [nodes |-> vfs.nodes, cwd |-> inode, open_files |-> vfs.open_files,
              mounts |-> vfs.mounts]
  BY <1>1, <1>2
<1>4. VfsOK(vfs')
  BY <1>1, <1>2, <1>3, VfsRecord, Zenon
<1>5. WritesAreExact'
  BY <1>1, ForgetExact, Zenon
<1> QED BY <1>1, <1>4, <1>5, Zenon DEF IInv

LEMMA OpenStep ==
  ASSUME IInv, NEW path \in PathType, NEW o \in OpenOptions, Open(path, o)
  PROVE  IInv'
<1> DEFINE r == open(vfs, path, o)
           s == Unchanged(r.vfs, storage, r.fd # None)
<1>1. last' = None /\ Effect(s)
  BY Zenon DEF Open, Forget
<1>2. VfsOK(r.vfs)
  BY OpenOK, Zenon DEF IInv, NotThere, FileOpened
<1> HIDE DEF r
<1>3. ResultOK(s)
  BY <1>2, UnchangedOK, Zenon DEF IInv
<1> QED BY <1>1, <1>3, ForgetExact, EffectStep, Zenon

\* An open descriptor is on a file.
LEMMA OpenFile ==
  ASSUME IInv, NEW fd, IsOpen(vfs, fd)
  PROVE  /\ fd \in DOMAIN vfs.open_files /\ vfs.open_files[fd] \in FileType
         /\ IsKind(vfs.nodes, vfs.open_files[fd].inode, "File")
         /\ vfs.nodes[vfs.open_files[fd].inode].data \in Seq(Nat)
<1> DEFINE files == vfs.open_files
           inode == files[fd].inode
<1>1. FilesOK(vfs.nodes, files) /\ VfsOK(vfs)
  BY Zenon DEF IInv, VfsOK
<1>2. fd \in DOMAIN files /\ files[fd] # None /\ IsKind(vfs.nodes, inode, "File")
  BY <1>1, Zenon DEF IsOpen, FilesOK
<1>3. files[fd] \in FileType \cup {None}
  <2> HIDE DEF files
  <2>1. files \in Seq(FileType \cup {None})
    BY <1>1, Zenon DEF FilesOK
  <2>2. fd \in 1 .. Len(files)
    BY <1>2, <2>1, LenProperties
  <2> QED BY <2>1, <2>2, ElementOfSeq
<1>4. vfs.nodes[inode] \in NodeType
  BY <1>1, <1>2, LiveNode, CwdLive, Zenon DEF IsKind
<1> HIDE DEF inode, files
<1>5. vfs.nodes[inode].data \in Seq(Nat)
  BY <1>4 DEF NodeType
<1> QED BY <1>2, <1>3, <1>5, Zenon DEF inode, files

LEMMA CloseStep ==
  ASSUME IInv, NEW fd, Close(fd)
  PROVE  IInv'
<1> DEFINE v == close(vfs, fd)
           s == Unchanged(v, storage, TRUE)
<1>1. last' = None /\ Effect(s) /\ IsOpen(vfs, fd)
  BY Zenon DEF Close, Forget
<1>2. VfsOK(v)
  BY <1>1, CloseOK, Zenon DEF IInv, IsOpen
<1> HIDE DEF v
<1>3. ResultOK(s)
  BY <1>2, UnchangedOK, Zenon DEF IInv
<1> QED BY <1>1, <1>3, ForgetExact, EffectStep, Zenon

LEMMA MoveStep ==
  ASSUME IInv, NEW fd, IsOpen(vfs, fd), NEW at \in Nat, last' = None,
         vfs' = [vfs EXCEPT !.open_files[fd].offset = at], UNCHANGED <<session, storage>>
  PROVE  IInv'
<1> DEFINE f == vfs.open_files[fd]
<1>1. fd \in DOMAIN vfs.open_files /\ f \in FileType /\ IsKind(vfs.nodes, f.inode, "File")
  BY OpenFile, Zenon
<1>2. VfsOK(vfs)
  BY Zenon DEF IInv
<1> DEFINE v == vfs
           v2 == vfs'
<1> HIDE DEF v, v2
<1>3. VfsOK(v2)
  <2>1. f = v.open_files[fd] /\ fd \in DOMAIN v.open_files /\ IsKind(v.nodes, f.inode, "File")
    BY <1>1, Zenon DEF v
  <2>2. v2 = [v EXCEPT !.open_files[fd].offset = at] /\ VfsOK(v)
    BY <1>2, Zenon DEF v, v2
  <2>3. f \in FileType
    BY <1>1, Zenon
  <2> HIDE DEF f
  <2> QED BY <2>1, <2>2, <2>3, MoveOffset
<1>4. WritesAreExact'
  BY ForgetExact, Zenon
<1> QED BY <1>3, <1>4, Zenon DEF IInv, v2

LEMMA ReadStep ==
  ASSUME IInv, NEW fd, Read(fd, 1)
  PROVE  IInv'
<1> DEFINE f == vfs.open_files[fd]
           len == inode_len(vfs.nodes, f.inode)
           data == vfs.nodes[f.inode].data
           read == read_inode_range(vfs.nodes, f.inode, f.offset, 1)
           at == f.offset + Len(read)
<1>1. /\ last' = None /\ IsOpen(vfs, fd) /\ UNCHANGED <<session, storage>>
      /\ vfs' = [vfs EXCEPT !.open_files[fd].offset = @ + Len(read)]
  BY Zenon DEF Read, Forget
<1>2. f \in FileType /\ data \in Seq(Nat)
  BY <1>1, OpenFile, Zenon
<1>3. f.offset \in Nat /\ len = Len(data)
  BY <1>2 DEF FileType, inode_len
<1>4. Len(read) \in Nat
  <2> HIDE DEF data, f
  <2>1. read = SubSeq(data, f.offset + 1, IF f.offset + 1 > len THEN len ELSE f.offset + 1)
    BY Zenon DEF read_inode_range, data
  <2>2. Len(data) \in Nat
    BY <1>2, LenProperties
  <2> HIDE DEF len, read
  <2>3. read \in Seq(Nat)
    BY <1>2, <1>3, <2>1, <2>2
  <2> QED BY <2>3, LenProperties
<1>5. vfs' = [vfs EXCEPT !.open_files[fd].offset = at]
  <2> HIDE DEF read
  <2> QED BY <1>1
<1>6. at \in Nat
  <2> HIDE DEF read, f
  <2> QED BY <1>3, <1>4
<1> HIDE DEF at
<1> QED BY <1>1, <1>5, <1>6, MoveStep, Zenon

LEMMA SeekStep ==
  ASSUME IInv, NEW fd, NEW from \in {"Start", "Current", "End"}, NEW delta \in Int,
         Seek(fd, from, delta)
  PROVE  IInv'
<1> DEFINE f == vfs.open_files[fd]
           len == inode_len(vfs.nodes, f.inode)
           target == delta + CASE from = "Start"   -> 0
                               [] from = "Current" -> f.offset
                               [] from = "End"     -> len
           at == Clamp(target, len)
<1>1. /\ last' = None /\ IsOpen(vfs, fd) /\ UNCHANGED <<session, storage>>
      /\ vfs' = [vfs EXCEPT !.open_files[fd].offset = at]
  BY Zenon DEF Seek, Forget
<1>2. f \in FileType /\ vfs.nodes[f.inode].data \in Seq(Nat)
  BY <1>1, OpenFile, Zenon
<1>3. f.offset \in Nat /\ len \in Nat
  BY <1>2, LenProperties DEF FileType, inode_len
<1> HIDE DEF f, len
<1>4. target \in Int
  BY <1>3
<1> HIDE DEF target
<1>5. at \in Nat
  BY <1>3, <1>4 DEF Clamp
<1> HIDE DEF at
<1> QED BY <1>1, <1>5, MoveStep, Zenon

\* An append leaves what was in the file, then the data.
LEMMA WriteStep ==
  ASSUME IInv, NEW fd, NEW data \in Seq(Nat), Write(fd, data)
  PROVE  IInv'
<1> DEFINE f == vfs.open_files[fd]
           old == vfs.nodes[f.inode].data
           v == write(vfs, fd, data)
           s == Unchanged(v, storage, TRUE)
           record == [op |-> "append", inode |-> f.inode, content |-> old \o data]
<1>1. IsOpen(vfs, fd) /\ Effect(s) /\ last' = IF f.append THEN record ELSE None
  BY Zenon DEF Write
<1>2. fd \in DOMAIN vfs.open_files /\ f \in FileType /\ IsKind(vfs.nodes, f.inode, "File")
  BY <1>1, OpenFile, Zenon
<1>3. /\ old \in Seq(Nat)
      /\ Wrote(vfs, v, fd, f.inode, Spliced(old, Start(vfs, f), data))
      /\ f.append => Start(vfs, f) = Len(old)
  BY <1>2, WriteOK, Zenon DEF IInv
<1>4. f.append => v.nodes[f.inode].data = old \o data
  BY <1>3, SplicedEnd, Zenon DEF Wrote
<1>5. VfsOK(v)
  BY <1>3, Zenon DEF Wrote
<1>6. ResultOK(s)
  <2> HIDE DEF v
  <2> QED BY <1>5, UnchangedOK, Zenon DEF IInv
<1>7. vfs' = v
  <2>1. vfs' = s.vfs
    BY <1>1, Zenon DEF Effect
  <2> HIDE DEF v
  <2>2. s.vfs = v
    BY DEF Unchanged
  <2> QED BY <2>1, <2>2, Zenon
<1>8. WritesAreExact'
  <2>1. CASE f.append
    <3>1. last' = record
      BY <1>1, <2>1, Zenon
    <3> DEFINE inode == f.inode
               content == old \o data
    <3> HIDE DEF inode, content, v
    <3>2. last' = [op |-> "append", inode |-> inode, content |-> content]
      BY <3>1, Zenon DEF inode, content
    <3>3. last'.op = "append" /\ last'.inode = inode /\ last'.content = content
      BY <3>2
    <3>4. vfs'.nodes[inode].data = content
      BY <1>4, <1>7, <2>1, Zenon DEF inode, content
    <3>5. AppendKeepsContent'
      BY <3>3, <3>4, Zenon DEF AppendKeepsContent
    <3>6. CopiesAreExact'
      BY <3>3 DEF CopiesAreExact
    <3> QED BY <3>5, <3>6, Zenon DEF WritesAreExact
  <2>2. CASE ~f.append
    <3>1. last' = None
      BY <1>1, <2>2, Zenon
    <3> QED BY <3>1, ForgetExact, Zenon
  <2> QED BY <2>1, <2>2, Zenon
<1> HIDE DEF s
<1> QED BY <1>1, <1>6, <1>8, EffectStep, Zenon

LEMMA WritePathStep ==
  ASSUME IInv, NEW path \in PathType, NEW data \in Seq(Nat), WritePath(path, data)
  PROVE  IInv'
<1> DEFINE s == write_path(vfs, storage, path, data)
<1>1. Returns(path) /\ last' = None /\ Effect(s)
  BY Zenon DEF WritePath, Forget
<1>2. ResultOK(s)
  BY <1>1, ReturnsPath, WritePathOK, Zenon DEF IInv, Stored
<1> QED BY <1>1, <1>2, ForgetExact, EffectStep, Zenon

\* A copy that was made holds the content of its source.
LEMMA CmdCpStep ==
  ASSUME IInv, NEW src \in PathType, NEW dst \in PathType, CmdCp(src, dst)
  PROVE  IInv'
<1> DEFINE from == Absolute(vfs, src)
           to == Absolute(vfs, dst)
           held == Content(vfs, storage, from)
           s == cmd_cp(vfs, storage, src, dst)
<1>1. /\ Returns(src) /\ Returns(dst) /\ Effect(s)
      /\ last' = IF s.ok THEN [op |-> "cp", dst |-> to, content |-> held] ELSE None
  BY Zenon DEF CmdCp
<1>2. PathOK(vfs, from) /\ to \in PathType /\ to.abs
  BY <1>1, ReturnsPath, AbsoluteOK, PathIsNames, Zenon DEF IInv
<1>3. s = Copy(vfs, storage, from, to)
  BY Zenon DEF cmd_cp
<1> HIDE DEF from, to, s
<1>4. Stored(s, to, held)
  BY <1>2, <1>3, CopyOK, Zenon DEF IInv
<1>5. ResultOK(s) /\ vfs' = s.vfs /\ storage' = s.storage
  BY <1>1, <1>4, Zenon DEF Stored, Effect
<1> HIDE DEF held
<1>6. WritesAreExact'
  <2>1. CASE s.ok
    <3>1. last' = [op |-> "cp", dst |-> to, content |-> held]
      BY <1>1, <2>1, Zenon
    <3>2. last'.op = "cp" /\ last'.dst = to /\ last'.content = held
      BY <3>1
    <3>3. ~is_sys_path(Normalize(to.parts)) => Content(vfs', storage', to) = held
      BY <1>2, <1>4, <1>5, <2>1, Zenon DEF Stored
    <3>4. CopiesAreExact'
      BY <3>2, <3>3, Zenon DEF CopiesAreExact
    <3>5. AppendKeepsContent'
      BY <3>2 DEF AppendKeepsContent
    <3> QED BY <3>4, <3>5, Zenon DEF WritesAreExact
  <2>2. CASE ~s.ok
    <3>1. last' = None
      BY <1>1, <2>2, Zenon
    <3> QED BY <3>1, ForgetExact, Zenon
  <2> QED BY <2>1, <2>2, Zenon
<1> QED BY <1>1, <1>5, <1>6, EffectStep, Zenon

LEMMA CpProgramStep ==
  ASSUME IInv, NEW src \in PathType, NEW dst \in PathType, CpProgram(src, dst)
  PROVE  IInv'
<1> DEFINE s == cp_program(vfs, storage, src, dst)
<1>1. Returns(src) /\ Returns(dst) /\ last' = None /\ Effect(s)
  BY Zenon DEF CpProgram, Forget
<1>2. ResultOK(s)
  BY <1>1, ReturnsPath, CpProgramOK, Zenon DEF IInv
<1> QED BY <1>1, <1>2, ForgetExact, EffectStep, Zenon

LEMMA MvProgramStep ==
  ASSUME IInv, NEW src \in PathType, NEW dst \in PathType, MvProgram(src, dst)
  PROVE  IInv'
<1> DEFINE s == mv_program(vfs, storage, src, dst)
<1>1. Returns(src) /\ Returns(dst) /\ last' = None /\ Effect(s)
  BY Zenon DEF MvProgram, Forget
<1>2. ResultOK(s)
  BY <1>1, ReturnsPath, MvProgramOK, Zenon DEF IInv
<1> QED BY <1>1, <1>2, ForgetExact, EffectStep, Zenon

LEMMA CmdMountStep ==
  ASSUME IInv, NEW name, NEW path \in PathType, NEW ro, CmdMount(name, path, ro)
  PROVE  IInv'
<1> DEFINE s == cmd_mount(vfs, storage, name, path, ro)
<1>1. Returns(path) /\ last' = None /\ Effect(s)
  BY Zenon DEF CmdMount, Forget
<1>2. ResultOK(s)
  BY <1>1, ReturnsPath, CmdMountOK, Zenon DEF IInv
<1> QED BY <1>1, <1>2, ForgetExact, EffectStep, Zenon

LEMMA CmdUmountStep ==
  ASSUME IInv, NEW path \in PathType, CmdUmount(path)
  PROVE  IInv'
<1> DEFINE s == cmd_umount(vfs, storage, path)
<1>1. Returns(path) /\ last' = None /\ Effect(s)
  BY Zenon DEF CmdUmount, Forget
<1>2. ResultOK(s)
  BY <1>1, ReturnsPath, CmdUmountOK, Zenon DEF IInv
<1> QED BY <1>1, <1>2, ForgetExact, EffectStep, Zenon

\* rescan and format change the storage alone.
LEMMA StorageStep ==
  ASSUME IInv, last' = None, UNCHANGED <<session, vfs>>, StorageOK(storage')
  PROVE  IInv'
<1>1. WritesAreExact'
  BY ForgetExact, Zenon
<1>2. session' = session /\ vfs' = vfs
  OBVIOUS
<1> QED BY <1>1, <1>2, Zenon DEF IInv

LEMMA RescanStep == ASSUME IInv, rescan PROVE IInv'
<1>1. last' = None /\ UNCHANGED <<session, vfs>> /\ storage' = Scan
  BY DEF rescan, Forget
<1> QED BY <1>1, ScanOK, StorageStep, Zenon

LEMMA FormatStep ==
  ASSUME IInv, NEW name, NEW fs \in Text, Format(name, fs)
  PROVE  IInv'
<1> DEFINE st == format_volume(storage, name, fs).st
<1>1. last' = None /\ UNCHANGED <<session, vfs>> /\ storage' = st
  BY Zenon DEF Format, Forget
<1>2. StorageOK(st)
  BY FormatVolumeOK, Zenon DEF IInv
<1> HIDE DEF st
<1> QED BY <1>1, <1>2, StorageStep, Zenon

LEMMA NextIInv == IInv /\ [Next]_vars => IInv'
<1> SUFFICES ASSUME IInv, [Next]_vars PROVE IInv'
  OBVIOUS
<1> DEFINE Dirs == session.dirs
           Files == session.files
           Mounts == session.mounts
           Data == session.data
           Modes == session.modes
           Formats == session.formats
<1>1. /\ Dirs \subseteq PathType /\ Files \subseteq PathType /\ Mounts \subseteq PathType
      /\ Data \subseteq Seq(Nat) /\ Modes \subseteq OpenOptions /\ Formats \subseteq Text
  BY SessionFacts, Zenon
<1> HIDE DEF Dirs, Files, Mounts, Data, Modes, Formats
<1>2. ASSUME NEW path \in Dirs, Hang(path) \/ MakeNode(path, "Directory") \/ Unlink(path) \/ Cd(path)
      PROVE  IInv'
  BY <1>1, <1>2, HangStep, MakeNodeStep, UnlinkStep, CdStep, Zenon
<1>3. ASSUME NEW from \in Dirs, NEW to \in Dirs, Rename(from, to)
      PROVE  IInv'
  BY <1>1, <1>3, RenameStep, Zenon
<1>4. ASSUME NEW path \in Files,
             \/ MakeNode(path, "File")
             \/ \E o \in Modes : Open(path, o)
             \/ \E data \in Data : WritePath(path, data)
      PROVE  IInv'
  BY <1>1, <1>4, MakeNodeStep, OpenStep, WritePathStep, Zenon
<1>5. ASSUME NEW fd,
             \/ Close(fd)
             \/ Read(fd, 1)
             \/ \E data \in Data : Write(fd, data)
             \/ \E from \in {"Start", "Current", "End"} : Seek(fd, from, -1) \/ Seek(fd, from, 1)
      PROVE  IInv'
  <2>1. -1 \in Int /\ 1 \in Int
    OBVIOUS
  <2> QED BY <1>1, <1>5, <2>1, CloseStep, ReadStep, WriteStep, SeekStep, Zenon
<1>6. ASSUME NEW src \in Files, NEW dst \in Files,
             CmdCp(src, dst) \/ CpProgram(src, dst) \/ MvProgram(src, dst)
      PROVE  IInv'
  BY <1>1, <1>6, CmdCpStep, CpProgramStep, MvProgramStep, Zenon
<1>7. ASSUME NEW name, NEW path \in Mounts, NEW ro, CmdMount(name, path, ro)
      PROVE  IInv'
  BY <1>1, <1>7, CmdMountStep, Zenon
<1>8. ASSUME NEW path \in Mounts, CmdUmount(path)
      PROVE  IInv'
  BY <1>1, <1>8, CmdUmountStep, Zenon
<1>9. ASSUME NEW name, NEW fs \in Formats, Format(name, fs)
      PROVE  IInv'
  BY <1>1, <1>9, FormatStep, Zenon
<1>10. CASE UNCHANGED vars
  <2>1. UNCHANGED <<session, vfs, storage, last>>
    BY <1>10 DEF vars
  <2> QED BY <2>1 DEF IInv, WritesAreExact, CopiesAreExact, AppendKeepsContent
<1>11. CASE Next
  BY <1>2, <1>3, <1>4, <1>5, <1>6, <1>7, <1>8, <1>9, <1>11, RescanStep, Zenon
     DEF Next, Dirs, Files, Mounts, Data, Modes, Formats
<1> QED BY <1>10, <1>11

\* The inductive invariant of the file system.
THEOREM VfsInvariant == Spec => []IInv
BY InitIInv, NextIInv, PTL DEF Spec

-----------------------------------------------------------------------------
(* What the invariant gives.                                               *)

\* However directories and files are made, linked, renamed and removed, and
\* whatever is mounted over them, the two sides of the tree of TmpFs agree, the
\* current directory exists and no descriptor outlives its file, for trees, paths,
\* descriptor tables and sessions of any size.
THEOREM VfsTreeConsistent == Spec => []TreeIsConsistent
<1>1. IInv => TreeIsConsistent
  <2> SUFFICES ASSUME IInv PROVE TreeIsConsistent
    OBVIOUS
  <2>1. VfsOK(vfs) /\ TreeOK(vfs.nodes) /\ FilesOK(vfs.nodes, vfs.open_files)
    BY Zenon DEF IInv, VfsOK
  <2>2. DescriptorsHaveFiles
    BY <2>1, Zenon DEF FilesOK, DescriptorsHaveFiles
  <2>3. \A i \in DOMAIN vfs.nodes : vfs.nodes[i] # None =>
          /\ \A c \in vfs.nodes[i].children : Live(vfs.nodes, c) /\ vfs.nodes[c].parent = i
          /\ vfs.nodes[i].kind = "Directory" =>
               \A c, d \in vfs.nodes[i].children : vfs.nodes[c].name = vfs.nodes[d].name => c = d
    BY <2>1, Zenon DEF TreeOK, ChildrenOK, NamesOK, Live, IsKind
  <2>4. NoOrphans(vfs.nodes) => Parented(vfs.nodes)
    BY Zenon DEF NoOrphans, Parented, Live
  <2>5. NoOrphans(vfs.nodes) => Listed(vfs.nodes)
    BY <2>1, <2>4, Zenon DEF TreeOK
  <2>6. NoOrphans(vfs.nodes) =>
          \A i \in DOMAIN vfs.nodes : (i # ROOT /\ vfs.nodes[i] # None) =>
            i \in vfs.nodes[vfs.nodes[i].parent].children
    BY <2>5, Zenon DEF Listed, Live
  <2>7. IsKind(vfs.nodes, vfs.cwd, "Directory")
    BY <2>1, Zenon DEF VfsOK
  <2> QED BY <2>2, <2>3, <2>6, <2>7, Zenon DEF TreeIsConsistent
<1> QED BY <1>1, VfsInvariant, PTL

\* A copy that cp reports as made reads back as its source did, across the tree
\* and the volumes, and a write through an appending descriptor keeps what was in
\* the file, whatever other descriptors did to it.
THEOREM VfsWritesExact == Spec => []WritesAreExact
<1>1. IInv => WritesAreExact
  BY DEF IInv
<1> QED BY <1>1, VfsInvariant, PTL

\* Every operation that changes the tree of a mounted FAT32 volume that fits its
\* partition leaves the partition holding that tree.
THEOREM VfsVolumesSaved == Spec => []VolumesAreSaved
<1>1. IInv => VolumesAreSaved
  BY Zenon DEF IInv, StorageOK, VolumeOK, VolumesAreSaved
<1> QED BY <1>1, VfsInvariant, PTL
==============================================================================
