-------------------------------- MODULE Tmpfs --------------------------------
(***************************************************************************)
(* The tree of in-memory nodes of seed/saios/src/vfs.rs (TmpFs), as         *)
(* operators on a sequence of nodes: node i has inode number i, and a      *)
(* removed node leaves None in its place.  Children are a set: the code    *)
(* looks them up by name and sorts them before it lists them.              *)
(*                                                                         *)
(* A path is [abs |-> whether it starts at the root, parts |-> its names], *)
(* "." and ".." included.  An operator that fails answers None.            *)
(***************************************************************************)
EXTENDS Integers, FiniteSets, FiniteSetsExt, Sequences

CONSTANT None

ROOT == 1

\* Names: any string, those the system gives among them.
Text == STRING \cup {"/", "tmpfs", "TmpFs"}

NodeType == [name : Text, kind : {"File", "Directory"}, parent : Nat \cup {None},
             children : SUBSET Nat, data : Seq(Nat)]

PathType == [abs : BOOLEAN, parts : Seq(Text)]
Path(parts) == [abs |-> TRUE, parts |-> parts]

\* A nonempty path split at its last "/".
file_name(parts) == parts[Len(parts)]
parent_path(parts) == SubSeq(parts, 1, Len(parts) - 1)

starts_with(path, prefix) ==
  Len(prefix) <= Len(path) /\ SubSeq(path, 1, Len(prefix)) = prefix

\* The first of the indices, 0 when there is none.
position(indices) == IF indices # {} THEN Min(indices) ELSE 0

ASSUME TmpfsAssumption == None \notin Nat /\ None \notin NodeType /\ None \notin PathType

NewNode(name, kind, parent) ==
  [name |-> name, kind |-> kind, parent |-> parent, children |-> {}, data |-> <<>>]

Live(nodes, inode) == inode \in DOMAIN nodes /\ nodes[inode] # None

IsKind(nodes, inode, kind) == Live(nodes, inode) /\ nodes[inode].kind = kind

-----------------------------------------------------------------------------
(* Paths.                                                                  *)

lookup_child_by_name(nodes, dir, name) ==
  LET found == IF IsKind(nodes, dir, "Directory")
               THEN {c \in nodes[dir].children : Live(nodes, c) /\ nodes[c].name = name}
               ELSE {}
  IN  IF found = {} THEN None ELSE CHOOSE c \in found : TRUE

ResolvePart(nodes, inode, part) ==
  IF inode = None THEN None
  ELSE CASE part = "."  -> inode
         [] part = ".." -> IF ~Live(nodes, inode) THEN None
                           ELSE IF nodes[inode].parent = None THEN inode
                           ELSE nodes[inode].parent
         [] OTHER       -> lookup_child_by_name(nodes, inode, part)

resolve(nodes, cwd, path) ==
  LET at[k \in 0 .. Len(path.parts)] ==
        IF k = 0 THEN (IF path.abs THEN ROOT ELSE cwd)
        ELSE ResolvePart(nodes, at[k - 1], path.parts[k])
  IN  at[Len(path.parts)]

\* The directory a new name goes to, or None.
resolve_parent(nodes, cwd, path) ==
  IF path.parts = <<>> \/ file_name(path.parts) \in {".", ".."} THEN None
  ELSE resolve(nodes, cwd, [path EXCEPT !.parts = parent_path(@)])

\* One step from a node to its parent, the name going in front.
Climb(nodes, r) ==
  IF r.inode = ROOT \/ ~Live(nodes, r.inode) THEN r
  ELSE [inode |-> nodes[r.inode].parent, names |-> <<nodes[r.inode].name>> \o r.names]

\* The names from the root down to inode, following parents until the root
\* or a missing node; None when that never ends.
path_for_inode(nodes, inode) ==
  LET up[k \in 0 .. Len(nodes) + 1] ==
        IF k = 0 THEN [inode |-> inode, names |-> <<>>] ELSE Climb(nodes, up[k - 1])
      Ended(names) == IF Len(names) > Len(nodes) THEN None ELSE names
  IN  Ended(up[Len(nodes) + 1].names)

NormalizePart(dir, part) ==
  CASE part = "."  -> dir
    [] part = ".." -> IF dir = <<>> THEN <<>> ELSE parent_path(dir)
    [] OTHER       -> Append(dir, part)

\* "." and ".." resolved by name, without looking at the tree.
Normalize(parts) ==
  LET out[k \in 0 .. Len(parts)] ==
        IF k = 0 THEN <<>> ELSE NormalizePart(out[k - 1], parts[k])
  IN  out[Len(parts)]

normalized_path(nodes, cwd, path) ==
  Normalize((IF path.abs THEN <<>> ELSE path_for_inode(nodes, cwd)) \o path.parts)

-----------------------------------------------------------------------------
(* Nodes.                                                                  *)

insert_node(nodes, parent, name, kind) ==
  IF \/ ~IsKind(nodes, parent, "Directory")
     \/ lookup_child_by_name(nodes, parent, name) # None
  THEN None
  ELSE Append([nodes EXCEPT ![parent].children = @ \cup {Len(nodes) + 1}],
              NewNode(name, kind, parent))

\* create and mkdir.
create(nodes, cwd, path, kind) ==
  LET In(parent) == IF parent = None THEN None
                    ELSE insert_node(nodes, parent, file_name(path.parts), kind)
  IN  In(resolve_parent(nodes, cwd, path))

\* The parent no longer lists inode.
DropEntry(nodes, inode) == [nodes EXCEPT ![nodes[inode].parent].children = @ \ {inode}]

\* remove_inode, without the reset of cwd.
remove_inode(nodes, inode) ==
  IF \/ inode = ROOT \/ ~Live(nodes, inode)
     \/ nodes[inode].kind = "Directory" /\ nodes[inode].children # {}
     \/ ~Live(nodes, nodes[inode].parent)
  THEN None
  ELSE [DropEntry(nodes, inode) EXCEPT ![inode] = None]

\* The three updates of rename_path.
Relink(nodes, inode, parent, name) ==
  LET listed == [DropEntry(nodes, inode) EXCEPT ![parent].children = @ \cup {inode}]
  IN  [listed EXCEPT ![inode] = [@ EXCEPT !.name = name, !.parent = parent]]

\* rename_path drops the old entry before it looks for the new parent, so it
\* answers with a tree even when it fails.
RenameInode(nodes, inode, parent, name) ==
  IF \/ inode \in {None, ROOT} \/ parent = None
     \/ lookup_child_by_name(nodes, parent, name) # None
     \/ ~Live(nodes, inode) \/ ~Live(nodes, nodes[inode].parent)
  THEN [nodes |-> nodes, ok |-> FALSE]
  ELSE IF ~Live(nodes, parent)
  THEN [nodes |-> DropEntry(nodes, inode), ok |-> FALSE]
  ELSE [nodes |-> Relink(nodes, inode, parent, name), ok |-> TRUE]

rename_path(nodes, cwd, from, to) ==
  RenameInode(nodes, resolve(nodes, cwd, from), resolve_parent(nodes, cwd, to), file_name(to.parts))

-----------------------------------------------------------------------------
(* File contents.                                                          *)

inode_len(nodes, inode) == Len(nodes[inode].data)

read_inode_range(nodes, inode, offset, max_len) ==
  LET len == inode_len(nodes, inode)
  IN  SubSeq(nodes[inode].data, offset + 1,
             IF offset + max_len > len THEN len ELSE offset + max_len)

\* Bytes between the old end and the offset become 0.
write_inode_at(nodes, inode, offset, data) ==
  LET old == nodes[inode].data
      end == offset + Len(data)
  IN  [nodes EXCEPT ![inode].data =
         [k \in 1 .. (IF end > Len(old) THEN end ELSE Len(old)) |->
            IF k \in offset + 1 .. end THEN data[k - offset]
            ELSE IF k <= Len(old) THEN old[k] ELSE 0]]

truncate_inode(nodes, inode) == [nodes EXCEPT ![inode].data = <<>>]
==============================================================================
