---------------------------- MODULE StorageProofs ----------------------------
(***************************************************************************)
(* Proofs about the operators of modules Tmpfs and Storage: inserting,     *)
(* removing and renaming nodes and writing their bytes keep the tree       *)
(* consistent, for any tree; what resolving a path leads to; and mounting, *)
(* changing and saving the trees of volumes.                               *)
(***************************************************************************)
EXTENDS Storage, SequenceTheorems, WellFoundedInduction, TLAPS

\* More time than the default for each leaf.
USE SMTT(20), ZenonT(20)

-----------------------------------------------------------------------------
(* Nodes.                                                                  *)

NodeSeq == Seq(NodeType \cup {None})

\* A node that exists has every field.
LEMMA LiveNode ==
  ASSUME NEW nodes \in NodeSeq, NEW i, Live(nodes, i)
  PROVE  i \in Nat /\ i \in 1 .. Len(nodes) /\ nodes[i] \in NodeType
<1>1. DOMAIN nodes = 1 .. Len(nodes) /\ Len(nodes) \in Nat
  BY LenProperties DEF NodeSeq
<1>2. i \in 1 .. Len(nodes) /\ nodes[i] # None
  BY <1>1 DEF Live
<1>3. nodes[i] \in NodeType \cup {None}
  BY <1>2, ElementOfSeq DEF NodeSeq
<1> QED BY <1>1, <1>2, <1>3

\* n2 has the nodes of n1 with their names, kinds and parents.
SameNodes(n1, n2) ==
  /\ n2 \in NodeSeq
  /\ DOMAIN n2 = DOMAIN n1
  /\ \A j : Live(n2, j) <=> Live(n1, j)
  /\ \A j : Live(n1, j) => /\ n2[j].name = n1[j].name
                           /\ n2[j].kind = n1[j].kind
                           /\ n2[j].parent = n1[j].parent

\* n2 is n1 with node at p.
NodeReplaced(n1, n2, p, node) ==
  /\ n2 \in NodeSeq /\ DOMAIN n2 = DOMAIN n1
  /\ n2[p] = node
  /\ \A j : j # p /\ j \in DOMAIN n1 => n2[j] = n1[j]
  /\ \A j : Live(n2, j) <=> Live(n1, j)

\* Replacing one node by another.
LEMMA ReplaceNode ==
  ASSUME NEW nodes \in NodeSeq, NEW p, Live(nodes, p), NEW node \in NodeType
  PROVE  NodeReplaced(nodes, [nodes EXCEPT ![p] = node], p, node)
<1> DEFINE n2 == [nodes EXCEPT ![p] = node]
<1>1. p \in 1 .. Len(nodes) /\ DOMAIN nodes = 1 .. Len(nodes)
  BY LiveNode, LenProperties DEF NodeSeq
<1>2. n2 \in NodeSeq
  BY <1>1, ExceptSeq DEF NodeSeq
<1>3. DOMAIN n2 = DOMAIN nodes /\ n2[p] = node
      /\ \A j : j # p /\ j \in DOMAIN nodes => n2[j] = nodes[j]
  BY <1>1
<1> HIDE DEF n2
<1>4. node # None
  BY TmpfsAssumption
<1>5. \A j : Live(n2, j) <=> Live(nodes, j)
  BY <1>3, <1>4 DEF Live
<1>6. NodeReplaced(nodes, n2, p, node)
  BY <1>2, <1>3, <1>5, Zenon DEF NodeReplaced
<1> QED BY <1>6 DEF n2

WithChildren(nodes, p, C) == [nodes EXCEPT ![p].children = C]

WithData(nodes, p, data) == [nodes EXCEPT ![p].data = data]

\* n2 is n1 with the children C at p.
ChildrenSet(n1, n2, p, C) ==
  /\ SameNodes(n1, n2)
  /\ n2[p].children = C
  /\ \A j : j # p /\ Live(n1, j) => n2[j].children = n1[j].children

\* n2 is n1 with the bytes data at p.
DataSet(n1, n2, p, data) ==
  /\ SameNodes(n1, n2)
  /\ n2[p].data = data
  /\ \A j : Live(n1, j) => n2[j].children = n1[j].children
  /\ \A j : j # p /\ Live(n1, j) => n2[j] = n1[j]

\* Replacing the children of one node.
LEMMA SetChildren ==
  ASSUME NEW nodes \in NodeSeq, NEW p, Live(nodes, p), NEW C \in SUBSET Nat
  PROVE  ChildrenSet(nodes, WithChildren(nodes, p, C), p, C)
<1> DEFINE n2 == WithChildren(nodes, p, C)
           old == nodes[p]
           node == [old EXCEPT !.children = C]
<1>1. old \in NodeType /\ p \in DOMAIN nodes
  BY LiveNode DEF Live
<1>2. n2 = [nodes EXCEPT ![p] = node]
  BY DEF WithChildren
<1> HIDE DEF old, n2
<1>3. node = [name |-> old.name, kind |-> old.kind, parent |-> old.parent, children |-> C,
              data |-> old.data]
  BY <1>1 DEF NodeType
<1>4. /\ node \in NodeType /\ node.children = C /\ node.name = old.name
      /\ node.kind = old.kind /\ node.parent = old.parent
  BY <1>1, <1>3 DEF NodeType
<1> HIDE DEF node
<1>5. NodeReplaced(nodes, n2, p, node)
  <2>1. node \in NodeType
    BY <1>4
  <2>2. NodeReplaced(nodes, [nodes EXCEPT ![p] = node], p, node)
    BY <2>1, ReplaceNode, Zenon
  <2> QED BY <2>2, <1>2, Zenon
<1>6. \A j : Live(nodes, j) => /\ n2[j].name = nodes[j].name
                               /\ n2[j].kind = nodes[j].kind
                               /\ n2[j].parent = nodes[j].parent
  BY <1>4, <1>5 DEF Live, NodeReplaced, old
<1>7. \A j : j # p /\ Live(nodes, j) => n2[j].children = nodes[j].children
  BY <1>5 DEF Live, NodeReplaced
<1>8. ChildrenSet(nodes, n2, p, C)
  BY <1>4, <1>5, <1>6, <1>7, Zenon DEF SameNodes, NodeReplaced, ChildrenSet
<1> QED BY <1>8 DEF n2

\* Replacing the bytes of one node.
LEMMA SetData ==
  ASSUME NEW nodes \in NodeSeq, NEW p, Live(nodes, p), NEW data \in Seq(Nat)
  PROVE  DataSet(nodes, WithData(nodes, p, data), p, data)
<1> DEFINE n2 == WithData(nodes, p, data)
           old == nodes[p]
           node == [old EXCEPT !.data = data]
<1>1. old \in NodeType /\ p \in DOMAIN nodes
  BY LiveNode DEF Live
<1>2. n2 = [nodes EXCEPT ![p] = node]
  BY DEF WithData
<1> HIDE DEF old, n2
<1>3. node = [name |-> old.name, kind |-> old.kind, parent |-> old.parent,
              children |-> old.children, data |-> data]
  BY <1>1, SMTT(60) DEF NodeType
<1>4. /\ node \in NodeType /\ node.data = data /\ node.name = old.name
      /\ node.kind = old.kind /\ node.parent = old.parent /\ node.children = old.children
  BY <1>1, <1>3 DEF NodeType
<1> HIDE DEF node
<1>5. NodeReplaced(nodes, n2, p, node)
  <2>1. node \in NodeType
    BY <1>4
  <2>2. NodeReplaced(nodes, [nodes EXCEPT ![p] = node], p, node)
    BY <2>1, ReplaceNode, Zenon
  <2> QED BY <2>2, <1>2, Zenon
<1>6. \A j : Live(nodes, j) => /\ n2[j].name = nodes[j].name
                               /\ n2[j].kind = nodes[j].kind
                               /\ n2[j].parent = nodes[j].parent
                               /\ n2[j].children = nodes[j].children
  BY <1>4, <1>5 DEF Live, NodeReplaced, old
<1>7. \A j : j # p /\ Live(nodes, j) => n2[j] = nodes[j]
  BY <1>5 DEF Live, NodeReplaced
<1>8. DataSet(nodes, n2, p, data)
  BY <1>4, <1>5, <1>6, <1>7, Zenon DEF SameNodes, NodeReplaced, DataSet
<1> QED BY <1>8 DEF n2

-----------------------------------------------------------------------------
(* The tree.                                                               *)

ChildrenOK(nodes) ==
  \A i, c : (Live(nodes, i) /\ c \in nodes[i].children) =>
    Live(nodes, c) /\ nodes[c].parent = i

NamesOK(nodes) ==
  \A i, c, d :
    (/\ Live(nodes, i) /\ nodes[i].kind = "Directory"
     /\ c \in nodes[i].children /\ d \in nodes[i].children
     /\ nodes[c].name = nodes[d].name) => c = d

\* Numbers are not used again, so a parent was a node once.
ParentsKnown(nodes) ==
  \A i : (Live(nodes, i) /\ i # ROOT) => nodes[i].parent \in DOMAIN nodes

Parented(nodes) ==
  \A i : (Live(nodes, i) /\ i # ROOT) => Live(nodes, nodes[i].parent)

Listed(nodes) ==
  \A i : (Live(nodes, i) /\ i # ROOT) => i \in nodes[nodes[i].parent].children

TreeOK(nodes) ==
  /\ nodes \in NodeSeq
  /\ IsKind(nodes, ROOT, "Directory")
  /\ nodes[ROOT].parent = None
  /\ ChildrenOK(nodes)
  /\ NamesOK(nodes)
  /\ ParentsKnown(nodes)
  /\ Parented(nodes) => Listed(nodes)

\* n2 still has the nodes of n1, each a file or a directory as before.
Survives(n1, n2) ==
  \A i : Live(n1, i) => Live(n2, i) /\ n2[i].kind = n1[i].kind

\* Nodes that keep all but their bytes.
LEMMA SameTree ==
  ASSUME NEW nodes, TreeOK(nodes), NEW n2, SameNodes(nodes, n2),
         \A j : Live(nodes, j) => n2[j].children = nodes[j].children
  PROVE  TreeOK(n2) /\ Survives(nodes, n2)
<1>1. n2 \in NodeSeq /\ Survives(nodes, n2)
  BY Zenon DEF SameNodes, Survives
<1>2. IsKind(n2, ROOT, "Directory") /\ n2[ROOT].parent = None
  BY Zenon DEF TreeOK, IsKind, SameNodes
<1>3. ChildrenOK(n2)
  BY Zenon DEF TreeOK, ChildrenOK, SameNodes
<1>4. NamesOK(n2)
  BY Zenon DEF TreeOK, ChildrenOK, NamesOK, SameNodes
<1>6. ParentsKnown(n2)
  BY Zenon DEF TreeOK, ParentsKnown, SameNodes
<1>5. ASSUME Parented(n2) PROVE Listed(n2)
  <2>1. Parented(nodes)
    BY <1>5, Zenon DEF Parented, SameNodes
  <2>2. Listed(nodes)
    BY <2>1, Zenon DEF TreeOK
  <2> QED BY <2>1, <2>2, Zenon DEF Listed, Parented, SameNodes
<1> QED BY <1>1, <1>2, <1>3, <1>4, <1>5, <1>6, Zenon DEF TreeOK

\* A name that lookup_child_by_name does not find.
LEMMA NotFound ==
  ASSUME NEW nodes \in NodeSeq, NEW dir, NEW name, IsKind(nodes, dir, "Directory"),
         lookup_child_by_name(nodes, dir, name) = None
  PROVE  \A c \in nodes[dir].children : Live(nodes, c) => nodes[c].name # name
<1> DEFINE found == {c \in nodes[dir].children : Live(nodes, c) /\ nodes[c].name = name}
<1>1. lookup_child_by_name(nodes, dir, name) = IF found = {} THEN None ELSE CHOOSE c \in found : TRUE
  BY Zenon DEF lookup_child_by_name
<1>2. found \subseteq Nat
  BY LiveNode, Zenon
<1>3. found = {}
  <2>1. ASSUME found # {} PROVE FALSE
    <3>1. (CHOOSE c \in found : TRUE) \in found
      BY <2>1
    <3> QED BY <3>1, <2>1, <1>1, <1>2, TmpfsAssumption
  <2> QED BY <2>1
<1> QED BY <1>3

\* A name that is found is a child.
LEMMA FoundIsLive ==
  ASSUME NEW nodes, NEW dir, NEW name, lookup_child_by_name(nodes, dir, name) # None
  PROVE  Live(nodes, lookup_child_by_name(nodes, dir, name))
<1> DEFINE found == IF IsKind(nodes, dir, "Directory")
                    THEN {c \in nodes[dir].children : Live(nodes, c) /\ nodes[c].name = name}
                    ELSE {}
<1>1. lookup_child_by_name(nodes, dir, name) = IF found = {} THEN None ELSE CHOOSE c \in found : TRUE
  BY Zenon DEF lookup_child_by_name
<1>2. \A c \in found : Live(nodes, c)
  OBVIOUS
<1> HIDE DEF found
<1>3. found # {}
  BY <1>1
<1> QED BY <1>1, <1>2, <1>3, Zenon

\* insert_node adds a child of a name the directory does not have.
LEMMA InsertTree ==
  ASSUME NEW nodes, TreeOK(nodes), NEW parent, NEW name \in Text,
         NEW kind \in {"File", "Directory"}, insert_node(nodes, parent, name, kind) # None
  PROVE  LET n2 == insert_node(nodes, parent, name, kind)
         IN  TreeOK(n2) /\ Survives(nodes, n2)
<1> DEFINE n2 == insert_node(nodes, parent, name, kind)
           new == Len(nodes) + 1
           node == NewNode(name, kind, parent)
           n1 == [nodes EXCEPT ![parent].children = nodes[parent].children \cup {new}]
<1>1. IsKind(nodes, parent, "Directory") /\ lookup_child_by_name(nodes, parent, name) = None
  BY DEF insert_node
<1>2. n2 = Append(n1, node)
  BY <1>1 DEF insert_node
<1>3. /\ nodes \in NodeSeq /\ Live(nodes, parent) /\ new \in Nat /\ new # ROOT
      /\ DOMAIN nodes = 1 .. Len(nodes) /\ Len(nodes) \in Nat
  <2>1. nodes \in NodeSeq /\ Live(nodes, parent) /\ Live(nodes, ROOT)
    BY <1>1 DEF TreeOK, IsKind
  <2>2. DOMAIN nodes = 1 .. Len(nodes) /\ Len(nodes) \in Nat /\ ROOT \in 1 .. Len(nodes)
    BY <2>1, LiveNode, LenProperties DEF NodeSeq
  <2> QED BY <2>1, <2>2 DEF ROOT
<1>4. nodes[parent].children \cup {new} \in SUBSET Nat
  BY <1>3, LiveNode DEF NodeType
<1>5. /\ SameNodes(nodes, n1)
      /\ n1[parent].children = nodes[parent].children \cup {new}
      /\ \A j : j # parent /\ Live(nodes, j) => n1[j].children = nodes[j].children
  <2> DEFINE C == nodes[parent].children \cup {new}
  <2>1. n1 = WithChildren(nodes, parent, C) /\ C \in SUBSET Nat
    BY <1>4 DEF WithChildren
  <2> HIDE DEF C, new, n1
  <2>2. ChildrenSet(nodes, n1, parent, C)
    BY <2>1, <1>3, SetChildren
  <2> QED BY <2>2, Zenon DEF C, ChildrenSet
<1>6. node \in NodeType /\ node # None
  <2>1. parent \in Nat
    BY <1>3, LiveNode
  <2>2. node \in NodeType
    BY <2>1 DEF NewNode, NodeType
  <2> QED BY <2>2, TmpfsAssumption
<1>7. /\ node.children = {} /\ node.parent = parent /\ node.name = name
  BY DEF NewNode
<1> HIDE DEF n1, n2, node
<1>8. n1 \in NodeSeq /\ DOMAIN n1 = DOMAIN nodes /\ Len(n1) = Len(nodes)
  BY <1>3, <1>5, LenProperties DEF SameNodes, NodeSeq
<1>9. /\ n2 \in NodeSeq /\ DOMAIN n2 = 1 .. new /\ n2[new] = node
      /\ \A j \in 1 .. Len(nodes) : n2[j] = n1[j]
  <2>1. /\ n2 \in NodeSeq /\ Len(n2) = Len(n1) + 1 /\ n2[Len(n1) + 1] = node
        /\ \A j \in 1 .. Len(n1) : n2[j] = n1[j]
    BY <1>2, <1>6, <1>8, AppendProperties DEF NodeSeq
  <2> QED BY <2>1, <1>3, <1>8, LenProperties DEF NodeSeq
<1>10. /\ \A j : Live(n2, j) <=> (Live(nodes, j) \/ j = new)
       /\ ~Live(nodes, new)
       /\ \A j : Live(nodes, j) => n2[j] = n1[j]
  <2>1. \A j : Live(n1, j) <=> Live(nodes, j)
    BY <1>5 DEF SameNodes
  <2>2. \A j : Live(nodes, j) => j \in 1 .. Len(nodes)
    BY <1>3 DEF Live
  <2>3. \A j : Live(nodes, j) => n2[j] = n1[j]
    BY <2>2, <1>9
  <2>4. ~Live(nodes, new) /\ Live(n2, new)
    BY <2>2, <1>3, <1>6, <1>9 DEF Live
  <2>5. \A j : (Live(n2, j) /\ j # new) => Live(nodes, j)
    BY <2>1, <1>3, <1>8, <1>9 DEF Live
  <2>6. \A j : Live(nodes, j) => Live(n2, j)
    BY <2>1, <2>2, <2>3, <1>3, <1>9 DEF Live
  <2> QED BY <2>3, <2>4, <2>5, <2>6, Zenon
<1> HIDE DEF new
<1>11. /\ \A j : Live(nodes, j) => /\ n2[j].name = nodes[j].name
                                   /\ n2[j].kind = nodes[j].kind
                                   /\ n2[j].parent = nodes[j].parent
       /\ \A j : j # parent /\ Live(nodes, j) => n2[j].children = nodes[j].children
       /\ n2[parent].children = nodes[parent].children \cup {new}
       /\ n2[new].children = {} /\ n2[new].parent = parent /\ n2[new].name = name
  BY <1>3, <1>5, <1>7, <1>9, <1>10, Zenon DEF SameNodes
<1>12. \A c \in nodes[parent].children : Live(nodes, c) /\ nodes[c].name # name
  BY <1>1, <1>3, NotFound DEF TreeOK, ChildrenOK
<1>13. IsKind(n2, ROOT, "Directory") /\ n2[ROOT].parent = None
  BY <1>10, <1>11, Zenon DEF TreeOK, IsKind
<1>14. ChildrenOK(n2)
  <2> SUFFICES ASSUME NEW i, NEW c, Live(n2, i), c \in n2[i].children
               PROVE  Live(n2, c) /\ n2[c].parent = i
    BY Zenon DEF ChildrenOK
  <2>1. CASE i = new
    BY <2>1, <1>11
  <2>2. CASE i # new /\ c = new
    <3>1. Live(nodes, i) /\ ~Live(nodes, c)
      BY <2>2, <1>10
    <3>2. i = parent
      BY <3>1, <1>11 DEF TreeOK, ChildrenOK
    <3> QED BY <3>2, <2>2, <1>10, <1>11
  <2>3. CASE i # new /\ c # new
    <3>1. Live(nodes, i)
      BY <2>3, <1>10
    <3>2. c \in nodes[i].children
      BY <3>1, <2>3, <1>11
    <3> QED BY <3>1, <3>2, <1>10, <1>11 DEF TreeOK, ChildrenOK
  <2> QED BY <2>1, <2>2, <2>3
<1>15. NamesOK(n2)
  <2> SUFFICES ASSUME NEW i, NEW c, NEW d, Live(n2, i), n2[i].kind = "Directory",
                      c \in n2[i].children, d \in n2[i].children, n2[c].name = n2[d].name
               PROVE  c = d
    BY Zenon DEF NamesOK
  <2>1. CASE i = new
    BY <2>1, <1>11
  <2>2. CASE i # new /\ i # parent
    <3>1. Live(nodes, i) /\ nodes[i].kind = "Directory"
      BY <2>2, <1>10, <1>11
    <3>2. c \in nodes[i].children /\ d \in nodes[i].children
      BY <3>1, <2>2, <1>11
    <3>3. nodes[c].name = nodes[d].name
      BY <3>1, <3>2, <1>11 DEF TreeOK, ChildrenOK
    <3> QED BY <3>1, <3>2, <3>3 DEF TreeOK, NamesOK
  <2>3. CASE i = parent
    <3>1. Live(nodes, parent) /\ nodes[parent].kind = "Directory"
      BY <1>1 DEF IsKind
    <3>2. c \in nodes[parent].children \cup {new} /\ d \in nodes[parent].children \cup {new}
      BY <2>3, <1>11
    <3>3. \A e \in nodes[parent].children : n2[e].name = nodes[e].name /\ n2[e].name # name
      BY <1>11, <1>12
    <3> QED BY <3>1, <3>2, <3>3, <1>11 DEF TreeOK, NamesOK
  <2> QED BY <2>1, <2>2, <2>3
<1>16. ASSUME Parented(n2) PROVE Listed(n2)
  <2>1. Parented(nodes)
    <3> SUFFICES ASSUME NEW i, Live(nodes, i), i # ROOT PROVE Live(nodes, nodes[i].parent)
      BY Zenon DEF Parented
    <3>1. Live(n2, nodes[i].parent)
      BY <1>16, <1>10, <1>11 DEF Parented
    <3>2. nodes[i].parent # new
      BY <1>3 DEF TreeOK, ParentsKnown, new
    <3> QED BY <3>1, <3>2, <1>10
  <2>2. Listed(nodes)
    BY <2>1 DEF TreeOK
  <2> SUFFICES ASSUME NEW i, Live(n2, i), i # ROOT PROVE i \in n2[n2[i].parent].children
    BY Zenon DEF Listed
  <2>3. CASE i = new
    BY <2>3, <1>11
  <2>4. CASE i # new
    <3>1. Live(nodes, i) /\ i \in nodes[nodes[i].parent].children
      BY <2>4, <2>2, <1>10 DEF Listed
    <3>2. Live(nodes, nodes[i].parent)
      BY <3>1, <2>1 DEF Parented
    <3>3. nodes[nodes[i].parent].children \subseteq n2[nodes[i].parent].children
      BY <3>2, <1>11
    <3> QED BY <3>1, <3>3, <1>11
  <2> QED BY <2>3, <2>4
<1>17. ParentsKnown(n2)
  <2> SUFFICES ASSUME NEW i, Live(n2, i), i # ROOT PROVE n2[i].parent \in 1 .. new
    BY <1>9 DEF ParentsKnown
  <2>1. CASE i = new
    BY <2>1, <1>3, <1>11 DEF Live, new
  <2>2. CASE i # new
    BY <2>2, <1>3, <1>10, <1>11 DEF TreeOK, ParentsKnown, new
  <2> QED BY <2>1, <2>2
<1> QED BY <1>9, <1>10, <1>11, <1>13, <1>14, <1>15, <1>16, <1>17, Zenon DEF TreeOK, Survives, n2

\* n2 is n1 with inode among nobody's children.
Dropped(n1, n2, inode) ==
  /\ SameNodes(n1, n2)
  /\ \A i : Live(n1, i) => n2[i].children = n1[i].children \ {inode}

\* A node dropped from its parent's children.
LEMMA Unlisted ==
  ASSUME NEW nodes, TreeOK(nodes), NEW inode, Live(nodes, inode),
         Live(nodes, nodes[inode].parent)
  PROVE  Dropped(nodes, DropEntry(nodes, inode), inode)
<1> DEFINE old == nodes[inode].parent
           C == nodes[old].children \ {inode}
           n1 == DropEntry(nodes, inode)
<1>1. n1 = WithChildren(nodes, old, C)
  BY DEF WithChildren, DropEntry
<1>2. nodes \in NodeSeq /\ C \in SUBSET Nat
  BY LiveNode DEF TreeOK, NodeType
<1> HIDE DEF C, n1
<1>3. ChildrenSet(nodes, n1, old, C)
  BY <1>1, <1>2, SetChildren
<1>4. ASSUME NEW i, Live(nodes, i) PROVE n1[i].children = nodes[i].children \ {inode}
  <2>1. CASE i = old
    BY <2>1, <1>3 DEF ChildrenSet, C
  <2>2. CASE i # old
    <3>1. n1[i].children = nodes[i].children
      BY <2>2, <1>3, <1>4 DEF ChildrenSet
    <3>2. inode \notin nodes[i].children
      BY <2>2, <1>4 DEF TreeOK, ChildrenOK
    <3> QED BY <3>1, <3>2
  <2> QED BY <2>1, <2>2
<1> QED BY <1>3, <1>4, Zenon DEF n1, ChildrenSet, Dropped

\* remove_inode takes a node out of the tree; what was below it keeps its
\* parent, which is gone.
LEMMA RemoveTree ==
  ASSUME NEW nodes, TreeOK(nodes), NEW inode, remove_inode(nodes, inode) # None
  PROVE  LET n2 == remove_inode(nodes, inode)
         IN  /\ TreeOK(n2)
             /\ \A i : (Live(nodes, i) /\ i # inode) => Live(n2, i) /\ n2[i].kind = nodes[i].kind
             /\ inode # ROOT /\ Live(nodes, inode)
<1> DEFINE old == nodes[inode].parent
           n1 == DropEntry(nodes, inode)
           n2 == remove_inode(nodes, inode)
<1>1. inode # ROOT /\ Live(nodes, inode) /\ Live(nodes, old)
  BY DEF remove_inode
<1>2. n2 = [n1 EXCEPT ![inode] = None]
  BY DEF remove_inode
<1>3. /\ SameNodes(nodes, n1)
      /\ \A i : Live(nodes, i) => n1[i].children = nodes[i].children \ {inode}
  BY <1>1, Unlisted, Zenon DEF Dropped
<1> HIDE DEF n1, n2
<1>4. inode \in 1 .. Len(n1) /\ DOMAIN n1 = 1 .. Len(n1) /\ n1 \in NodeSeq /\ DOMAIN n1 = DOMAIN nodes
  <2>1. n1 \in NodeSeq /\ Live(n1, inode) /\ DOMAIN n1 = DOMAIN nodes
    BY <1>1, <1>3 DEF SameNodes
  <2> QED BY <2>1, LiveNode, LenProperties DEF NodeSeq
<1>5. n2 \in NodeSeq
  BY <1>2, <1>4, ExceptSeq DEF NodeSeq
<1>6. /\ DOMAIN n2 = DOMAIN n1 /\ n2[inode] = None
      /\ \A j : (j # inode /\ j \in DOMAIN n1) => n2[j] = n1[j]
  BY <1>2, <1>4
<1>7. \A j : Live(n2, j) <=> (Live(nodes, j) /\ j # inode)
  <2>1. \A j : Live(n1, j) <=> Live(nodes, j)
    BY <1>3 DEF SameNodes
  <2> QED BY <2>1, <1>6 DEF Live
<1>8. \A j : Live(n2, j) => /\ n2[j].name = nodes[j].name
                            /\ n2[j].kind = nodes[j].kind
                            /\ n2[j].parent = nodes[j].parent
                            /\ n2[j].children = nodes[j].children \ {inode}
  <2> SUFFICES ASSUME NEW j, Live(n2, j)
               PROVE  /\ n2[j].name = nodes[j].name
                      /\ n2[j].kind = nodes[j].kind
                      /\ n2[j].parent = nodes[j].parent
                      /\ n2[j].children = nodes[j].children \ {inode}
    OBVIOUS
  <2>1. Live(nodes, j) /\ n2[j] = n1[j]
    BY <1>4, <1>6, <1>7 DEF Live
  <2> QED BY <2>1, <1>3 DEF SameNodes
<1>9. IsKind(n2, ROOT, "Directory") /\ n2[ROOT].parent = None
  BY <1>1, <1>7, <1>8, Zenon DEF TreeOK, IsKind
<1>10. ChildrenOK(n2)
  <2> SUFFICES ASSUME NEW i, NEW c, Live(n2, i), c \in n2[i].children
               PROVE  Live(n2, c) /\ n2[c].parent = i
    BY Zenon DEF ChildrenOK
  <2>1. Live(nodes, i) /\ c \in nodes[i].children /\ c # inode
    BY <1>7, <1>8
  <2>2. Live(nodes, c) /\ nodes[c].parent = i
    BY <2>1, Zenon DEF TreeOK, ChildrenOK
  <2> QED BY <2>1, <2>2, <1>7, <1>8
<1>11. NamesOK(n2)
  <2> SUFFICES ASSUME NEW i, NEW c, NEW d, Live(n2, i), n2[i].kind = "Directory",
                      c \in n2[i].children, d \in n2[i].children, n2[c].name = n2[d].name
               PROVE  c = d
    BY Zenon DEF NamesOK
  <2>1. /\ Live(nodes, i) /\ nodes[i].kind = "Directory"
        /\ c \in nodes[i].children /\ d \in nodes[i].children
    BY <1>7, <1>8
  <2>2. Live(n2, c) /\ Live(n2, d)
    BY <1>10, Zenon DEF ChildrenOK
  <2>3. nodes[c].name = nodes[d].name
    BY <2>2, <1>8
  <2> QED BY <2>1, <2>3, Zenon DEF TreeOK, NamesOK
<1>12. ParentsKnown(n2)
  BY <1>4, <1>6, <1>7, <1>8 DEF TreeOK, ParentsKnown
<1>13. ASSUME Parented(n2) PROVE Listed(n2)
  <2>1. Parented(nodes)
    BY <1>13, <1>1, <1>7, <1>8 DEF Parented
  <2>2. Listed(nodes)
    BY <2>1 DEF TreeOK
  <2>3. \A i : (Live(n2, i) /\ i # ROOT) =>
           /\ i \in nodes[nodes[i].parent].children /\ i # inode
           /\ n2[i].parent = nodes[i].parent /\ Live(n2, nodes[i].parent)
    BY <1>13, <2>2, <1>7, <1>8 DEF Parented, Listed
  <2> QED BY <2>3, <1>8 DEF Listed
<1>14. TreeOK(n2)
  BY <1>5, <1>9, <1>10, <1>11, <1>12, <1>13, Zenon DEF TreeOK
<1> QED BY <1>1, <1>7, <1>8, <1>14 DEF n2

\* rename_path moves a node to a directory that exists.
LEMMA RelinkTree ==
  ASSUME NEW nodes, TreeOK(nodes), NEW inode, NEW parent, NEW name \in Text,
         inode # ROOT, Live(nodes, inode), Live(nodes, nodes[inode].parent), Live(nodes, parent),
         lookup_child_by_name(nodes, parent, name) = None
  PROVE  TreeOK(Relink(nodes, inode, parent, name))
         /\ Survives(nodes, Relink(nodes, inode, parent, name))
<1> DEFINE n1 == DropEntry(nodes, inode)
           C == n1[parent].children \cup {inode}
           n2 == WithChildren(n1, parent, C)
           node == [n2[inode] EXCEPT !.name = name, !.parent = parent]
           n3 == [n2 EXCEPT ![inode] = node]
<1>1. Relink(nodes, inode, parent, name) = n3
  BY DEF Relink, WithChildren
<1>2. /\ SameNodes(nodes, n1)
      /\ \A i : Live(nodes, i) => n1[i].children = nodes[i].children \ {inode}
  BY Unlisted, Zenon DEF Dropped
<1> HIDE DEF n1
<1>3. n1 \in NodeSeq /\ Live(n1, parent) /\ inode \in Nat /\ parent \in Nat
  BY <1>2, LiveNode DEF SameNodes, TreeOK
<1>4. C \in SUBSET Nat
  BY <1>3, LiveNode DEF NodeType
<1> HIDE DEF C
<1>5. ChildrenSet(n1, n2, parent, C)
  BY <1>3, <1>4, SetChildren
<1> HIDE DEF n2
<1>6. /\ SameNodes(nodes, n2)
      /\ n2[parent].children = nodes[parent].children \cup {inode}
      /\ \A i : (i # parent /\ Live(nodes, i)) => n2[i].children = nodes[i].children \ {inode}
  <2>1. SameNodes(nodes, n2)
    BY <1>2, <1>5, Zenon DEF SameNodes, ChildrenSet
  <2>2. n2[parent].children = nodes[parent].children \cup {inode}
    BY <1>2, <1>5 DEF ChildrenSet, C
  <2>3. \A i : (i # parent /\ Live(nodes, i)) => n2[i].children = nodes[i].children \ {inode}
    BY <1>2, <1>5 DEF ChildrenSet, SameNodes
  <2> QED BY <2>1, <2>2, <2>3
<1>7. n2 \in NodeSeq /\ Live(n2, inode) /\ n2[inode] \in NodeType
  BY <1>6, LiveNode DEF SameNodes
<1>8. /\ node \in NodeType /\ node.name = name /\ node.parent = parent
      /\ node.kind = n2[inode].kind /\ node.children = n2[inode].children
  <2> DEFINE old == n2[inode]
             named == [old EXCEPT !.name = name]
  <2>1. named = [name |-> name, kind |-> old.kind, parent |-> old.parent,
               children |-> old.children, data |-> old.data]
    BY <1>7 DEF NodeType
  <2>2. node = [named EXCEPT !.parent = parent]
    OBVIOUS
  <2> HIDE DEF named, node
  <2>3. node = [name |-> name, kind |-> old.kind, parent |-> parent,
                children |-> old.children, data |-> old.data]
    BY <2>1, <2>2
  <2> QED BY <2>3, <1>3, <1>7 DEF NodeType
<1> HIDE DEF node
<1>9. NodeReplaced(n2, n3, inode, node)
  <2>2. node \in NodeType
    BY <1>8
  <2> QED BY <2>2, <1>7, ReplaceNode, Zenon
<1> HIDE DEF n3
<1>10. /\ n3 \in NodeSeq /\ DOMAIN n3 = DOMAIN nodes
       /\ \A j : Live(n3, j) <=> Live(nodes, j)
  BY <1>6, <1>9, Zenon DEF NodeReplaced, SameNodes
<1>11. /\ n3[inode].name = name /\ n3[inode].parent = parent
       /\ \A j : Live(nodes, j) => n3[j].kind = nodes[j].kind /\ n3[j].children = n2[j].children
       /\ \A j : (Live(nodes, j) /\ j # inode) =>
            n3[j].name = nodes[j].name /\ n3[j].parent = nodes[j].parent
  <2>1. \A j : (Live(nodes, j) /\ j # inode) => n3[j] = n2[j]
    BY <1>6, <1>9 DEF NodeReplaced, SameNodes, Live
  <2>2. n3[inode] = node
    BY <1>9 DEF NodeReplaced
  <2>3. \A j : Live(nodes, j) => /\ n2[j].kind = nodes[j].kind /\ n2[j].name = nodes[j].name
                                 /\ n2[j].parent = nodes[j].parent
    BY <1>6, Zenon DEF SameNodes
  <2> QED BY <2>1, <2>2, <2>3, <1>8, Zenon
<1>12. IsKind(n3, ROOT, "Directory") /\ n3[ROOT].parent = None
  BY <1>10, <1>11, Zenon DEF TreeOK, IsKind
<1>13. ChildrenOK(n3)
  <2> SUFFICES ASSUME NEW i, NEW c, Live(nodes, i), c \in n3[i].children
               PROVE  Live(nodes, c) /\ n3[c].parent = i
    BY <1>10, Zenon DEF ChildrenOK
  <2>1. CASE c = inode
    <3>1. i = parent
      BY <2>1, <1>6, <1>11
    <3> QED BY <3>1, <2>1, <1>11
  <2>2. CASE c # inode
    <3>1. c \in nodes[i].children
      BY <2>2, <1>6, <1>11
    <3>2. Live(nodes, c) /\ nodes[c].parent = i
      BY <3>1, Zenon DEF TreeOK, ChildrenOK
    <3> QED BY <3>2, <2>2, <1>11
  <2> QED BY <2>1, <2>2
<1>14. NamesOK(n3)
  <2> SUFFICES ASSUME NEW i, NEW c, NEW d, Live(nodes, i), nodes[i].kind = "Directory",
                      c \in n3[i].children, d \in n3[i].children, n3[c].name = n3[d].name
               PROVE  c = d
    BY <1>10, <1>11, Zenon DEF NamesOK
  <2>1. ASSUME NEW e \in n3[i].children, e # inode
        PROVE  /\ e \in nodes[i].children /\ n3[e].name = nodes[e].name
               /\ i = parent => nodes[e].name # name
    <3>1. e \in nodes[i].children
      BY <2>1, <1>6, <1>11
    <3>2. Live(nodes, e) /\ nodes[e].parent = i
      BY <3>1, Zenon DEF TreeOK, ChildrenOK
    <3>3. i = parent => nodes[e].name # name
      BY <3>1, <3>2, NotFound DEF TreeOK, IsKind
    <3> QED BY <3>1, <3>2, <3>3, <2>1, <1>11
  <2>2. inode \in n3[i].children => i = parent
    BY <1>6, <1>11
  <2>3. CASE c # inode /\ d # inode
    BY <2>1, <2>3 DEF TreeOK, NamesOK
  <2>4. CASE c = inode /\ d # inode
    BY <2>1, <2>2, <2>4, <1>11
  <2>5. CASE c # inode /\ d = inode
    BY <2>1, <2>2, <2>5, <1>11
  <2> QED BY <2>3, <2>4, <2>5
<1>15. ParentsKnown(n3)
  <2>1. parent \in DOMAIN nodes
    BY DEF Live
  <2> QED BY <2>1, <1>10, <1>11, Zenon DEF TreeOK, ParentsKnown
<1>16. ASSUME Parented(n3) PROVE Listed(n3)
  <2>1. Parented(nodes)
    BY <1>16, <1>10, <1>11, Zenon DEF Parented
  <2>2. Listed(nodes)
    BY <2>1 DEF TreeOK
  <2> SUFFICES ASSUME NEW i, Live(nodes, i), i # ROOT PROVE i \in n3[n3[i].parent].children
    BY <1>10, Zenon DEF Listed
  <2>3. CASE i = inode
    BY <2>3, <1>6, <1>11
  <2>4. CASE i # inode
    <3>1. /\ n3[i].parent = nodes[i].parent /\ Live(nodes, nodes[i].parent)
          /\ i \in nodes[nodes[i].parent].children
      BY <2>1, <2>2, <2>4, <1>11, Zenon DEF Parented, Listed
    <3> QED BY <3>1, <2>4, <1>6, <1>11
  <2> QED BY <2>3, <2>4
<1>17. TreeOK(n3)
  BY <1>10, <1>12, <1>13, <1>14, <1>15, <1>16, Zenon DEF TreeOK
<1>18. Survives(nodes, n3)
  BY <1>10, <1>11, Zenon DEF Survives
<1> QED BY <1>1, <1>17, <1>18

\* rename_path keeps the tree whether it succeeds or not: when the new parent
\* turns out not to exist, some node has lost its parent already.
LEMMA RenameTree ==
  ASSUME NEW nodes, TreeOK(nodes), NEW inode, NEW parent, NEW name \in Text,
         Parented(nodes) => (parent = None \/ Live(nodes, parent))
  PROVE  LET n2 == RenameInode(nodes, inode, parent, name).nodes
         IN  TreeOK(n2) /\ Survives(nodes, n2)
<1> DEFINE r == RenameInode(nodes, inode, parent, name)
<1>1. CASE \/ inode \in {None, ROOT} \/ parent = None
           \/ lookup_child_by_name(nodes, parent, name) # None
           \/ ~Live(nodes, inode) \/ ~Live(nodes, nodes[inode].parent)
  <2>1. r.nodes = nodes
    BY <1>1 DEF RenameInode
  <2> QED BY <2>1, Zenon DEF Survives
<1>2. CASE /\ ~(inode \in {None, ROOT}) /\ parent # None
           /\ lookup_child_by_name(nodes, parent, name) = None
           /\ Live(nodes, inode) /\ Live(nodes, nodes[inode].parent)
  <2>1. CASE Live(nodes, parent)
    <3>1. r.nodes = Relink(nodes, inode, parent, name)
      BY <1>2, <2>1 DEF RenameInode
    <3> QED BY <3>1, <1>2, <2>1, RelinkTree
  <2>2. CASE ~Live(nodes, parent)
    <3> DEFINE n1 == DropEntry(nodes, inode)
    <3>1. r.nodes = n1
      BY <1>2, <2>2 DEF RenameInode
    <3>2. /\ SameNodes(nodes, n1)
          /\ \A i : Live(nodes, i) => n1[i].children = nodes[i].children \ {inode}
      BY <1>2, Unlisted, Zenon DEF Dropped
    <3> HIDE DEF n1, r
    <3>3. ~Parented(n1)
      BY <1>2, <2>2, <3>2, Zenon DEF Parented, SameNodes
    <3>4. IsKind(n1, ROOT, "Directory") /\ n1[ROOT].parent = None /\ n1 \in NodeSeq
      BY <3>2, Zenon DEF TreeOK, IsKind, SameNodes
    <3>5. ChildrenOK(n1)
      BY <3>2 DEF TreeOK, ChildrenOK, SameNodes
    <3>6. NamesOK(n1)
      <4> SUFFICES ASSUME NEW i, NEW c, NEW d, Live(n1, i), n1[i].kind = "Directory",
                          c \in n1[i].children, d \in n1[i].children, n1[c].name = n1[d].name
                   PROVE  c = d
        BY Zenon DEF NamesOK
      <4>1. /\ Live(nodes, i) /\ nodes[i].kind = "Directory"
            /\ c \in nodes[i].children /\ d \in nodes[i].children
        BY <3>2 DEF SameNodes
      <4>2. nodes[c].name = nodes[d].name
        BY <4>1, <3>2 DEF SameNodes, TreeOK, ChildrenOK
      <4> QED BY <4>1, <4>2, Zenon DEF TreeOK, NamesOK
    <3>7. ParentsKnown(n1)
      BY <3>2, Zenon DEF TreeOK, ParentsKnown, SameNodes
    <3>8. TreeOK(n1) /\ Survives(nodes, n1)
      BY <3>2, <3>3, <3>4, <3>5, <3>6, <3>7, Zenon DEF TreeOK, Survives, SameNodes
    <3> QED BY <3>1, <3>8 DEF r
  <2> QED BY <2>1, <2>2
<1> QED BY <1>1, <1>2

-----------------------------------------------------------------------------
(* Recursive functions on 0 .. N.                                          *)

\* A nonempty set of naturals has a least element.
LEMMA LeastNat ==
  ASSUME NEW S \in SUBSET Nat, S # {}
  PROVE  \E x \in S : \A y \in S : x <= y
<1> DEFINE R == {ss \in Nat \X Nat : ss[1] < ss[2]}
<1>1. IsWellFoundedOn(R, Nat)
  BY NatLessThanWellFounded, Zenon DEF OpToRel
<1> HIDE DEF R
<1>2. PICK x \in S : \A y \in S : ~(<<y, x>> \in R)
  BY <1>1, WFMin, Zenon
<1>3. ASSUME NEW y \in S PROVE x <= y
  <2>1. ~(<<y, x>> \in R)
    BY <1>2
  <2> QED BY <2>1 DEF R
<1> QED BY <1>3

\* A set of naturals with 0 and with the successor of each of its elements
\* holds every natural.
LEMMA NatSet ==
  ASSUME NEW P, 0 \in P, \A n \in Nat : n \in P => n + 1 \in P
  PROVE  Nat \subseteq P
<1> SUFFICES ASSUME Nat \ P # {} PROVE FALSE
  OBVIOUS
<1>1. PICK x \in Nat \ P : \A y \in Nat \ P : x <= y
  BY LeastNat, Zenon
<1>2. x # 0 /\ x - 1 \in Nat /\ (x - 1) + 1 = x
  BY <1>1
<1>3. x - 1 \in P
  BY <1>1, <1>2
<1> QED BY <1>1, <1>2, <1>3

\* The recursion g[0] = init, g[k] = step[k][g[k - 1]] has a solution.
Solvable(D, init, N, step) ==
  \E g \in [0 .. N -> D] : g[0] = init /\ \A k \in 1 .. N : g[k] = step[k][g[k - 1]]

\* A function defined by its first value and by the step from one value to
\* the next exists.
LEMMA Recursion ==
  ASSUME NEW D, NEW init \in D, NEW N \in Nat, NEW step \in [1 .. N -> [D -> D]]
  PROVE  Solvable(D, init, N, step)
<1> DEFINE Solves(g, n) == g[0] = init /\ \A k \in 1 .. n : g[k] = step[k][g[k - 1]]
           P == {n \in Nat : n <= N => \E g \in [0 .. n -> D] : Solves(g, n)}
<1>1. 0 \in P
  <2> DEFINE g == [i \in 0 .. 0 |-> init]
  <2>1. g \in [0 .. 0 -> D] /\ Solves(g, 0)
    OBVIOUS
  <2> QED BY <2>1, Zenon
<1>2. ASSUME NEW n \in Nat, n \in P PROVE n + 1 \in P
  <2> SUFFICES ASSUME n + 1 <= N PROVE \E g \in [0 .. n + 1 -> D] : Solves(g, n + 1)
    OBVIOUS
  <2>1. PICK g \in [0 .. n -> D] : Solves(g, n)
    BY <1>2
  <2> DEFINE next == step[n + 1][g[n]]
             h == [i \in 0 .. n + 1 |-> IF i <= n THEN g[i] ELSE next]
  <2>2. next \in D
    <3>1. step[n + 1] \in [D -> D] /\ g[n] \in D
      OBVIOUS
    <3> QED BY <3>1
  <2>3. h \in [0 .. n + 1 -> D] /\ h[0] = init /\ h[n + 1] = next
    BY <2>1, <2>2
  <2>4. \A i \in 0 .. n : h[i] = g[i]
    OBVIOUS
  <2> HIDE DEF h
  <2>5. ASSUME NEW k \in 1 .. n + 1 PROVE h[k] = step[k][h[k - 1]]
    <3>1. CASE k = n + 1
      BY <3>1, <2>3, <2>4
    <3>2. CASE k \in 1 .. n
      BY <3>2, <2>1, <2>4
    <3> QED BY <3>1, <3>2
  <2> QED BY <2>3, <2>5, Zenon
<1>3. N \in P
  <2> HIDE DEF P
  <2> QED BY <1>1, <1>2, NatSet
<1>4. \E g \in [0 .. N -> D] : Solves(g, N)
  BY <1>3
<1> QED BY <1>4, Zenon DEF Solvable

\* Induction on 0 .. N.
LEMMA UpTo ==
  ASSUME NEW N \in Nat, NEW P, 0 \in P, \A k \in 1 .. N : k - 1 \in P => k \in P
  PROVE  N \in P
<1> DEFINE Q == {n \in Nat : n <= N => n \in P}
<1>1. 0 \in Q
  OBVIOUS
<1>2. ASSUME NEW n \in Nat, n \in Q PROVE n + 1 \in Q
  <2> SUFFICES ASSUME n + 1 <= N PROVE n + 1 \in P
    OBVIOUS
  <2>1. n + 1 \in 1 .. N /\ (n + 1) - 1 = n /\ n \in P
    BY <1>2
  <2> QED BY <2>1
<1>3. Nat \subseteq Q
  <2> HIDE DEF Q
  <2> QED BY <1>1, <1>2, NatSet
<1> QED BY <1>3

-----------------------------------------------------------------------------
(* Paths.                                                                  *)

\* resolve goes from inode to inode.
LEMMA ResolvePartType ==
  ASSUME NEW nodes \in NodeSeq, NEW inode \in Nat \cup {None}, NEW part
  PROVE  ResolvePart(nodes, inode, part) \in Nat \cup {None}
<1>1. CASE inode = None
  BY <1>1 DEF ResolvePart
<1>2. CASE inode # None /\ part = "."
  BY <1>2 DEF ResolvePart
<1>3. CASE inode # None /\ part = ".."
  <2>1. CASE ~Live(nodes, inode)
    BY <1>3, <2>1 DEF ResolvePart
  <2>2. CASE Live(nodes, inode)
    <3>1. nodes[inode].parent \in Nat \cup {None}
      BY <2>2, LiveNode DEF NodeType
    <3> QED BY <1>3, <2>2, <3>1 DEF ResolvePart
  <2> QED BY <2>1, <2>2
<1>4. CASE inode # None /\ part # "." /\ part # ".."
  <2>1. ResolvePart(nodes, inode, part) = lookup_child_by_name(nodes, inode, part)
    BY <1>4 DEF ResolvePart
  <2>2. lookup_child_by_name(nodes, inode, part) # None =>
          lookup_child_by_name(nodes, inode, part) \in Nat
    BY FoundIsLive, LiveNode
  <2> QED BY <2>1, <2>2
<1> QED BY <1>1, <1>2, <1>3, <1>4

\* The inodes that resolve passes.
LEMMA ResolveSteps ==
  ASSUME NEW nodes \in NodeSeq, NEW cwd \in Nat, NEW path \in PathType
  PROVE  \E at : /\ at[0] = IF path.abs THEN ROOT ELSE cwd
                 /\ \A k \in 1 .. Len(path.parts) :
                      at[k] = ResolvePart(nodes, at[k - 1], path.parts[k])
                 /\ resolve(nodes, cwd, path) = at[Len(path.parts)]
<1> DEFINE N == Len(path.parts)
           D == Nat \cup {None}
           start == IF path.abs THEN ROOT ELSE cwd
           step == [k \in 1 .. N |-> [d \in D |-> ResolvePart(nodes, d, path.parts[k])]]
           Step(at, k) == IF k = 0 THEN start ELSE ResolvePart(nodes, at[k - 1], path.parts[k])
           f == CHOOSE at : at = [k \in 0 .. N |-> Step(at, k)]
<1>1. N \in Nat /\ start \in D
  BY DEF PathType, ROOT
<1>2. step \in [1 .. N -> [D -> D]]
  BY ResolvePartType, Zenon
<1>3. resolve(nodes, cwd, path) = f[N]
  BY Zenon DEF resolve
<1>4. PICK g \in [0 .. N -> D] : g[0] = start /\ \A k \in 1 .. N : g[k] = step[k][g[k - 1]]
  <2> HIDE DEF D, start, step, N
  <2>1. Solvable(D, start, N, step)
    BY <1>1, <1>2, Recursion, Zenon
  <2> QED BY <2>1, Zenon DEF Solvable
<1>5. \A k \in 0 .. N : g[k] = Step(g, k)
  <2> HIDE DEF N, start
  <2>1. ASSUME NEW k \in 1 .. N PROVE g[k] = ResolvePart(nodes, g[k - 1], path.parts[k])
    <3>1. k - 1 \in 0 .. N /\ k \in 1 .. N
      BY <1>1
    <3>2. g[k - 1] \in D /\ g[k] = step[k][g[k - 1]]
      BY <3>1, <1>4, Zenon
    <3> QED BY <3>2
  <2> QED BY <1>1, <1>4, <2>1
<1>6. g = [k \in 0 .. N |-> Step(g, k)]
  <2> HIDE DEF Step, N
  <2>1. g = [k \in 0 .. N |-> g[k]]
    OBVIOUS
  <2> QED BY <2>1, <1>5
<1>7. f = [k \in 0 .. N |-> Step(f, k)]
  <2> HIDE DEF Step, N
  <2> QED BY <1>6, Zenon
<1>8. \A k \in 0 .. N : f[k] = Step(f, k)
  <2> HIDE DEF Step, N, f
  <2> QED BY <1>7, Zenon
<1> HIDE DEF f
<1>9. f[0] = start /\ \A k \in 1 .. N : f[k] = ResolvePart(nodes, f[k - 1], path.parts[k])
  <2> HIDE DEF N, start
  <2> QED BY <1>1, <1>8
<1> QED BY <1>3, <1>9

\* While every node has its parent, a path leads to a node or nowhere.
LEMMA ResolveLive ==
  ASSUME NEW nodes, TreeOK(nodes), Parented(nodes), NEW cwd \in Nat, Live(nodes, cwd),
         NEW path \in PathType
  PROVE  resolve(nodes, cwd, path) = None \/ Live(nodes, resolve(nodes, cwd, path))
<1> DEFINE D == {i \in DOMAIN nodes : Live(nodes, i)} \cup {None}
           N == Len(path.parts)
<1>1. nodes \in NodeSeq /\ N \in Nat
  BY DEF TreeOK, PathType
<1>2. PICK at : /\ at[0] = IF path.abs THEN ROOT ELSE cwd
                /\ \A k \in 1 .. N : at[k] = ResolvePart(nodes, at[k - 1], path.parts[k])
                /\ resolve(nodes, cwd, path) = at[N]
  BY <1>1, ResolveSteps
<1>3. at[0] \in D
  BY <1>2 DEF TreeOK, IsKind, Live
<1>4. ASSUME NEW k \in 1 .. N, at[k - 1] \in D PROVE at[k] \in D
  <2> DEFINE i == at[k - 1]
             part == path.parts[k]
  <2>1. at[k] = ResolvePart(nodes, i, part)
    BY <1>2
  <2>2. i = None \/ Live(nodes, i)
    BY <1>4
  <2> HIDE DEF i, part
  <2> SUFFICES ResolvePart(nodes, i, part) = None \/ Live(nodes, ResolvePart(nodes, i, part))
    BY <2>1 DEF Live
  <2>3. CASE i = None
    BY <2>3 DEF ResolvePart
  <2>6. CASE i # None /\ part = "."
    BY <2>2, <2>6 DEF ResolvePart
  <2>4. CASE i # None /\ part = ".."
    <3>1. nodes[i].parent = None \/ Live(nodes, nodes[i].parent)
      BY <2>2, <2>4 DEF Parented, TreeOK
    <3> QED BY <2>2, <2>4, <3>1 DEF ResolvePart
  <2>5. CASE i # None /\ part # "." /\ part # ".."
    <3>1. ResolvePart(nodes, i, part) = lookup_child_by_name(nodes, i, part)
      BY <2>5 DEF ResolvePart
    <3> QED BY <3>1, FoundIsLive
  <2> QED BY <2>3, <2>4, <2>5, <2>6
<1>5. at[N] \in D
  <2> DEFINE P == {k \in 0 .. N : at[k] \in D}
  <2> HIDE DEF D, N
  <2>1. 0 \in P /\ \A k \in 1 .. N : k - 1 \in P => k \in P
    BY <1>1, <1>3, <1>4
  <2> HIDE DEF P
  <2>2. N \in P
    BY <1>1, <2>1, UpTo
  <2> QED BY <2>2 DEF P
<1> QED BY <1>2, <1>5

\* What is below the last name of a path.
LEMMA ParentPath ==
  ASSUME NEW path \in PathType, path.parts # <<>>
  PROVE  [path EXCEPT !.parts = parent_path(@)] \in PathType /\ file_name(path.parts) \in Text
<1>1. path.parts \in Seq(Text) /\ Len(path.parts) \in Nat /\ Len(path.parts) # 0
  BY EmptySeq DEF PathType
<1>2. parent_path(path.parts) \in Seq(Text)
  BY <1>1 DEF parent_path
<1>3. file_name(path.parts) \in Text
  BY <1>1 DEF file_name
<1> HIDE DEF parent_path
<1> QED BY <1>2, <1>3 DEF PathType

\* The same of a directory for a new name.
LEMMA ResolveParentLive ==
  ASSUME NEW nodes, TreeOK(nodes), Parented(nodes), NEW cwd \in Nat, Live(nodes, cwd),
         NEW path \in PathType
  PROVE  resolve_parent(nodes, cwd, path) = None \/ Live(nodes, resolve_parent(nodes, cwd, path))
<1>1. CASE path.parts = <<>> \/ file_name(path.parts) \in {".", ".."}
  BY <1>1 DEF resolve_parent
<1>2. CASE ~(path.parts = <<>> \/ file_name(path.parts) \in {".", ".."})
  <2> DEFINE up == [path EXCEPT !.parts = parent_path(@)]
  <2>1. resolve_parent(nodes, cwd, path) = resolve(nodes, cwd, up)
    BY <1>2 DEF resolve_parent
  <2>2. up \in PathType
    BY <1>2, ParentPath
  <2> HIDE DEF up
  <2> QED BY <2>1, <2>2, ResolveLive
<1> QED BY <1>1, <1>2

\* create and mkdir keep the tree.
LEMMA CreateTree ==
  ASSUME NEW nodes, TreeOK(nodes), NEW cwd, NEW path \in PathType,
         NEW kind \in {"File", "Directory"}, create(nodes, cwd, path, kind) # None
  PROVE  TreeOK(create(nodes, cwd, path, kind)) /\ Survives(nodes, create(nodes, cwd, path, kind))
<1> DEFINE parent == resolve_parent(nodes, cwd, path)
           name == file_name(path.parts)
<1>1. parent # None /\ create(nodes, cwd, path, kind) = insert_node(nodes, parent, name, kind)
  BY DEF create
<1>2. path.parts # <<>>
  BY <1>1 DEF resolve_parent
<1>3. name \in Text
  BY <1>2, ParentPath, Zenon
<1> HIDE DEF parent, name
<1> QED BY <1>1, <1>3, InsertTree

\* rename_path keeps the tree.
LEMMA RenamePathTree ==
  ASSUME NEW nodes, TreeOK(nodes), NEW cwd \in Nat, Live(nodes, cwd),
         NEW from, NEW to \in PathType
  PROVE  LET n2 == rename_path(nodes, cwd, from, to).nodes
         IN  TreeOK(n2) /\ Survives(nodes, n2)
<1> DEFINE inode == resolve(nodes, cwd, from)
           parent == resolve_parent(nodes, cwd, to)
           name == file_name(to.parts)
           r == RenameInode(nodes, inode, parent, name)
<1>1. rename_path(nodes, cwd, from, to) = r
  BY DEF rename_path
<1>2. Parented(nodes) => (parent = None \/ Live(nodes, parent))
  BY ResolveParentLive
<1>3. CASE parent = None
  <2>1. r.nodes = nodes
    BY <1>3, Zenon DEF RenameInode
  <2> HIDE DEF r
  <2> QED BY <1>1, <2>1, Zenon DEF Survives
<1>4. CASE parent # None
  <2>1. to.parts # <<>>
    BY <1>4 DEF resolve_parent
  <2>2. name \in Text
    BY <2>1, ParentPath, Zenon
  <2> HIDE DEF parent, name, inode
  <2>3. TreeOK(r.nodes) /\ Survives(nodes, r.nodes)
    BY <1>2, <2>2, RenameTree
  <2> QED BY <1>1, <2>3
<1> QED BY <1>3, <1>4

-----------------------------------------------------------------------------
(* The path of a node.                                                     *)

ClimbType == [inode : Nat \cup {None}, names : Seq(Text)]

LEMMA ClimbTyped ==
  ASSUME NEW nodes \in NodeSeq, NEW r \in ClimbType
  PROVE  Climb(nodes, r) \in ClimbType
<1>1. CASE r.inode = ROOT \/ ~Live(nodes, r.inode)
  BY <1>1 DEF Climb
<1>2. CASE ~(r.inode = ROOT \/ ~Live(nodes, r.inode))
  <2> DEFINE node == nodes[r.inode]
  <2>1. node \in NodeType
    BY <1>2, LiveNode
  <2>2. node.parent \in Nat \cup {None} /\ node.name \in Text
    BY <2>1 DEF NodeType
  <2>3. <<node.name>> \o r.names \in Seq(Text)
    BY <2>2 DEF ClimbType
  <2>4. Climb(nodes, r) = [inode |-> node.parent, names |-> <<node.name>> \o r.names]
    BY <1>2 DEF Climb
  <2> HIDE DEF node
  <2> QED BY <2>2, <2>3, <2>4 DEF ClimbType
<1> QED BY <1>1, <1>2

\* The nodes that path_for_inode passes.
LEMMA PathSteps ==
  ASSUME NEW nodes \in NodeSeq, NEW inode \in Nat
  PROVE  \E up : /\ up[0] = [inode |-> inode, names |-> <<>>]
                 /\ \A k \in 1 .. Len(nodes) + 1 : up[k] = Climb(nodes, up[k - 1])
                 /\ path_for_inode(nodes, inode)
                      = IF Len(up[Len(nodes) + 1].names) > Len(nodes) THEN None
                        ELSE up[Len(nodes) + 1].names
<1> DEFINE N == Len(nodes) + 1
           start == [inode |-> inode, names |-> <<>>]
           step == [k \in 1 .. N |-> [d \in ClimbType |-> Climb(nodes, d)]]
           Step(up, k) == IF k = 0 THEN start ELSE Climb(nodes, up[k - 1])
           f == CHOOSE up : up = [k \in 0 .. N |-> Step(up, k)]
<1>1. N \in Nat /\ start \in ClimbType
  BY DEF ClimbType, NodeSeq
<1>2. step \in [1 .. N -> [ClimbType -> ClimbType]]
  BY ClimbTyped, Zenon
<1>3. path_for_inode(nodes, inode) = IF Len(f[N].names) > Len(nodes) THEN None ELSE f[N].names
  BY Zenon DEF path_for_inode
<1>4. PICK g \in [0 .. N -> ClimbType] :
        g[0] = start /\ \A k \in 1 .. N : g[k] = step[k][g[k - 1]]
  <2> HIDE DEF start, step, N
  <2>1. Solvable(ClimbType, start, N, step)
    BY <1>1, <1>2, Recursion, Zenon
  <2> QED BY <2>1, Zenon DEF Solvable
<1>5. \A k \in 0 .. N : g[k] = Step(g, k)
  <2> HIDE DEF N, start
  <2>1. ASSUME NEW k \in 1 .. N PROVE g[k] = Climb(nodes, g[k - 1])
    <3>1. k - 1 \in 0 .. N /\ k \in 1 .. N
      BY <1>1
    <3>2. g[k - 1] \in ClimbType /\ g[k] = step[k][g[k - 1]]
      BY <3>1, <1>4, Zenon
    <3> QED BY <3>2
  <2> QED BY <1>1, <1>4, <2>1
<1>6. g = [k \in 0 .. N |-> Step(g, k)]
  <2> HIDE DEF Step, N
  <2>1. g = [k \in 0 .. N |-> g[k]]
    OBVIOUS
  <2> QED BY <2>1, <1>5
<1>7. f = [k \in 0 .. N |-> Step(f, k)]
  <2> HIDE DEF Step, N
  <2> QED BY <1>6, Zenon
<1>8. \A k \in 0 .. N : f[k] = Step(f, k)
  <2> HIDE DEF Step, N, f
  <2> QED BY <1>7, Zenon
<1> HIDE DEF f
<1>9. f[0] = start /\ \A k \in 1 .. N : f[k] = Climb(nodes, f[k - 1])
  <2> HIDE DEF N, start
  <2> QED BY <1>1, <1>8
<1> QED BY <1>3, <1>9

\* path_for_inode answers with names, or never ends.
LEMMA PathNames ==
  ASSUME NEW nodes \in NodeSeq, NEW inode \in Nat, path_for_inode(nodes, inode) # None
  PROVE  path_for_inode(nodes, inode) \in Seq(Text)
<1> DEFINE N == Len(nodes) + 1
<1>1. N \in Nat
  BY DEF NodeSeq
<1>2. PICK up : /\ up[0] = [inode |-> inode, names |-> <<>>]
                /\ \A k \in 1 .. N : up[k] = Climb(nodes, up[k - 1])
                /\ path_for_inode(nodes, inode)
                     = IF Len(up[N].names) > Len(nodes) THEN None ELSE up[N].names
  BY PathSteps, Zenon
<1>3. up[0] \in ClimbType
  BY <1>2 DEF ClimbType
<1>4. \A k \in 1 .. N : up[k - 1] \in ClimbType => up[k] \in ClimbType
  BY <1>2, ClimbTyped
<1> HIDE DEF N
<1>5. up[N] \in ClimbType
  <2> DEFINE P == {k \in 0 .. N : up[k] \in ClimbType}
  <2>1. 0 \in P /\ \A k \in 1 .. N : k - 1 \in P => k \in P
    BY <1>1, <1>3, <1>4
  <2> HIDE DEF P
  <2>2. N \in P
    BY <1>1, <2>1, UpTo
  <2> QED BY <2>2 DEF P
<1> QED BY <1>2, <1>5 DEF ClimbType

\* It looks at names and parents only.
LEMMA PathSame ==
  ASSUME NEW n1 \in NodeSeq, NEW n2, SameNodes(n1, n2), NEW inode \in Nat
  PROVE  path_for_inode(n2, inode) = path_for_inode(n1, inode)
<1> DEFINE N == Len(n1) + 1
<1>1. N \in Nat /\ n2 \in NodeSeq /\ Len(n2) = Len(n1)
  BY LenProperties DEF NodeSeq, SameNodes
<1>2. PICK u1 : /\ u1[0] = [inode |-> inode, names |-> <<>>]
                /\ \A k \in 1 .. N : u1[k] = Climb(n1, u1[k - 1])
                /\ path_for_inode(n1, inode)
                     = IF Len(u1[N].names) > Len(n1) THEN None ELSE u1[N].names
  BY PathSteps
<1>3. PICK u2 : /\ u2[0] = [inode |-> inode, names |-> <<>>]
                /\ \A k \in 1 .. N : u2[k] = Climb(n2, u2[k - 1])
                /\ path_for_inode(n2, inode)
                     = IF Len(u2[N].names) > Len(n1) THEN None ELSE u2[N].names
  BY <1>1, PathSteps
<1>4. \A r : Climb(n2, r) = Climb(n1, r)
  BY Zenon DEF SameNodes, Climb
<1> HIDE DEF N
<1> DEFINE P == {k \in 0 .. N : u2[k] = u1[k]}
<1>5. 0 \in P
  BY <1>1, <1>2, <1>3
<1>6. ASSUME NEW k \in 1 .. N, k - 1 \in P PROVE k \in P
  <2>1. u2[k - 1] = u1[k - 1]
    BY <1>6
  <2>2. u2[k] = u1[k]
    BY <2>1, <1>2, <1>3, <1>4, Zenon
  <2> QED BY <2>2, <1>1
<1>7. N \in P
  <2> HIDE DEF P
  <2> QED BY <1>1, <1>5, <1>6, UpTo
<1>9. u2[N] = u1[N]
  BY <1>7
<1> QED BY <1>2, <1>3, <1>9

-----------------------------------------------------------------------------
(* Normalized paths.                                                       *)

LEMMA NormalizePartType ==
  ASSUME NEW dir \in Seq(Text), NEW part \in Text
  PROVE  NormalizePart(dir, part) \in Seq(Text)
<1>1. CASE part = "."
  BY <1>1 DEF NormalizePart
<1>2. CASE part = ".." /\ dir = <<>>
  BY <1>2 DEF NormalizePart
<1>3. CASE part = ".." /\ dir # <<>>
  <2>1. Len(dir) \in Nat /\ Len(dir) # 0
    BY <1>3, EmptySeq
  <2>2. parent_path(dir) \in Seq(Text)
    BY <2>1 DEF parent_path
  <2>3. NormalizePart(dir, part) = parent_path(dir)
    BY <1>3 DEF NormalizePart
  <2> QED BY <2>2, <2>3
<1>4. CASE part # "." /\ part # ".."
  BY <1>4 DEF NormalizePart
<1> QED BY <1>1, <1>2, <1>3, <1>4

\* A normalized path is a sequence of names.
LEMMA NormalizeType ==
  ASSUME NEW parts \in Seq(Text)
  PROVE  Normalize(parts) \in Seq(Text) /\ (parts = <<>> => Normalize(parts) = <<>>)
<1> DEFINE N == Len(parts)
           D == Seq(Text)
           step == [k \in 1 .. N |-> [d \in D |-> NormalizePart(d, parts[k])]]
           Step(out, k) == IF k = 0 THEN <<>> ELSE NormalizePart(out[k - 1], parts[k])
           f == CHOOSE out : out = [k \in 0 .. N |-> Step(out, k)]
<1>1. N \in Nat /\ <<>> \in D /\ \A k \in 1 .. N : parts[k] \in Text
  BY ElementOfSeq
<1>2. step \in [1 .. N -> [D -> D]]
  <2>1. \A k \in 1 .. N, d \in D : NormalizePart(d, parts[k]) \in D
    BY <1>1, NormalizePartType, Zenon
  <2> QED BY <2>1, Zenon
<1>3. Normalize(parts) = f[N]
  BY Zenon DEF Normalize
<1>4. PICK g \in [0 .. N -> D] : g[0] = <<>> /\ \A k \in 1 .. N : g[k] = step[k][g[k - 1]]
  <2> DEFINE start == <<>>
  <2>1. start \in D
    BY <1>1
  <2>3. N \in Nat
    BY <1>1
  <2> HIDE DEF D, step, N, start
  <2>2. \E g \in [0 .. N -> D] : g[0] = start /\ \A k \in 1 .. N : g[k] = step[k][g[k - 1]]
    <3>1. Solvable(D, start, N, step)
      BY <2>1, <2>3, <1>2, Recursion, Zenon
    <3> QED BY <3>1, Zenon DEF Solvable
  <2> QED BY <2>2, Zenon DEF start
<1>5. \A k \in 0 .. N : g[k] = Step(g, k)
  <2> HIDE DEF N
  <2>1. ASSUME NEW k \in 1 .. N PROVE g[k] = NormalizePart(g[k - 1], parts[k])
    <3>1. k - 1 \in 0 .. N /\ k \in 1 .. N
      BY <1>1
    <3>2. g[k - 1] \in D /\ g[k] = step[k][g[k - 1]]
      BY <3>1, <1>4, Zenon
    <3> QED BY <3>2
  <2> QED BY <1>1, <1>4, <2>1
<1>6. g = [k \in 0 .. N |-> Step(g, k)]
  <2> HIDE DEF Step, N
  <2>1. g = [k \in 0 .. N |-> g[k]]
    OBVIOUS
  <2> QED BY <2>1, <1>5
<1>7. f = [k \in 0 .. N |-> Step(f, k)]
  <2> HIDE DEF Step, N
  <2> QED BY <1>6, Zenon
<1>8. \A k \in 0 .. N : f[k] = Step(f, k)
  <2> HIDE DEF Step, N, f
  <2> QED BY <1>7, Zenon
<1> HIDE DEF f
<1>9. f[0] = <<>> /\ \A k \in 1 .. N : f[k] = NormalizePart(f[k - 1], parts[k])
  <2> HIDE DEF N
  <2> QED BY <1>1, <1>8
<1>10. f[N] \in D
  <2> DEFINE P == {k \in 0 .. N : f[k] \in D}
  <2>4. \A d \in D, part \in Text : NormalizePart(d, part) \in D
    BY NormalizePartType, Zenon
  <2>5. f[0] \in D
    BY <1>1, <1>9, Zenon
  <2> HIDE DEF N, D
  <2>1. 0 \in P
    BY <1>1, <2>5
  <2>2. ASSUME NEW k \in 1 .. N, k - 1 \in P PROVE k \in P
    <3>1. f[k - 1] \in D /\ parts[k] \in Text /\ k \in 0 .. N
      BY <2>2, <1>1
    <3>2. f[k] \in D
      BY <3>1, <2>4, <1>9, Zenon
    <3> QED BY <3>1, <3>2
  <2> HIDE DEF P
  <2>3. N \in P
    BY <1>1, <2>1, <2>2, UpTo
  <2> QED BY <2>3 DEF P
<1>11. parts = <<>> => N = 0
  BY EmptySeq
<1> QED BY <1>3, <1>9, <1>10, <1>11

-----------------------------------------------------------------------------
(* Calls that leave paths alone.                                           *)

\* A rename that fails keeps names, kinds and parents.
LEMMA RenameFails ==
  ASSUME NEW nodes, TreeOK(nodes), NEW cwd, NEW from, NEW to,
         ~rename_path(nodes, cwd, from, to).ok
  PROVE  SameNodes(nodes, rename_path(nodes, cwd, from, to).nodes)
<1> DEFINE inode == resolve(nodes, cwd, from)
           parent == resolve_parent(nodes, cwd, to)
           name == file_name(to.parts)
           r == RenameInode(nodes, inode, parent, name)
           Refused == \/ inode \in {None, ROOT} \/ parent = None
                      \/ lookup_child_by_name(nodes, parent, name) # None
                      \/ ~Live(nodes, inode) \/ ~Live(nodes, nodes[inode].parent)
<1>1. rename_path(nodes, cwd, from, to) = r
  BY Zenon DEF rename_path
<1> HIDE DEF inode, parent, name
<1>2. CASE Refused
  <2>1. r = [nodes |-> nodes, ok |-> FALSE]
    BY <1>2, Zenon DEF RenameInode
  <2>2. SameNodes(nodes, nodes)
    BY Zenon DEF SameNodes, TreeOK
  <2>3. r.nodes = nodes
    BY <2>1
  <2> QED BY <1>1, <2>2, <2>3, Zenon
<1>3. CASE ~Refused /\ ~Live(nodes, parent)
  <2>1. r = [nodes |-> DropEntry(nodes, inode), ok |-> FALSE]
    BY <1>3, Zenon DEF RenameInode
  <2>2. r.nodes = DropEntry(nodes, inode)
    BY <2>1
  <2>3. Dropped(nodes, DropEntry(nodes, inode), inode)
    BY <1>3, Unlisted, Zenon
  <2> QED BY <1>1, <2>2, <2>3, Zenon DEF Dropped
<1>4. CASE ~Refused /\ Live(nodes, parent)
  <2>1. r = [nodes |-> Relink(nodes, inode, parent, name), ok |-> TRUE]
    BY <1>4, Zenon DEF RenameInode
  <2>2. r.ok
    BY <2>1
  <2> QED BY <1>1, <2>2, Zenon
<1> QED BY <1>2, <1>3, <1>4, Zenon

\* n2 is n1 but for the bytes of its files.
SameShape(n1, n2) ==
  SameNodes(n1, n2) /\ \A j : Live(n1, j) => n2[j].children = n1[j].children

LEMMA LookupSame ==
  ASSUME NEW n1, NEW n2, SameShape(n1, n2), NEW dir, NEW name
  PROVE  lookup_child_by_name(n2, dir, name) = lookup_child_by_name(n1, dir, name)
<1> DEFINE found(n) == IF IsKind(n, dir, "Directory")
                       THEN {c \in n[dir].children : Live(n, c) /\ n[c].name = name}
                       ELSE {}
<1>1. IsKind(n2, dir, "Directory") <=> IsKind(n1, dir, "Directory")
  BY Zenon DEF SameShape, SameNodes, IsKind
<1>2. found(n2) = found(n1)
  <2>1. CASE IsKind(n1, dir, "Directory")
    <3>1. n2[dir].children = n1[dir].children
      BY <2>1, Zenon DEF SameShape, IsKind
    <3>2. \A c : (Live(n2, c) /\ n2[c].name = name) <=> (Live(n1, c) /\ n1[c].name = name)
      BY Zenon DEF SameShape, SameNodes
    <3> QED BY <1>1, <2>1, <3>1, <3>2
  <2>2. CASE ~IsKind(n1, dir, "Directory")
    BY <1>1, <2>2, Zenon
  <2> QED BY <2>1, <2>2
<1>3. \A n : lookup_child_by_name(n, dir, name)
               = IF found(n) = {} THEN None ELSE CHOOSE c \in found(n) : TRUE
  BY Zenon DEF lookup_child_by_name
<1> HIDE DEF found
<1> QED BY <1>2, <1>3, Zenon

\* resolve does not look at the bytes of files.
LEMMA ResolveSame ==
  ASSUME NEW n1 \in NodeSeq, NEW n2, SameShape(n1, n2), NEW cwd \in Nat, NEW path \in PathType
  PROVE  resolve(n2, cwd, path) = resolve(n1, cwd, path)
<1> DEFINE N == Len(path.parts)
           start == IF path.abs THEN ROOT ELSE cwd
<1>1. N \in Nat /\ n2 \in NodeSeq
  BY LenProperties DEF PathType, SameShape, SameNodes
<1>2. PICK u1 : /\ u1[0] = start
                /\ \A k \in 1 .. N : u1[k] = ResolvePart(n1, u1[k - 1], path.parts[k])
                /\ resolve(n1, cwd, path) = u1[N]
  BY ResolveSteps
<1>3. PICK u2 : /\ u2[0] = start
                /\ \A k \in 1 .. N : u2[k] = ResolvePart(n2, u2[k - 1], path.parts[k])
                /\ resolve(n2, cwd, path) = u2[N]
  BY <1>1, ResolveSteps
<1>4. \A i, part : ResolvePart(n2, i, part) = ResolvePart(n1, i, part)
  <2> SUFFICES ASSUME NEW i, NEW part PROVE ResolvePart(n2, i, part) = ResolvePart(n1, i, part)
    BY Zenon
  <2>1. lookup_child_by_name(n2, i, part) = lookup_child_by_name(n1, i, part)
    BY LookupSame
  <2>2. (Live(n2, i) <=> Live(n1, i)) /\ (Live(n1, i) => n2[i].parent = n1[i].parent)
    BY Zenon DEF SameShape, SameNodes
  <2>3. CASE i = None \/ part = "."
    BY <2>3 DEF ResolvePart
  <2>4. CASE i # None /\ part = ".."
    BY <2>2, <2>4 DEF ResolvePart
  <2>5. CASE i # None /\ part # "." /\ part # ".."
    BY <2>1, <2>5 DEF ResolvePart
  <2> QED BY <2>3, <2>4, <2>5
<1> HIDE DEF N, start
<1> DEFINE P == {k \in 0 .. N : u2[k] = u1[k]}
<1>5. 0 \in P
  BY <1>1, <1>2, <1>3
<1>6. ASSUME NEW k \in 1 .. N, k - 1 \in P PROVE k \in P
  <2>1. u2[k - 1] = u1[k - 1]
    BY <1>6
  <2>2. u2[k] = u1[k]
    BY <2>1, <1>2, <1>3, <1>4
  <2> QED BY <2>2, <1>1
<1>7. N \in P
  <2> HIDE DEF P
  <2> QED BY <1>1, <1>5, <1>6, UpTo
<1>8. u2[N] = u1[N]
  BY <1>7
<1> QED BY <1>2, <1>3, <1>8

-----------------------------------------------------------------------------
(* File contents.                                                          *)

\* What write_inode_at makes of the bytes old.
Spliced(old, offset, data) ==
  LET end == offset + Len(data)
  IN  [k \in 1 .. (IF end > Len(old) THEN end ELSE Len(old)) |->
         IF k \in offset + 1 .. end THEN data[k - offset]
         ELSE IF k <= Len(old) THEN old[k] ELSE 0]

LEMMA SplicedBytes ==
  ASSUME NEW old \in Seq(Nat), NEW data \in Seq(Nat), NEW offset \in Nat
  PROVE  Spliced(old, offset, data) \in Seq(Nat)
<1> DEFINE end == offset + Len(data)
           N == IF end > Len(old) THEN end ELSE Len(old)
           byte(k) == IF k \in offset + 1 .. end THEN data[k - offset]
                      ELSE IF k <= Len(old) THEN old[k] ELSE 0
<1>1. Spliced(old, offset, data) = [k \in 1 .. N |-> byte(k)]
  BY Zenon DEF Spliced
<1>2. Len(old) \in Nat /\ Len(data) \in Nat
  BY LenProperties
<1>3. N \in Nat
  BY <1>2
<1>4. \A k \in 1 .. N : byte(k) \in Nat
  <2> SUFFICES ASSUME NEW k \in 1 .. N PROVE byte(k) \in Nat
    OBVIOUS
  <2>1. CASE k \in offset + 1 .. end
    <3>1. k - offset \in 1 .. Len(data)
      BY <1>2, <2>1
    <3> QED BY <2>1, <3>1, ElementOfSeq
  <2>2. CASE k \notin offset + 1 .. end /\ k <= Len(old)
    <3>1. k \in 1 .. Len(old)
      BY <1>2, <2>2
    <3> QED BY <2>2, <3>1, ElementOfSeq
  <2>3. CASE k \notin offset + 1 .. end /\ ~(k <= Len(old))
    BY <2>3
  <2> QED BY <2>1, <2>2, <2>3
<1> HIDE DEF N, byte
<1> QED BY <1>1, <1>3, <1>4, IsASeq

\* Writing at the end appends, and to an empty file at 0 leaves just the data.
LEMMA SplicedEnd ==
  ASSUME NEW old \in Seq(Nat), NEW data \in Seq(Nat)
  PROVE  Spliced(old, Len(old), data) = old \o data
<1> DEFINE n == Len(old)
           end == n + Len(data)
<1>1. n \in Nat /\ Len(data) \in Nat /\ end >= n
  BY LenProperties
<1>2. (IF end > n THEN end ELSE n) = end
  BY <1>1
<1>3. Spliced(old, n, data) = [k \in 1 .. end |-> IF k \in n + 1 .. end THEN data[k - n]
                                                  ELSE IF k <= n THEN old[k] ELSE 0]
  BY <1>2 DEF Spliced
<1>4. old \o data = [k \in 1 .. end |-> IF k <= n THEN old[k] ELSE data[k - n]]
  <2> DEFINE s == old \o data
  <2>1. s \in Seq(Nat) /\ Len(s) = end
        /\ \A k \in 1 .. end : s[k] = IF k <= n THEN old[k] ELSE data[k - n]
    BY ConcatProperties
  <2> HIDE DEF s, n, end
  <2>2. s = [k \in 1 .. end |-> s[k]]
    BY <2>1
  <2> QED BY <2>1, <2>2, Zenon DEF s
<1>5. \A k \in 1 .. end : k \in n + 1 .. end <=> ~(k <= n)
  BY <1>1
<1> HIDE DEF n, end
<1>6. \A k \in 1 .. end : (IF k \in n + 1 .. end THEN data[k - n]
                           ELSE IF k <= n THEN old[k] ELSE 0)
                          = IF k <= n THEN old[k] ELSE data[k - n]
  BY <1>5, Zenon
<1> QED BY <1>3, <1>4, <1>6, Zenon DEF n

\* write_inode_at and truncate_inode replace the bytes of one file.
LEMMA WriteData ==
  ASSUME NEW nodes, NEW inode, NEW offset, NEW data
  PROVE  /\ write_inode_at(nodes, inode, offset, data)
              = WithData(nodes, inode, Spliced(nodes[inode].data, offset, data))
         /\ truncate_inode(nodes, inode) = WithData(nodes, inode, <<>>)
BY Zenon DEF write_inode_at, truncate_inode, WithData, Spliced

\* The tree with other bytes in one file.
LEMMA DataTree ==
  ASSUME NEW nodes, TreeOK(nodes), NEW inode, Live(nodes, inode), NEW data \in Seq(Nat)
  PROVE  LET n2 == WithData(nodes, inode, data)
         IN  TreeOK(n2) /\ Survives(nodes, n2) /\ SameShape(nodes, n2) /\ n2[inode].data = data
<1> DEFINE n2 == WithData(nodes, inode, data)
<1>1. DataSet(nodes, n2, inode, data)
  BY SetData, Zenon DEF TreeOK
<1> HIDE DEF n2
<1>2. SameShape(nodes, n2) /\ n2[inode].data = data
  BY <1>1, Zenon DEF DataSet, SameShape
<1>3. TreeOK(n2) /\ Survives(nodes, n2)
  BY <1>2, SameTree, Zenon DEF SameShape
<1> QED BY <1>2, <1>3 DEF n2

-----------------------------------------------------------------------------
(* Volumes.                                                                *)

VolumeType ==
  [name : Text, filesystem : Text, partition : BOOLEAN, mounted_at : PathType \cup {None}]

IsTree(tree) == \A p \in DOMAIN tree : tree[p].data \in Seq(Nat)

\* A tree is held exactly for the volumes that are mounted and have one; that
\* of a FAT32 volume is on its partition if it fits.
VolumeOK(st, vol) ==
  /\ vol.partition => vol.name \in DOMAIN st.disk
  /\ (vol.mounted_at # None /\ fs_supports_mount_tree(vol.filesystem))
       => vol.name \in DOMAIN st.mounted
  /\ (vol.mounted_at # None /\ vol.filesystem = "Fat32") =>
       /\ vol.partition
       /\ Size(st.mounted[vol.name]) <= Capacity => st.disk[vol.name] = st.mounted[vol.name]
  /\ vol.name \in DOMAIN st.mounted => vol.mounted_at # None

StorageOK(st) ==
  /\ st = [volumes |-> st.volumes, disk |-> st.disk, mounted |-> st.mounted]
  /\ st.volumes \in Seq(VolumeType)
  /\ \A i, j \in DOMAIN st.volumes : st.volumes[i].name = st.volumes[j].name => i = j
  /\ 1 \in DOMAIN st.volumes
  /\ st.volumes[1].name = "tmpfs" /\ st.volumes[1].mounted_at = Path(<<>>)
  /\ \A n \in DOMAIN st.disk : IsTree(st.disk[n])
  /\ \A n \in DOMAIN st.mounted : IsTree(st.mounted[n])
  /\ \A i \in DOMAIN st.volumes : VolumeOK(st, st.volumes[i])

\* g is f but for its value at k.
Elsewhere(f, g, k) ==
  \A j : j # k => /\ j \in DOMAIN g <=> j \in DOMAIN f
                  /\ j \in DOMAIN f => g[j] = f[j]

\* st2 is st with vol for its volume idx, and with another tree for it.
ChangedAt(st, st2, idx, vol) ==
  /\ st2 = [volumes |-> st2.volumes, disk |-> st2.disk, mounted |-> st2.mounted]
  /\ st2.volumes = [st.volumes EXCEPT ![idx] = vol]
  /\ vol \in VolumeType /\ vol.name = st.volumes[idx].name
  /\ Elsewhere(st.disk, st2.disk, vol.name)
  /\ Elsewhere(st.mounted, st2.mounted, vol.name)
  /\ vol.name \in DOMAIN st2.disk => IsTree(st2.disk[vol.name])
  /\ vol.name \in DOMAIN st2.mounted => IsTree(st2.mounted[vol.name])
  /\ VolumeOK(st2, vol)

LEMMA AtVolume ==
  ASSUME NEW st, StorageOK(st), NEW i \in DOMAIN st.volumes
  PROVE  st.volumes[i] \in VolumeType /\ i \in Nat /\ i >= 1 /\ VolumeOK(st, st.volumes[i])
<1>1. DOMAIN st.volumes = 1 .. Len(st.volumes) /\ Len(st.volumes) \in Nat
  BY LenProperties DEF StorageOK
<1>2. st.volumes[i] \in VolumeType
  BY <1>1, ElementOfSeq DEF StorageOK
<1> QED BY <1>1, <1>2 DEF StorageOK

LEMMA FunctionIsSeq ==
  ASSUME NEW S, NEW n \in Nat, NEW f \in [1 .. n -> S]
  PROVE  f \in Seq(S)
BY SeqDef

\* What a change to one volume has to keep.
LEMMA ChangeVolume ==
  ASSUME NEW st, StorageOK(st), NEW idx \in DOMAIN st.volumes, NEW vol, NEW st2,
         ChangedAt(st, st2, idx, vol), idx = 1 => vol.mounted_at = Path(<<>>)
  PROVE  StorageOK(st2)
<1> DEFINE vols == st.volumes
<1>1. vols \in Seq(VolumeType) /\ vol \in VolumeType
  BY DEF StorageOK, ChangedAt
<1>2. /\ DOMAIN st2.volumes = DOMAIN vols
      /\ st2.volumes[idx] = vol
      /\ \A i \in DOMAIN vols : i # idx => st2.volumes[i] = vols[i]
  BY <1>1 DEF ChangedAt
<1>3. st2.volumes \in Seq(VolumeType)
  <2>1. vols = [i \in 1 .. Len(vols) |-> vols[i]] /\ Len(vols) \in Nat /\ DOMAIN vols = 1 .. Len(vols)
    BY <1>1
  <2>2. st2.volumes = [i \in 1 .. Len(vols) |-> st2.volumes[i]]
    BY <2>1, <1>2 DEF ChangedAt
  <2>3. \A i \in 1 .. Len(vols) : st2.volumes[i] \in VolumeType
    BY <2>1, <1>1, <1>2, ElementOfSeq, Zenon
  <2>4. st2.volumes \in [1 .. Len(vols) -> VolumeType]
    BY <2>2, <2>3, Zenon
  <2> QED BY <2>1, <2>4, FunctionIsSeq, Zenon
<1>4. \A i \in DOMAIN vols : st2.volumes[i].name = vols[i].name
  BY <1>2 DEF ChangedAt
<1>5. \A i, j \in DOMAIN st2.volumes : st2.volumes[i].name = st2.volumes[j].name => i = j
  BY <1>2, <1>4, Zenon DEF StorageOK
<1>6. /\ 1 \in DOMAIN st2.volumes /\ st2.volumes[1].name = "tmpfs"
      /\ st2.volumes[1].mounted_at = Path(<<>>)
  BY <1>2, <1>4 DEF StorageOK
<1>7. \A n \in DOMAIN st2.disk : IsTree(st2.disk[n])
  BY Zenon DEF StorageOK, ChangedAt, Elsewhere
<1>8. \A n \in DOMAIN st2.mounted : IsTree(st2.mounted[n])
  BY Zenon DEF StorageOK, ChangedAt, Elsewhere
<1>9. ASSUME NEW i \in DOMAIN st2.volumes PROVE VolumeOK(st2, st2.volumes[i])
  <2>1. CASE i = idx
    BY <2>1, <1>2, Zenon DEF ChangedAt
  <2>2. CASE i # idx
    <3> DEFINE w == vols[i]
    <3>1. st2.volumes[i] = w /\ VolumeOK(st, w) /\ i \in DOMAIN vols
      BY <2>2, <1>2 DEF StorageOK
    <3>2. w.name # vol.name
      BY <2>2, <3>1, Zenon DEF StorageOK, ChangedAt
    <3>3. /\ w.name \in DOMAIN st2.disk <=> w.name \in DOMAIN st.disk
          /\ w.name \in DOMAIN st.disk => st2.disk[w.name] = st.disk[w.name]
          /\ w.name \in DOMAIN st2.mounted <=> w.name \in DOMAIN st.mounted
          /\ w.name \in DOMAIN st.mounted => st2.mounted[w.name] = st.mounted[w.name]
      BY <3>2, Zenon DEF ChangedAt, Elsewhere
    <3>4. w.filesystem = "Fat32" => fs_supports_mount_tree(w.filesystem)
      BY DEF fs_supports_mount_tree
    <3> HIDE DEF w
    <3>5. VolumeOK(st2, w)
      BY <3>1, <3>3, <3>4, Zenon DEF VolumeOK
    <3> QED BY <3>1, <3>5
  <2> QED BY <2>1, <2>2
<1> QED BY <1>3, <1>5, <1>6, <1>7, <1>8, <1>9, Zenon DEF StorageOK, ChangedAt

-----------------------------------------------------------------------------
(* The volume a path lies on.                                              *)

\* Of finitely many mount paths one is the longest, and the last of its length.
LEMMA LongestExists ==
  ASSUME NEW at, NEW N \in Nat, NEW M \in Nat, DOMAIN at \subseteq 1 .. N, DOMAIN at # {},
         \A i \in DOMAIN at : Len(at[i]) \in Nat /\ Len(at[i]) <= M
  PROVE  Longest(at) \in DOMAIN at
<1> DEFINE S == DOMAIN at
           short == {M - Len(at[i]) : i \in S}
<1>11. \A i \in S : i \in Nat
  OBVIOUS
<1>1. short \in SUBSET Nat /\ short # {}
  OBVIOUS
<1>2. PICK a \in short : \A b \in short : a <= b
  <2> HIDE DEF short
  <2> QED BY <1>1, LeastNat, Zenon
<1>3. PICK i0 \in S : a = M - Len(at[i0])
  BY <1>2
<1>4. \A j \in S : Len(at[j]) <= Len(at[i0])
  <2> SUFFICES ASSUME NEW j \in S PROVE Len(at[j]) <= Len(at[i0])
    OBVIOUS
  <2>1. M - Len(at[j]) \in short
    OBVIOUS
  <2>2. a <= M - Len(at[j])
    BY <2>1, <1>2
  <2> QED BY <2>2, <1>3
<1> DEFINE T == {i \in S : Len(at[i]) = Len(at[i0])}
           below == {N - i : i \in T}
<1>5. below \in SUBSET Nat /\ below # {}
  BY <1>3
<1>6. PICK b \in below : \A c \in below : b <= c
  <2> HIDE DEF below
  <2> QED BY <1>5, LeastNat, Zenon
<1>7. PICK i1 \in T : b = N - i1
  BY <1>6
<1>8. ASSUME NEW j \in S PROVE Len(at[j]) < Len(at[i1]) \/ (Len(at[j]) = Len(at[i1]) /\ j <= i1)
  <2>1. CASE Len(at[j]) # Len(at[i0])
    BY <2>1, <1>4, <1>7
  <2>2. CASE Len(at[j]) = Len(at[i0])
    <3>1. N - j \in below
      BY <2>2
    <3>2. b <= N - j
      BY <3>1, <1>6, Zenon
    <3>3. j \in Nat /\ i1 \in Nat
      BY <1>7, <1>11
    <3>4. j <= i1
      BY <3>2, <3>3, <1>7
    <3>5. Len(at[i1]) = Len(at[i0])
      BY <1>7
    <3> QED BY <3>4, <3>5, <2>2
  <2> QED BY <2>1, <2>2
<1>9. i1 \in S
  BY <1>7
<1> HIDE DEF S, T
<1>10. \E i \in S : \A j \in S : \/ Len(at[j]) < Len(at[i])
                                 \/ Len(at[j]) = Len(at[i]) /\ j <= i
  BY <1>8, <1>9, Zenon
<1> QED BY <1>10, Zenon DEF Longest, S

\* A mounted volume's directory contains the path.
LEMMA Located ==
  ASSUME NEW st, StorageOK(st), NEW p \in Seq(Text)
  PROVE  /\ VolumeIndex(st, p) \in DOMAIN st.volumes
         /\ st.volumes[VolumeIndex(st, p)].mounted_at # None
<1> DEFINE S == {i \in DOMAIN st.volumes : /\ st.volumes[i].mounted_at # None
                                           /\ starts_with(p, MountPoint(st.volumes[i]))}
           at == [i \in S |-> MountPoint(st.volumes[i])]
<1>1. VolumeIndex(st, p) = Longest(at)
  BY Zenon DEF VolumeIndex
<1>2. DOMAIN st.volumes = 1 .. Len(st.volumes) /\ Len(st.volumes) \in Nat /\ Len(p) \in Nat
  BY LenProperties DEF StorageOK
<1>3. \A i \in S : MountPoint(st.volumes[i]) \in Seq(Text)
  <2> SUFFICES ASSUME NEW i \in S PROVE MountPoint(st.volumes[i]) \in Seq(Text)
    OBVIOUS
  <2>1. st.volumes[i].mounted_at \in PathType
    BY AtVolume DEF VolumeType
  <2>2. st.volumes[i].mounted_at.parts \in Seq(Text)
    BY <2>1 DEF PathType
  <2> QED BY <2>2, NormalizeType DEF MountPoint
<1>4. 1 \in S
  <2>1. MountPoint(st.volumes[1]) = <<>>
    <3>1. st.volumes[1].mounted_at.parts = <<>>
      BY DEF StorageOK, Path
    <3>2. <<>> \in Seq(Text)
      OBVIOUS
    <3> QED BY <3>1, <3>2, NormalizeType, Zenon DEF MountPoint
  <2>2. starts_with(p, <<>>)
    BY <1>2 DEF starts_with
  <2>3. st.volumes[1].mounted_at # None
    <3>1. Path(<<>>) \in PathType
      BY DEF Path, PathType
    <3> QED BY <3>1, TmpfsAssumption DEF StorageOK
  <2> QED BY <2>1, <2>2, <2>3 DEF StorageOK
<1>5. \A i \in S : Len(at[i]) \in Nat /\ Len(at[i]) <= Len(p)
  BY <1>3 DEF starts_with
<1>6. DOMAIN at = S /\ S \subseteq DOMAIN st.volumes
  OBVIOUS
<1> HIDE DEF at, S
<1>7. Longest(at) \in S
  BY <1>2, <1>4, <1>5, <1>6, LongestExists, Zenon
<1> QED BY <1>1, <1>7 DEF S

-----------------------------------------------------------------------------
(* Operations on volumes.                                                  *)

\* at lies on a mounted volume.
Mounted(st, at) ==
  \E i \in DOMAIN st.volumes : /\ st.volumes[i].mounted_at # None
                               /\ at.name = st.volumes[i].name
                               /\ at.filesystem = st.volumes[i].filesystem

LEMMA LocateMounted ==
  ASSUME NEW st, StorageOK(st), NEW p \in Seq(Text)
  PROVE  Mounted(st, Locate(st, p)) /\ Locate(st, p).path = p
<1> DEFINE i == VolumeIndex(st, p)
<1>1. i \in DOMAIN st.volumes /\ st.volumes[i].mounted_at # None
  BY Located, Zenon
<1>2. /\ Locate(st, p).name = st.volumes[i].name
      /\ Locate(st, p).filesystem = st.volumes[i].filesystem
      /\ Locate(st, p).path = p
  BY DEF Locate, OnVolume
<1> HIDE DEF i
<1> QED BY <1>1, <1>2, Zenon DEF Mounted

LEMMA DefaultTrees == IsTree(default_fat_tree) /\ IsTree(default_ro_tree)
<1>1. Dir.data = <<>> /\ File(<<0>>).data = <<0>> /\ <<>> \in Seq(Nat) /\ <<0>> \in Seq(Nat)
  BY DEF Dir, File
<1>2. IsTree(default_fat_tree)
  BY <1>1, Zenon DEF IsTree, default_fat_tree
<1>3. IsTree(default_ro_tree)
  <2> SUFFICES ASSUME NEW p \in DOMAIN default_ro_tree PROVE default_ro_tree[p].data \in Seq(Nat)
    BY DEF IsTree
  <2>1. default_ro_tree[p] = Dir \/ default_ro_tree[p] = File(<<0>>)
    BY Zenon DEF default_ro_tree
  <2> HIDE DEF default_ro_tree
  <2> QED BY <1>1, <2>1, Zenon
<1> QED BY <1>2, <1>3

\* What WritePartition leaves on the partition.
Image(tree) == IF Size(tree) <= Capacity THEN tree ELSE default_fat_tree

OnDisk(st, name, tree) ==
  [volumes |-> st.volumes, disk |-> [st.disk EXCEPT ![name] = Image(tree)], mounted |-> st.mounted]

IsStorage(st) == st = [volumes |-> st.volumes, disk |-> st.disk, mounted |-> st.mounted]

\* WritePartition replaces one image.
LEMMA WritePartitionEffect ==
  ASSUME NEW st, IsStorage(st), NEW name, NEW tree
  PROVE  WritePartition(st, name, tree).st = OnDisk(st, name, tree)
<1> USE DEF OnDisk, IsStorage
<1>1. CASE Size(tree) <= Capacity
  <2>1. WritePartition(st, name, tree).st = [st EXCEPT !.disk[name] = tree] /\ Image(tree) = tree
    BY <1>1 DEF WritePartition, Image
  <2> QED BY <2>1
<1>2. CASE ~(Size(tree) <= Capacity)
  <2>1. /\ WritePartition(st, name, tree).st = [st EXCEPT !.disk[name] = default_fat_tree]
        /\ Image(tree) = default_fat_tree
    BY <1>2 DEF WritePartition, Image
  <2> QED BY <2>1
<1> QED BY <1>1, <1>2

\* r holds tree for the volume of at.
Committed(st, r, at, tree) ==
  /\ StorageOK(r.st) /\ r.st.volumes = st.volumes
  /\ at.name \in DOMAIN r.st.mounted /\ r.st.mounted[at.name] = tree

\* A changed tree is saved, or too large.
LEMMA CommitOK ==
  ASSUME NEW st, StorageOK(st), NEW at, Mounted(st, at), Writable(at), NEW tree, IsTree(tree)
  PROVE  Committed(st, Commit(st, at, tree), at, tree)
<1>1. PICK i \in DOMAIN st.volumes : /\ st.volumes[i].mounted_at # None
                                     /\ at.name = st.volumes[i].name
                                     /\ at.filesystem = st.volumes[i].filesystem
  BY ZenonT(40) DEF Mounted
<1> DEFINE vol == st.volumes[i]
           name == at.name
           mounted == [st.mounted EXCEPT ![name] = tree]
           disk == [st.disk EXCEPT ![name] = Image(tree)]
           st1 == [st EXCEPT !.mounted[name] = tree]
           st2 == Commit(st, at, tree).st
<1>2. /\ vol.filesystem = "Fat32" /\ vol.partition /\ name \in DOMAIN st.mounted
      /\ name \in DOMAIN st.disk /\ vol \in VolumeType
  <2>1. vol.filesystem = "Fat32"
    BY <1>1 DEF Writable, fs_supports_rw_tree
  <2>2. VolumeOK(st, vol) /\ vol \in VolumeType
    BY AtVolume, Zenon
  <2> HIDE DEF vol
  <2> QED BY <1>1, <2>1, <2>2, Zenon DEF VolumeOK, fs_supports_mount_tree, vol
<1>3. st1 = [volumes |-> st.volumes, disk |-> st.disk, mounted |-> mounted]
  BY DEF StorageOK
<1>4. st2 = [volumes |-> st.volumes, disk |-> disk, mounted |-> mounted]
  <2>1. st1.mounted[name] = tree
    BY <1>2, <1>3
  <2>2. st2 = WritePartition(st1, name, tree).st
    BY <2>1 DEF Commit, save_mounted_volume
  <2>3. /\ IsStorage(st1)
        /\ st1.volumes = st.volumes /\ st1.disk = st.disk /\ st1.mounted = mounted
    BY <1>3 DEF IsStorage
  <2> HIDE DEF st1, st2, mounted, name
  <2>4. WritePartition(st1, name, tree).st = OnDisk(st1, name, tree)
    BY <2>3, WritePartitionEffect, ZenonT(40)
  <2> QED BY <2>2, <2>3, <2>4 DEF OnDisk
<1>5. /\ DOMAIN mounted = DOMAIN st.mounted /\ mounted[name] = tree
      /\ DOMAIN disk = DOMAIN st.disk /\ disk[name] = Image(tree)
  BY <1>2
<1>6. Elsewhere(st.disk, disk, name) /\ Elsewhere(st.mounted, mounted, name)
  BY DEF Elsewhere
<1>7. IsTree(Image(tree)) /\ (Size(tree) <= Capacity => Image(tree) = tree)
  BY DefaultTrees DEF Image
<1> HIDE DEF disk, mounted, st1, st2
<1>8. /\ st2 = [volumes |-> st2.volumes, disk |-> st2.disk, mounted |-> st2.mounted]
      /\ st2.volumes = st.volumes /\ st2.disk = disk /\ st2.mounted = mounted
  BY <1>4
<1>9. VolumeOK(st2, vol)
  BY <1>1, <1>2, <1>5, <1>7, <1>8, Zenon DEF VolumeOK
<1>10. st.volumes = [st.volumes EXCEPT ![i] = vol]
  BY DEF StorageOK
<1>11. ChangedAt(st, st2, i, vol)
  <2> HIDE DEF vol
  <2>1. vol.name = name /\ vol = st.volumes[i]
    BY <1>1 DEF vol
  <2> QED BY <2>1, <1>2, <1>5, <1>6, <1>7, <1>8, <1>9, <1>10, Zenon DEF ChangedAt
<1>12. i = 1 => vol.mounted_at = Path(<<>>)
  BY DEF StorageOK
<1>13. StorageOK(st2)
  <2> HIDE DEF vol
  <2> QED BY <1>11, <1>12, ChangeVolume, Zenon
<1> QED BY <1>2, <1>5, <1>8, <1>13, Zenon DEF Committed, st2

LEMMA MountedTree ==
  ASSUME NEW st, StorageOK(st), NEW at, Mounted(st, at), fs_supports_mount_tree(at.filesystem)
  PROVE  at.name \in DOMAIN st.mounted /\ IsTree(st.mounted[at.name])
<1>1. PICK i \in DOMAIN st.volumes : /\ st.volumes[i].mounted_at # None
                                     /\ at.name = st.volumes[i].name
                                     /\ at.filesystem = st.volumes[i].filesystem
  BY DEF Mounted
<1>2. VolumeOK(st, st.volumes[i])
  BY DEF StorageOK
<1>3. at.name \in DOMAIN st.mounted
  BY <1>1, <1>2, Zenon DEF VolumeOK
<1> QED BY <1>3 DEF StorageOK

LEMMA EntryTree ==
  ASSUME NEW tree, IsTree(tree), NEW k, NEW node, node.data \in Seq(Nat)
  PROVE  /\ IsTree(WithEntry(tree, k, node))
         /\ k \in DOMAIN WithEntry(tree, k, node) /\ WithEntry(tree, k, node)[k] = node
<1>1. \A j \in DOMAIN tree \cup {k} : (IF j = k THEN node ELSE tree[j]).data \in Seq(Nat)
  BY Zenon DEF IsTree
<1> QED BY <1>1, Zenon DEF IsTree, WithEntry

LEMMA DropTree ==
  ASSUME NEW tree, IsTree(tree), NEW k
  PROVE  IsTree(Drop(tree, k))
BY Zenon DEF IsTree, Drop

LEMMA RenamedTreeOK ==
  ASSUME NEW tree, IsTree(tree), NEW old, NEW to
  PROVE  IsTree(RenamedTree(tree, old, to))
<1> DEFINE New(path) == RenamedPath(tree, old, to, path)
           Q == {New(path) : path \in DOMAIN tree}
           from(q) == CHOOSE path \in DOMAIN tree : New(path) = q
<1>1. RenamedTree(tree, old, to) = [q \in Q |-> tree[from(q)]]
  BY Zenon DEF RenamedTree
<1>2. \A q \in Q : from(q) \in DOMAIN tree
  <2> SUFFICES ASSUME NEW q \in Q PROVE from(q) \in DOMAIN tree
    BY Zenon
  <2>1. PICK path \in DOMAIN tree : q = New(path)
    BY Zenon
  <2> HIDE DEF New
  <2> QED BY <2>1
<1> HIDE DEF Q, from
<1>3. \A q \in Q : tree[from(q)].data \in Seq(Nat)
  BY <1>2, Zenon DEF IsTree
<1> QED BY <1>1, <1>3, Zenon DEF IsTree

LEMMA WritableTree ==
  ASSUME NEW st, StorageOK(st), NEW at, Mounted(st, at), Writable(at)
  PROVE  at.name \in DOMAIN st.mounted /\ IsTree(st.mounted[at.name])
<1>1. fs_supports_mount_tree(at.filesystem)
  BY DEF Writable, fs_supports_rw_tree, fs_supports_mount_tree
<1> QED BY <1>1, MountedTree, Zenon

\* fs_create, fs_delete, fs_rename and fs_write refuse, or commit a tree.
LEMMA FsCreateOK ==
  ASSUME NEW st, StorageOK(st), NEW at, Mounted(st, at), NEW node, node.data \in Seq(Nat)
  PROVE  StorageOK(fs_create(st, at, node).st)
<1> DEFINE tree == st.mounted[at.name]
           new == WithEntry(tree, at.rel, node)
<1>1. CASE ~Writable(at) \/ at.rel \in DOMAIN tree \/ ~ensure_parent_dir(tree, at.rel)
  <2>1. fs_create(st, at, node) = Fails(st)
    BY <1>1, Zenon DEF fs_create
  <2> QED BY <2>1 DEF Fails
<1>2. CASE ~(~Writable(at) \/ at.rel \in DOMAIN tree \/ ~ensure_parent_dir(tree, at.rel))
  <2>1. fs_create(st, at, node) = Commit(st, at, new)
    BY <1>2, Zenon DEF fs_create
  <2>2. IsTree(new) /\ Writable(at)
    BY <1>2, WritableTree, EntryTree, Zenon
  <2> HIDE DEF new
  <2>3. Committed(st, Commit(st, at, new), at, new)
    BY <2>2, CommitOK, ZenonT(40)
  <2> QED BY <2>1, <2>3, Zenon DEF Committed
<1> QED BY <1>1, <1>2

LEMMA FsDeleteOK ==
  ASSUME NEW st, StorageOK(st), NEW at, Mounted(st, at)
  PROVE  StorageOK(fs_delete(st, at).st)
<1> DEFINE tree == st.mounted[at.name]
           new == Drop(tree, at.rel)
           Refused == \/ at.rel = <<>> \/ ~Writable(at) \/ at.rel \notin DOMAIN tree
                      \/ /\ tree[at.rel].kind = "Directory"
                         /\ \E q \in DOMAIN tree : q # at.rel /\ starts_with(q, at.rel)
<1>1. CASE Refused
  <2>1. fs_delete(st, at) = Fails(st)
    BY <1>1, Zenon DEF fs_delete
  <2> QED BY <2>1 DEF Fails
<1>2. CASE ~Refused
  <2>1. fs_delete(st, at) = Commit(st, at, new)
    BY <1>2, Zenon DEF fs_delete
  <2>2. IsTree(new) /\ Writable(at)
    BY <1>2, WritableTree, DropTree, Zenon
  <2> HIDE DEF new
  <2>3. Committed(st, Commit(st, at, new), at, new)
    BY <2>2, CommitOK, Zenon
  <2> QED BY <2>1, <2>3, Zenon DEF Committed
<1> QED BY <1>1, <1>2, Zenon

LEMMA FsRenameOK ==
  ASSUME NEW st, StorageOK(st), NEW from, Mounted(st, from), NEW to
  PROVE  StorageOK(fs_rename(st, from, to).st)
<1> DEFINE tree == st.mounted[from.name]
           new == RenamedTree(tree, from.rel, to.rel)
           Refused == \/ from.name # to.name \/ ~Writable(from)
                      \/ ~ensure_parent_dir(tree, to.rel)
                      \/ to.rel \in DOMAIN tree \/ from.rel \notin DOMAIN tree
<1>1. CASE Refused
  <2>1. fs_rename(st, from, to) = Fails(st)
    BY <1>1, Zenon DEF fs_rename
  <2> QED BY <2>1 DEF Fails
<1>2. CASE ~Refused
  <2>1. fs_rename(st, from, to) = Commit(st, from, new)
    BY <1>2, Zenon DEF fs_rename
  <2>2. IsTree(new) /\ Writable(from)
    BY <1>2, WritableTree, RenamedTreeOK, ZenonT(40)
  <2> HIDE DEF new
  <2>3. Committed(st, Commit(st, from, new), from, new)
    BY <2>2, CommitOK, Zenon
  <2> QED BY <2>1, <2>3, Zenon DEF Committed
<1> QED BY <1>1, <1>2

\* What fs_write reports as written is what fs_read then answers.
LEMMA FsWriteOK ==
  ASSUME NEW st, StorageOK(st), NEW at, Mounted(st, at), NEW data \in Seq(Nat)
  PROVE  LET r == fs_write(st, at, data)
         IN  /\ StorageOK(r.st)
             /\ r.st.volumes = st.volumes
             /\ r.ok => fs_read(r.st, at) = data
<1> DEFINE tree == st.mounted[at.name]
           new == WithEntry(tree, at.rel, File(data))
           r == fs_write(st, at, data)
           Refused == \/ ~Writable(at)
                      \/ at.rel \notin DOMAIN tree /\ ~ensure_parent_dir(tree, at.rel)
                      \/ at.rel \in DOMAIN tree /\ tree[at.rel].kind # "File"
<1>1. CASE Refused
  <2>1. r = Fails(st)
    BY <1>1, Zenon DEF fs_write
  <2>2. r.st = st /\ ~r.ok
    BY <2>1 DEF Fails
  <2> HIDE DEF r
  <2> QED BY <2>2 DEF r
<1>2. CASE ~Refused
  <2>1. r = Commit(st, at, new)
    BY <1>2, Zenon DEF fs_write
  <2>2. File(data).data = data /\ File(data).kind = "File"
    BY DEF File
  <2>3. /\ IsTree(new) /\ Writable(at)
        /\ at.rel \in DOMAIN new /\ new[at.rel] = File(data)
    <3>1. Writable(at)
      BY <1>2, Zenon
    <3>2. IsTree(tree)
      BY <3>1, WritableTree, Zenon
    <3> DEFINE file == File(data)
    <3>3. file.data \in Seq(Nat)
      BY <2>2
    <3> HIDE DEF tree, file
    <3>4. /\ IsTree(WithEntry(tree, at.rel, file))
          /\ at.rel \in DOMAIN WithEntry(tree, at.rel, file)
          /\ WithEntry(tree, at.rel, file)[at.rel] = file
      BY <3>2, <3>3, EntryTree
    <3> QED BY <3>1, <3>4, Zenon DEF tree, file
  <2> HIDE DEF new
  <2>4. Committed(st, r, at, new)
    BY <2>1, <2>3, CommitOK, Zenon
  <2> HIDE DEF r
  <2>5. fs_supports_mount_tree(at.filesystem)
    BY <2>3 DEF Writable, fs_supports_rw_tree, fs_supports_mount_tree
  <2>6. r.st.mounted[at.name] = new
    BY <2>4 DEF Committed
  <2>7. fs_read(r.st, at) = data
    BY <2>2, <2>3, <2>5, <2>6, Zenon DEF fs_read
  <2> QED BY <2>4, <2>7, Zenon DEF Committed, r
<1> QED BY <1>1, <1>2, Zenon

-----------------------------------------------------------------------------
(* Mounting, unmounting, formatting and scanning.                          *)

LEMMA LeastIndex ==
  ASSUME NEW N \in Nat, NEW I, I \subseteq 1 .. N, I # {}
  PROVE  Min(I) \in I
<1>1. PICK x \in I : \A y \in I : x <= y
  <2>1. I \in SUBSET Nat
    OBVIOUS
  <2> QED BY <2>1, LeastNat, Zenon
<1> QED BY <1>1, Zenon DEF Min

LEMMA NamedVolume ==
  ASSUME NEW st, StorageOK(st), NEW name, Named(st, name) # 0
  PROVE  Named(st, name) \in DOMAIN st.volumes
<1> DEFINE I == {i \in DOMAIN st.volumes : st.volumes[i].name = name}
<1>1. DOMAIN st.volumes = 1 .. Len(st.volumes) /\ Len(st.volumes) \in Nat
  BY LenProperties DEF StorageOK
<1>2. Named(st, name) = IF I # {} THEN Min(I) ELSE 0
  BY Zenon DEF Named, position
<1>3. I \subseteq 1 .. Len(st.volumes)
  BY <1>1
<1> HIDE DEF I
<1>4. I # {} /\ Named(st, name) = Min(I)
  BY <1>2
<1> QED BY <1>1, <1>3, <1>4, LeastIndex, Zenon

LEMMA VolumeMountedAt ==
  ASSUME NEW st, StorageOK(st), NEW path, MountedAt(st, path) # 0
  PROVE  /\ MountedAt(st, path) \in DOMAIN st.volumes
         /\ st.volumes[MountedAt(st, path)].mounted_at = path
<1> DEFINE I == {i \in DOMAIN st.volumes : st.volumes[i].mounted_at = path}
<1>1. DOMAIN st.volumes = 1 .. Len(st.volumes) /\ Len(st.volumes) \in Nat
  BY LenProperties DEF StorageOK
<1>2. MountedAt(st, path) = IF I # {} THEN Min(I) ELSE 0
  BY Zenon DEF MountedAt, position
<1>3. I \subseteq 1 .. Len(st.volumes)
  BY <1>1
<1>4. MountedAt(st, path) \in I
  <2> HIDE DEF I
  <2>1. I # {} /\ MountedAt(st, path) = Min(I)
    BY <1>2
  <2> QED BY <1>1, <1>3, <2>1, LeastIndex, Zenon
<1> HIDE DEF MountedAt
<1> QED BY <1>1, <1>4

LEMMA RootPath == Path(<<>>) \in PathType /\ None \notin PathType /\ Path(<<>>) # None
<1>1. Path(<<>>) \in PathType
  BY DEF Path, PathType
<1> QED BY <1>1, TmpfsAssumption

\* A volume record with another mount path, or another filesystem.
MountedOn(vol, path) == [vol EXCEPT !.mounted_at = path]
FormattedAs(vol, fs) == [vol EXCEPT !.filesystem = fs]

LEMMA MountedRecord ==
  ASSUME NEW vol \in VolumeType, NEW path \in PathType \cup {None}
  PROVE  /\ MountedOn(vol, path) \in VolumeType /\ MountedOn(vol, path).mounted_at = path
         /\ MountedOn(vol, path).name = vol.name
         /\ MountedOn(vol, path).filesystem = vol.filesystem
         /\ MountedOn(vol, path).partition = vol.partition
BY DEF VolumeType, MountedOn

LEMMA FormattedRecord ==
  ASSUME NEW vol \in VolumeType, NEW fs \in Text
  PROVE  /\ FormattedAs(vol, fs) \in VolumeType /\ FormattedAs(vol, fs).filesystem = fs
         /\ FormattedAs(vol, fs).name = vol.name
         /\ FormattedAs(vol, fs).mounted_at = vol.mounted_at
         /\ FormattedAs(vol, fs).partition = vol.partition
BY DEF VolumeType, FormattedAs

\* st1 is st with the tree of vol loaded, if it has one.
Loaded(st, st1, vol) ==
  /\ IsStorage(st1) /\ st1.volumes = st.volumes /\ st1.disk = st.disk
  /\ Elsewhere(st.mounted, st1.mounted, vol.name)
  /\ vol.name \in DOMAIN st1.mounted <=> fs_supports_mount_tree(vol.filesystem)
  /\ vol.name \in DOMAIN st1.mounted => IsTree(st1.mounted[vol.name])
  /\ vol.filesystem = "Fat32" => st1.mounted[vol.name] = st.disk[vol.name]

LEMMA EnsureMounted ==
  ASSUME NEW st, StorageOK(st), NEW i \in DOMAIN st.volumes, NEW vol, vol = st.volumes[i],
         vol.mounted_at = None, vol.filesystem = "Fat32" => vol.partition
  PROVE  Loaded(st, ensure_volume_mounted(st, vol), vol)
<1> DEFINE name == vol.name
           tree == IF vol.filesystem = "Fat32" THEN st.disk[name] ELSE default_ro_tree
           st1 == ensure_volume_mounted(st, vol)
<1>1. VolumeOK(st, vol) /\ name \notin DOMAIN st.mounted
  BY AtVolume, Zenon DEF VolumeOK
<1>2. vol.filesystem = "Fat32" => fs_supports_mount_tree(vol.filesystem)
  BY DEF fs_supports_mount_tree
<1>3. CASE ~fs_supports_mount_tree(vol.filesystem)
  <2>1. st1 = st
    BY <1>3, Zenon DEF ensure_volume_mounted
  <2>2. Elsewhere(st.mounted, st.mounted, name)
    BY Zenon DEF Elsewhere
  <2>3. IsStorage(st)
    BY Zenon DEF IsStorage, StorageOK
  <2> HIDE DEF st1
  <2> QED BY <1>1, <1>2, <1>3, <2>1, <2>2, <2>3, Zenon DEF st1, Loaded
<1>4. CASE fs_supports_mount_tree(vol.filesystem)
  <2> DEFINE mounted == WithEntry(st.mounted, name, tree)
  <2>1. st1 = [st EXCEPT !.mounted = mounted]
    BY <1>1, <1>4, Zenon DEF ensure_volume_mounted
  <2>2. DOMAIN mounted = DOMAIN st.mounted \cup {name} /\ mounted[name] = tree
        /\ \A j \in DOMAIN st.mounted : j # name => mounted[j] = st.mounted[j]
    BY Zenon DEF WithEntry
  <2>3. IsTree(tree)
    <3>1. CASE vol.filesystem = "Fat32"
      <4>1. name \in DOMAIN st.disk
        BY <1>1, <3>1, Zenon DEF VolumeOK
      <4>2. IsTree(st.disk[name])
        BY <4>1, Zenon DEF StorageOK
      <4> QED BY <3>1, <4>2, Zenon
    <3>2. CASE vol.filesystem # "Fat32"
      BY <3>2, DefaultTrees, Zenon
    <3> QED BY <3>1, <3>2
  <2>4. vol.filesystem = "Fat32" => tree = st.disk[name]
    BY Zenon
  <2> HIDE DEF mounted, tree, st1
  <2>5. IsStorage(st1) /\ st1.volumes = st.volumes /\ st1.disk = st.disk /\ st1.mounted = mounted
    BY <2>1 DEF IsStorage, StorageOK
  <2>6. Elsewhere(st.mounted, mounted, name)
    BY <2>2, Zenon DEF Elsewhere
  <2> QED BY <1>4, <2>2, <2>3, <2>4, <2>5, <2>6, Zenon DEF st1, Loaded
<1> QED BY <1>3, <1>4, Zenon

\* What mounting leaves of the state: the volume record, and the trees that
\* ensure_volume_mounted has loaded.
LEMMA MountVolumeOK ==
  ASSUME NEW st, StorageOK(st), NEW name, NEW path \in PathType
  PROVE  StorageOK(mount_volume(st, name, path).st)
<1> DEFINE idx == Named(st, name)
           vol == st.volumes[idx]
           Refused == \/ vol.mounted_at # None
                      \/ \E i \in DOMAIN st.volumes : st.volumes[i].mounted_at = path
                      \/ vol.filesystem = "Fat32" /\ ~vol.partition /\ vol.name \notin DOMAIN st.mounted
           r == mount_volume(st, name, path)
<1>1. CASE idx = 0
  <2>1. r = Fails(st)
    BY <1>1, Zenon DEF mount_volume
  <2> QED BY <2>1 DEF Fails
<1>2. CASE idx # 0 /\ Refused
  <2>1. r = Fails(st)
    BY <1>2, Zenon DEF mount_volume, MountAt
  <2> QED BY <2>1 DEF Fails
<1>3. CASE idx # 0 /\ ~Refused
  <2> DEFINE st1 == ensure_volume_mounted(st, vol)
             vol2 == MountedOn(vol, path)
             st2 == [st1 EXCEPT !.volumes[idx].mounted_at = path]
  <2>1. r = [st |-> st2, ok |-> TRUE]
    BY <1>3, Zenon DEF mount_volume, MountAt
  <2>2. r.st = st2
    BY <2>1
  <2>3. idx \in DOMAIN st.volumes
    BY <1>3, NamedVolume, Zenon
  <2>4. vol \in VolumeType /\ VolumeOK(st, vol)
    BY <2>3, AtVolume, Zenon
  <2>5. vol.mounted_at = None /\ vol.name \notin DOMAIN st.mounted
    BY <1>3, <2>4, Zenon DEF VolumeOK
  <2>6. vol.filesystem = "Fat32" => vol.partition
    BY <1>3, <2>5, Zenon
  <2>7. /\ IsStorage(st1) /\ st1.volumes = st.volumes /\ st1.disk = st.disk
        /\ Elsewhere(st.mounted, st1.mounted, vol.name)
        /\ vol.name \in DOMAIN st1.mounted <=> fs_supports_mount_tree(vol.filesystem)
        /\ vol.name \in DOMAIN st1.mounted => IsTree(st1.mounted[vol.name])
        /\ vol.filesystem = "Fat32" => st1.mounted[vol.name] = st.disk[vol.name]
    <3>1. vol = st.volumes[idx]
      OBVIOUS
    <3> HIDE DEF vol, idx
    <3>2. Loaded(st, ensure_volume_mounted(st, vol), vol)
      BY <2>3, <2>5, <2>6, <3>1, EnsureMounted
    <3> QED BY <3>2, Zenon DEF Loaded
  <2>8. /\ vol2 \in VolumeType /\ vol2.mounted_at = path /\ vol2.name = vol.name
        /\ vol2.filesystem = vol.filesystem /\ vol2.partition = vol.partition
    <3> HIDE DEF vol
    <3> QED BY <2>4, MountedRecord
  <2> HIDE DEF st1
  <2>9. st2 = [volumes |-> [st.volumes EXCEPT ![idx] = vol2], disk |-> st.disk,
               mounted |-> st1.mounted]
    BY <2>7 DEF IsStorage, MountedOn
  <2> HIDE DEF st2, vol2
  <2>10. /\ IsStorage(st2) /\ st2.volumes = [st.volumes EXCEPT ![idx] = vol2]
         /\ st2.disk = st.disk /\ st2.mounted = st1.mounted
    BY <2>9 DEF IsStorage
  <2>11. vol.name \in DOMAIN st.disk => IsTree(st.disk[vol.name])
    BY Zenon DEF StorageOK
  <2>12. path # None
    BY RootPath
  <2> HIDE DEF vol, idx
  <2>13. VolumeOK(st2, vol2)
    BY <2>4, <2>6, <2>7, <2>8, <2>10, <2>12, Zenon DEF VolumeOK
  <2>14. Elsewhere(st.disk, st2.disk, vol.name)
    BY <2>10, Zenon DEF Elsewhere
  <2>15. ChangedAt(st, st2, idx, vol2)
    BY <2>7, <2>8, <2>10, <2>11, <2>13, <2>14, Zenon DEF ChangedAt, IsStorage, vol
  <2>16. idx # 1
    BY <2>5, RootPath, Zenon DEF StorageOK, vol
  <2>17. StorageOK(st2)
    BY <2>3, <2>15, <2>16, ChangeVolume, Zenon
  <2> QED BY <2>2, <2>17, Zenon
<1> QED BY <1>1, <1>2, <1>3, Zenon

LEMMA UmountVolumeOK ==
  ASSUME NEW st, StorageOK(st), NEW path \in PathType, path # Path(<<>>)
  PROVE  StorageOK(umount_volume(st, path).st)
<1> DEFINE idx == MountedAt(st, path)
           vol == st.volumes[idx]
           r == umount_volume(st, path)
<1>1. CASE idx = 0
  <2>1. r = Fails(st)
    BY <1>1, Zenon DEF umount_volume
  <2> QED BY <2>1 DEF Fails
<1>2. CASE idx # 0
  <2> DEFINE name == vol.name
             st1 == IF vol.filesystem = "Fat32" THEN save_mounted_volume(st, name).st ELSE st
             vol2 == MountedOn(vol, None)
             st2 == [st1 EXCEPT !.volumes[idx].mounted_at = None, !.mounted = Drop(@, name)]
  <2>1. r = [st |-> st2, ok |-> TRUE]
    BY <1>2, Zenon DEF umount_volume, UmountAt
  <2>2. r.st = st2
    BY <2>1
  <2>3. idx \in DOMAIN st.volumes /\ vol.mounted_at = path
    BY <1>2, VolumeMountedAt, Zenon
  <2>4. vol \in VolumeType /\ VolumeOK(st, vol)
    BY <2>3, AtVolume, Zenon
  <2>5. /\ vol2 \in VolumeType /\ vol2.mounted_at = None /\ vol2.name = name
        /\ vol2.filesystem = vol.filesystem /\ vol2.partition = vol.partition
    <3> HIDE DEF vol
    <3> QED BY <2>4, MountedRecord
  <2>6. path # None /\ idx # 1
    BY <2>3, RootPath DEF StorageOK
  <2>7. /\ IsStorage(st1) /\ st1.volumes = st.volumes /\ st1.mounted = st.mounted
        /\ Elsewhere(st.disk, st1.disk, name)
        /\ name \in DOMAIN st.disk => name \in DOMAIN st1.disk
        /\ name \in DOMAIN st1.disk => IsTree(st1.disk[name])
    <3>1. CASE vol.filesystem = "Fat32"
      <4> DEFINE tree == st.mounted[name]
      <4>1. st1 = WritePartition(st, name, tree).st
        BY <3>1 DEF save_mounted_volume
      <4>2. IsStorage(st)
        BY DEF StorageOK, IsStorage
      <4>3. name \in DOMAIN st.mounted
        BY <2>3, <2>4, <2>6, <3>1 DEF VolumeOK, fs_supports_mount_tree
      <4>4. IsTree(tree)
        BY <4>3, Zenon DEF StorageOK
      <4>5. IsTree(Image(tree))
        BY <4>4, DefaultTrees, Zenon DEF Image
      <4> HIDE DEF tree, name, st1
      <4>6. st1 = OnDisk(st, name, tree)
        BY <4>1, <4>2, WritePartitionEffect, Zenon
      <4> DEFINE disk == [st.disk EXCEPT ![name] = Image(tree)]
      <4>7. /\ IsStorage(st1) /\ st1.volumes = st.volumes /\ st1.mounted = st.mounted
            /\ st1.disk = disk
        BY <4>6 DEF IsStorage, OnDisk
      <4>8. /\ Elsewhere(st.disk, disk, name) /\ DOMAIN disk = DOMAIN st.disk
            /\ name \in DOMAIN disk => disk[name] = Image(tree)
        BY DEF Elsewhere
      <4> HIDE DEF disk
      <4> QED BY <4>5, <4>7, <4>8, Zenon
    <3>2. CASE vol.filesystem # "Fat32"
      <4>1. st1 = st
        BY <3>2
      <4>2. Elsewhere(st.disk, st.disk, name)
        BY Zenon DEF Elsewhere
      <4>3. IsStorage(st)
        BY DEF StorageOK, IsStorage
      <4> HIDE DEF st1
      <4> QED BY <4>1, <4>2, <4>3, Zenon DEF StorageOK
    <3> QED BY <3>1, <3>2, Zenon
  <2> DEFINE mounted == Drop(st.mounted, name)
  <2>8. DOMAIN mounted = DOMAIN st.mounted \ {name} /\ Elsewhere(st.mounted, mounted, name)
    BY DEF Drop, Elsewhere
  <2> HIDE DEF st1
  <2>9. st2 = [volumes |-> [st.volumes EXCEPT ![idx] = vol2], disk |-> st1.disk, mounted |-> mounted]
    <3> DEFINE st3 == [st1 EXCEPT !.volumes[idx].mounted_at = None]
    <3>1. st2 = [st3 EXCEPT !.mounted = Drop(@, name)]
      BY Zenon
    <3>2. st3 = [volumes |-> [st.volumes EXCEPT ![idx] = vol2], disk |-> st1.disk,
                 mounted |-> st.mounted]
      <4> HIDE DEF idx
      <4> QED BY <2>7 DEF IsStorage, MountedOn
    <3> HIDE DEF st3, vol2, vol, st2
    <3> QED BY <3>1, <3>2
  <2> HIDE DEF st2, vol2, mounted
  <2>10. /\ IsStorage(st2) /\ st2.volumes = [st.volumes EXCEPT ![idx] = vol2]
         /\ st2.disk = st1.disk /\ st2.mounted = mounted
    BY <2>9 DEF IsStorage
  <2>11. name \notin DOMAIN mounted
    BY <2>8
  <2>12. ChangedAt(st, st2, idx, vol2)
    <3> HIDE DEF vol, idx
    <3>1. VolumeOK(st2, vol2)
      BY <2>4, <2>5, <2>7, <2>10, <2>11, Zenon DEF VolumeOK
    <3> QED BY <2>5, <2>7, <2>8, <2>10, <2>11, <3>1, Zenon DEF ChangedAt, IsStorage, vol
  <2> HIDE DEF vol, idx
  <2>13. StorageOK(st2)
    BY <2>3, <2>6, <2>12, ChangeVolume, Zenon
  <2> QED BY <2>2, <2>13, Zenon
<1> QED BY <1>1, <1>2

LEMMA FormatVolumeOK ==
  ASSUME NEW st, StorageOK(st), NEW name, NEW fs \in Text
  PROVE  StorageOK(format_volume(st, name, fs).st)
<1> DEFINE idx == Named(st, name)
           vol == st.volumes[idx]
           r == format_volume(st, name, fs)
           as == [st EXCEPT !.volumes[idx].filesystem = fs]
<1>1. CASE idx = 0 \/ vol.mounted_at # None
  <2>1. r = Fails(st)
    BY <1>1, Zenon DEF format_volume, FormatAt
  <2> QED BY <2>1 DEF Fails
<1>2. CASE idx # 0 /\ vol.mounted_at = None
  <2> DEFINE vol2 == FormattedAs(vol, fs)
             st2 == r.st
  <2>1. idx \in DOMAIN st.volumes
    BY <1>2, NamedVolume, Zenon
  <2>2. vol \in VolumeType /\ VolumeOK(st, vol)
    BY <2>1, AtVolume, Zenon
  <2>3. /\ vol2 \in VolumeType /\ vol2.mounted_at = None /\ vol2.name = vol.name
        /\ vol2.partition = vol.partition
    <3> HIDE DEF vol
    <3> QED BY <1>2, <2>2, FormattedRecord
  <2>4. idx # 1
    BY <1>2, RootPath DEF StorageOK
  <2>5. as = [volumes |-> [st.volumes EXCEPT ![idx] = vol2], disk |-> st.disk, mounted |-> st.mounted]
    <3> HIDE DEF idx
    <3>1. st = [volumes |-> st.volumes, disk |-> st.disk, mounted |-> st.mounted]
      BY Zenon DEF StorageOK
    <3> QED BY <3>1 DEF FormattedAs
  <2> DEFINE volname == vol.name
  <2>6. \/ st2 = as
        \/ vol.partition /\ st2 = WritePartition(as, volname, default_fat_tree).st
    <3> HIDE DEF as, vol
    <3>1. r = FormatAt(st, vol, as, fs)
      BY <1>2, Zenon DEF format_volume, as, vol
    <3>2. CASE fs # "Fat32"
      <4>1. r = [st |-> as, ok |-> TRUE]
        BY <1>2, <3>1, <3>2, Zenon DEF FormatAt
      <4> QED BY <4>1
    <3>3. CASE fs = "Fat32" /\ ~vol.partition
      <4>1. r = Fails(as)
        BY <1>2, <3>1, <3>3, Zenon DEF FormatAt
      <4> QED BY <4>1 DEF Fails
    <3>4. CASE fs = "Fat32" /\ vol.partition
      BY <1>2, <3>1, <3>4, Zenon DEF FormatAt
    <3> QED BY <3>2, <3>3, <3>4, Zenon
  <2> HIDE DEF vol2, as, st2
  <2>7. /\ IsStorage(as) /\ as.volumes = [st.volumes EXCEPT ![idx] = vol2]
        /\ as.disk = st.disk /\ as.mounted = st.mounted
    BY <2>5 DEF IsStorage
  <2>8. volname \in DOMAIN st.disk => IsTree(st.disk[volname])
    BY Zenon DEF StorageOK
  <2>9. volname \in DOMAIN st.mounted => IsTree(st.mounted[volname])
    BY Zenon DEF StorageOK
  <2> HIDE DEF idx
  <2>10. /\ IsStorage(st2) /\ st2.volumes = [st.volumes EXCEPT ![idx] = vol2]
         /\ st2.mounted = st.mounted
         /\ Elsewhere(st.disk, st2.disk, volname)
         /\ volname \in DOMAIN st.disk => volname \in DOMAIN st2.disk
         /\ volname \in DOMAIN st2.disk => IsTree(st2.disk[volname])
    <3> HIDE DEF volname
    <3>1. CASE st2 = as
      <4>1. Elsewhere(st.disk, st.disk, volname)
        BY Zenon DEF Elsewhere
      <4> QED BY <3>1, <4>1, <2>7, <2>8, Zenon
    <3>2. CASE st2 = WritePartition(as, volname, default_fat_tree).st
      <4> DEFINE tree == default_fat_tree
                 disk == [st.disk EXCEPT ![volname] = Image(tree)]
      <4>1. IsTree(Image(tree))
        BY DefaultTrees, Zenon DEF Image
      <4>2. st2 = OnDisk(as, volname, tree)
        BY <3>2, <2>7, WritePartitionEffect, ZenonT(40)
      <4> HIDE DEF tree
      <4>3. /\ IsStorage(st2) /\ st2.volumes = as.volumes /\ st2.mounted = st.mounted
            /\ st2.disk = disk
        BY <4>2, <2>7 DEF IsStorage, OnDisk
      <4>4. /\ Elsewhere(st.disk, disk, volname) /\ DOMAIN disk = DOMAIN st.disk
            /\ volname \in DOMAIN disk => disk[volname] = Image(tree)
        BY DEF Elsewhere
      <4> HIDE DEF disk
      <4> QED BY <4>1, <4>3, <4>4, <2>7, Zenon
    <3> QED BY <2>6, <3>1, <3>2, Zenon
  <2> HIDE DEF vol
  <2>11. VolumeOK(st2, vol2)
    BY <1>2, <2>2, <2>3, <2>10, Zenon DEF VolumeOK
  <2>12. Elsewhere(st.mounted, st2.mounted, volname)
    BY <2>10, Zenon DEF Elsewhere
  <2>13. ChangedAt(st, st2, idx, vol2)
    BY <2>3, <2>9, <2>10, <2>11, <2>12, Zenon DEF ChangedAt, IsStorage, vol
  <2>14. StorageOK(st2)
    BY <2>1, <2>4, <2>13, ChangeVolume, Zenon
  <2> QED BY <2>14, Zenon DEF st2
<1> QED BY <1>1, <1>2, Zenon

\* A scan finds every volume unmounted, and new disks.
LEMMA ScanOK == StorageOK(Scan)
<1> DEFINE N == Len(Registry)
           tmpfs == [name |-> "tmpfs", filesystem |-> "TmpFs", partition |-> FALSE,
                     mounted_at |-> [abs |-> TRUE, parts |-> <<>>]]
           vol(i) == [name |-> Registry[i].name, filesystem |-> Registry[i].filesystem,
                      partition |-> Registry[i].partition, mounted_at |-> None]
           found == [i \in DOMAIN Registry |-> vol(i)]
           vols == <<tmpfs>> \o found
           names == {Registry[i].name : i \in {j \in DOMAIN Registry : Registry[j].partition}}
           disk == [v \in names |-> default_fat_tree]
<1>1. Scan = [volumes |-> vols, disk |-> disk, mounted |-> <<>>]
  BY Zenon DEF Scan
<1>2. N \in Nat /\ DOMAIN Registry = 1 .. N
  BY StorageAssumption, LenProperties
<1>3. \A i \in 1 .. N : /\ Registry[i].name \in Text /\ Registry[i].filesystem \in Text
                        /\ Registry[i].partition \in BOOLEAN
  <2> SUFFICES ASSUME NEW i \in 1 .. N
               PROVE  /\ Registry[i].name \in Text /\ Registry[i].filesystem \in Text
                      /\ Registry[i].partition \in BOOLEAN
    OBVIOUS
  <2>1. Registry[i] \in [name : Text, filesystem : Text, partition : BOOLEAN]
    BY StorageAssumption, ElementOfSeq, Zenon
  <2> HIDE DEF N
  <2> QED BY <2>1
<1>4. tmpfs \in VolumeType /\ tmpfs.mounted_at = Path(<<>>) /\ tmpfs.name = "tmpfs"
      /\ tmpfs.partition = FALSE /\ tmpfs.filesystem = "TmpFs"
  <2>1. tmpfs.mounted_at = Path(<<>>) /\ tmpfs.name = "tmpfs"
        /\ tmpfs.partition = FALSE /\ tmpfs.filesystem = "TmpFs"
    BY DEF Path
  <2>2. tmpfs = [name |-> "tmpfs", filesystem |-> "TmpFs", partition |-> FALSE,
                 mounted_at |-> Path(<<>>)]
    BY DEF Path
  <2>3. tmpfs \in VolumeType
    <3> DEFINE root == Path(<<>>)
    <3>1. root \in PathType \cup {None} /\ FALSE \in BOOLEAN
      BY RootPath, Zenon
    <3>2. "tmpfs" \in Text /\ "TmpFs" \in Text
      BY Zenon DEF Text
    <3> HIDE DEF root
    <3> QED BY <2>2, <3>1, <3>2, Zenon DEF VolumeType, root
  <2> QED BY <2>1, <2>3
<1>5. \A i \in 1 .. N : vol(i) \in VolumeType
  BY <1>3 DEF VolumeType
<1>6. \A i \in 1 .. N : /\ vol(i).name = Registry[i].name /\ vol(i).mounted_at = None
                        /\ vol(i).partition = Registry[i].partition
  OBVIOUS
<1> HIDE DEF tmpfs, vol, N
<1>7. found \in Seq(VolumeType) /\ Len(found) = N
  BY <1>2, <1>5
<1>8. <<tmpfs>> \in Seq(VolumeType) /\ Len(<<tmpfs>>) = 1 /\ <<tmpfs>>[1] = tmpfs
  BY <1>4
<1>9. \A i \in 1 .. N : found[i] = vol(i)
  BY <1>2
<1> HIDE DEF found
<1>10. vols \in Seq(VolumeType) /\ Len(vols) = N + 1 /\ vols[1] = tmpfs
       /\ \A i \in 2 .. N + 1 : vols[i] = vol(i - 1)
  BY <1>2, <1>7, <1>8, <1>9
<1> HIDE DEF vols
<1>11. DOMAIN vols = 1 .. N + 1
  BY <1>10
<1>12. ASSUME NEW i \in 1 .. N + 1, NEW j \in 1 .. N + 1, vols[i].name = vols[j].name
       PROVE  i = j
  <2>1. \A k \in 1 .. N + 1 : k = 1 \/ (k - 1 \in 1 .. N /\ vols[k] = vol(k - 1))
    BY <1>2, <1>10
  <2>2. \A k \in 1 .. N : vol(k).name # "tmpfs"
    BY <1>2, <1>6, StorageAssumption
  <2>3. \A k, l \in 1 .. N : vol(k).name = vol(l).name => k = l
    BY <1>2, <1>6, StorageAssumption
  <2>4. CASE i = 1 \/ j = 1
    BY <2>1, <2>2, <2>4, <1>4, <1>10, <1>12
  <2>5. CASE i # 1 /\ j # 1
    <3>1. i - 1 = j - 1
      BY <2>1, <2>3, <2>5, <1>12
    <3> QED BY <3>1, <1>2
  <2> QED BY <2>4, <2>5
<1>13. \A n \in DOMAIN disk : IsTree(disk[n])
  BY DefaultTrees, Zenon
<1>14. \A i \in 1 .. N : vol(i).partition => vol(i).name \in DOMAIN disk
  BY <1>2, <1>6
<1> HIDE DEF disk
<1>15. /\ Scan.volumes = vols /\ Scan.disk = disk /\ Scan.mounted = <<>>
       /\ Scan = [volumes |-> Scan.volumes, disk |-> Scan.disk, mounted |-> Scan.mounted]
  BY <1>1
<1>16. DOMAIN Scan.mounted = {}
  BY <1>15
<1>17. ASSUME NEW i \in 1 .. N + 1 PROVE VolumeOK(Scan, vols[i])
  <2>1. CASE i = 1
    <3>1. ~fs_supports_mount_tree("TmpFs")
      BY DEF fs_supports_mount_tree
    <3> QED BY <2>1, <3>1, <1>4, <1>10, <1>15, <1>16 DEF VolumeOK
  <2>2. CASE i # 1
    <3>1. i - 1 \in 1 .. N /\ vols[i] = vol(i - 1)
      BY <2>2, <1>2, <1>10
    <3> QED BY <3>1, <1>6, <1>14, <1>15, <1>16, Zenon DEF VolumeOK
  <2> QED BY <2>1, <2>2
<1>18. 1 \in 1 .. N + 1
  BY <1>2
<1> QED BY <1>4, <1>10, <1>11, <1>12, <1>13, <1>15, <1>16, <1>17, <1>18, Zenon DEF StorageOK
==============================================================================
