------------------------------ MODULE Structure ------------------------------
(***************************************************************************)
(* The nodes of a tree and how a node stores its children: tree::Structure *)
(* and tree::Node (src/src/cpprofiler/tree/structure.cpp, node.cpp).       *)
(*                                                                         *)
(* A node has no list of children.  It has one pointer whose two lowest    *)
(* bits are a tag and one integer.  With one or two children the pointer   *)
(* holds the first child and the integer holds minus the second; with more *)
(* the pointer leads to an array and the integer is the number of          *)
(* children.  Memory that has not been written holds Garbage.              *)
(*                                                                         *)
(* NodeIDs index nodes_ from 0, a sequence is indexed from 1.              *)
(***************************************************************************)
EXTENDS Integers, Sequences, FiniteSets

CONSTANTS
  MaxNodes,   \* bound on nodeCount()
  MaxKids     \* bound on the children given to a node at once

ASSUME StructureBounds == MaxNodes \in Nat /\ MaxKids \in Nat

NoNode == -1
Root == 0

Garbage == -1000   \* a read of memory that was never written

VARIABLES
  nodes,     \* Structure::nodes_
  filling    \* the node createRoot, addChildren or addExtraChild is creating
             \* children for: [pid, alt], alt the next one; pid NoNode at rest

structureVars == <<nodes, filling>>

-----------------------------------------------------------------------------
(* Node *)

Tag == [leaf |-> 0, one |-> 1, two |-> 2, more |-> 3]

ChildrenCount(d) == IF d.tag = Tag.more THEN d.count ELSE d.tag

SetNumberOfChildren(d, n) ==
  IF n <= 2 THEN [d EXCEPT !.tag = n]
  ELSE [d EXCEPT !.tag = Tag.more, !.count = n, !.array = [i \in 1 .. n |-> Garbage]]

NewNode(pid, n) ==
  SetNumberOfChildren([parent |-> pid, tag |-> Tag.leaf, first |-> Garbage,
                       count |-> -Garbage, array |-> <<>>], n)

\* Faulty SetChild: the second child is stored as it is.
SetChildSign(d, nid, alt) ==
  IF d.tag = Tag.more THEN [d EXCEPT !.array[alt + 1] = nid]
  ELSE IF alt = 0 THEN [d EXCEPT !.first = nid]
  ELSE [d EXCEPT !.count = nid]

SetChild(d, nid, alt) ==
  IF d.tag = Tag.more THEN [d EXCEPT !.array[alt + 1] = nid]
  ELSE IF alt = 0 THEN [d EXCEPT !.first = nid]
  ELSE [d EXCEPT !.count = -nid]

GetChild(d, alt) ==
  IF d.tag = Tag.more THEN d.array[alt + 1]
  ELSE IF alt = 0 THEN d.first
  ELSE -d.count

\* Faulty AddChild: the second child comes first in the array.
AddChildSwapped(d) ==
  IF d.tag = Tag.more
  THEN [d EXCEPT !.count = @ + 1, !.array = Append(@, Garbage)]
  ELSE IF d.tag = Tag.two
  THEN [d EXCEPT !.tag = Tag.more, !.count = 3,
                 !.array = <<GetChild(d, 1), GetChild(d, 0), Garbage>>]
  ELSE [d EXCEPT !.tag = @ + 1]

\* from two children to three the children move to an array
AddChild(d) ==
  IF d.tag = Tag.more
  THEN [d EXCEPT !.count = @ + 1, !.array = Append(@, Garbage)]
  ELSE IF d.tag = Tag.two
  THEN [d EXCEPT !.tag = Tag.more, !.count = 3,
                 !.array = <<GetChild(d, 0), GetChild(d, 1), Garbage>>]
  ELSE [d EXCEPT !.tag = @ + 1]

\* "only works for two kids for now": any other node stays as it is
RemoveChild(d, alt) ==
  IF d.tag # Tag.two THEN d
  ELSE [(IF alt = 0 THEN SetChild(d, GetChild(d, 1), 0) ELSE d) EXCEPT !.tag = Tag.one]

-----------------------------------------------------------------------------
(* Structure *)

NodeCount == Len(nodes)
NodeIDs == 0 .. NodeCount - 1
NodeAt(n) == nodes[n + 1]
KidsOf(n) == ChildrenCount(NodeAt(n))
ChildAt(n, alt) == GetChild(NodeAt(n), alt)
ParentOf(n) == NodeAt(n).parent

AtRest == filling.pid = NoNode
Nothing == [pid |-> NoNode, alt |-> 0]

StructureInit == nodes = <<>> /\ filling = Nothing

\* the places from alt on of node pid still have to be given their children
Fill(pid, alt, last) ==
  IF alt < last THEN [pid |-> pid, alt |-> alt] ELSE Nothing

CreateRoot(kids) ==
  /\ nodes = <<>>
  /\ nodes' = <<NewNode(NoNode, kids)>>
  /\ filling' = Fill(Root, 0, kids)

AddChildren(pid, kids) ==
  /\ AtRest
  /\ pid \in NodeIDs /\ KidsOf(pid) = 0
  /\ nodes' = [nodes EXCEPT ![pid + 1] = SetNumberOfChildren(@, kids)]
  /\ filling' = Fill(pid, 0, kids)

AddExtraChild(pid) ==
  /\ AtRest
  /\ pid \in NodeIDs
  /\ nodes' = [nodes EXCEPT ![pid + 1] = AddChild(@)]
  /\ filling' = [pid |-> pid, alt |-> KidsOf(pid)]

CreateChild ==
  /\ ~AtRest
  /\ nodes' = Append([nodes EXCEPT ![filling.pid + 1] = SetChild(@, NodeCount, filling.alt)],
                     NewNode(filling.pid, 0))
  /\ filling' = Fill(filling.pid, filling.alt + 1, KidsOf(filling.pid))

RemoveAlt(pid, alt) ==
  /\ AtRest
  /\ pid \in NodeIDs /\ alt \in 0 .. KidsOf(pid) - 1
  /\ nodes' = [nodes EXCEPT ![pid + 1] = RemoveChild(@, alt)]
  /\ UNCHANGED filling

StructureNext ==
  \/ \E k \in 0 .. MaxKids : k < MaxNodes /\ CreateRoot(k)
  \/ \E n \in NodeIDs :
       \/ \E k \in 1 .. MaxKids : NodeCount + k <= MaxNodes /\ AddChildren(n, k)
       \/ NodeCount < MaxNodes /\ AddExtraChild(n)
       \/ \E alt \in 0 .. KidsOf(n) - 1 : RemoveAlt(n, alt)
  \/ CreateChild

StructureSpec == StructureInit /\ [][StructureNext]_structureVars

-----------------------------------------------------------------------------
(* Properties *)

\* the places of n that hold a child
Filled(n) ==
  IF filling.pid = n THEN 0 .. filling.alt - 1 ELSE 0 .. KidsOf(n) - 1

\* The encoding never mixes up what it stores.  Whatever the tag says, each
\* place below the number of children that has been filled reads as a node
\* whose parent is this node, and no node is in two places, also after
\* children moved to an array or to the place of a removed sibling
\* (node.cpp:37-214).
ChildrenFaithful ==
  /\ \A n \in NodeIDs : \A alt \in Filled(n) :
       /\ ChildAt(n, alt) \in NodeIDs \ {Root}
       /\ ParentOf(ChildAt(n, alt)) = n
  /\ \A n \in NodeIDs : \A a, b \in Filled(n) :
       ChildAt(n, a) = ChildAt(n, b) => a = b

\* The lists of children the packed nodes stand for.
Lists ==
  [i \in 1 .. NodeCount |->
     [a \in 1 .. ChildrenCount(nodes[i]) |->
        IF a - 1 \in Filled(i - 1) THEN GetChild(nodes[i], a - 1) ELSE Garbage]]

Abstract == INSTANCE ChildLists WITH Vacant <- Garbage, lists <- Lists

\* The packed nodes implement lists of children: growing a node, moving its
\* children to an array and removing one of two never changes or loses
\* another child (structure.cpp:26-163).
ImplementsChildLists == Abstract!Spec
=============================================================================
