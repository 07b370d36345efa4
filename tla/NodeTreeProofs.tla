---------------------------- MODULE NodeTreeProofs ----------------------------
(***************************************************************************)
(* Theorems about NodeTree, for trees of every size.                       *)
(*                                                                         *)
(* A walk to the root is a least fixed point, so a fact about all nodes of *)
(* a walk is proved by showing that the nodes with that fact are closed    *)
(* under the step (UpLeast).  A step of the tree adds nodes below existing *)
(* ones and never moves a node, so old walks stay what they were and the   *)
(* walk of a new node is the node and the walk of its parent (OldWalks,    *)
(* NewWalks).  The solved flags follow, and the counters and the depth by  *)
(* counting the nodes a step adds.                                         *)
(*                                                                         *)
(* A report closes the nodes of a walk towards the root (ClosedBy, another *)
(* least fixed point).  ClosingReach shows that these are exactly the      *)
(* nodes on the walk whose subtree the report has completed: no more,      *)
(* since the complete nodes are closed under the step of the walk, and no  *)
(* less, since a node the walk does not reach has something pending below  *)
(* it.  So the flags that closeNode and onChildClosed clear and the        *)
(* failedSubtreeClosed signals they emit are what a scan would say.        *)
(***************************************************************************)
EXTENDS NodeTree, FiniteSetTheorems, SequenceTheorems, TLAPS

\* Ancestors(n) as an operator of the parent links and the nodes, so that it
\* can be compared before and after a step.
Closed(S, par) == \A m \in S : par[m] # NoNode => par[m] \in S

Up(par, N, n) ==
  {a \in N : \A S \in {T \in SUBSET N : n \in T /\ Closed(T, par)} : a \in S}

\* The step from (par, N) to (par2, N2) adds nodes and moves none.
Extends(par, N, par2, N2) ==
  /\ N \subseteq N2
  /\ NoNode \notin N2
  /\ \A m \in N : par2[m] = par[m] /\ par[m] \in N \cup {NoNode}
  /\ \A m \in N2 \ N : par2[m] \in N

-----------------------------------------------------------------------------
(* Walks to the root *)

\* Ancestors is Up of the current links, in this state and in the next one.
LEMMA AncestorsIsUp ==
  ASSUME NEW n
  PROVE  /\ Ancestors(n) = Up(parent, Nodes, n)
         /\ Ancestors(n)' = Up(parent', Nodes', n)
  BY DEF Ancestors, Up, Closed

\* A walk starts at its node, stays in the tree and goes on to the root.
LEMMA UpWalks ==
  ASSUME NEW par, NEW N, NEW n \in N
  PROVE  /\ n \in Up(par, N, n)
         /\ Up(par, N, n) \subseteq N
         /\ (\A m \in N : par[m] \in N \cup {NoNode}) => Closed(Up(par, N, n), par)
  BY DEF Up, Closed

\* A walk is the smallest such set.
LEMMA UpLeast ==
  ASSUME NEW par, NEW N, NEW n \in N,
         NEW S \in SUBSET N, n \in S, Closed(S, par)
  PROVE  Up(par, N, n) \subseteq S
  BY DEF Up

\* Adding nodes leaves the walks of the old nodes alone.
LEMMA OldWalks ==
  ASSUME NEW par, NEW N, NEW par2, NEW N2, Extends(par, N, par2, N2),
         NEW n \in N
  PROVE  Up(par2, N2, n) = Up(par, N, n)
<1>1. Up(par2, N2, n) \subseteq Up(par, N, n)
  <2>1. Closed(Up(par, N, n), par2)
    BY UpWalks DEF Extends, Closed
  <2>2. Up(par, N, n) \in SUBSET N2 /\ n \in Up(par, N, n) /\ n \in N2
    BY UpWalks DEF Extends
  <2> QED BY <2>1, <2>2, UpLeast
<1>2. Up(par, N, n) \subseteq Up(par2, N2, n)
  <2> DEFINE S == Up(par2, N2, n) \cap N
  <2>1. n \in S
    BY UpWalks DEF Extends
  <2>2. Closed(Up(par2, N2, n), par2)
    BY UpWalks DEF Extends
  <2>3. Closed(S, par)
    BY <2>2 DEF Extends, Closed
  <2>4. Up(par, N, n) \subseteq S
    BY <2>1, <2>3, UpLeast
  <2> QED BY <2>4
<1> QED BY <1>1, <1>2

\* The walk of a new node is the node and the walk of its parent.
LEMMA NewWalks ==
  ASSUME NEW par, NEW N, NEW par2, NEW N2, Extends(par, N, par2, N2),
         NEW n \in N2 \ N
  PROVE  Up(par2, N2, n) = {n} \cup Up(par, N, par2[n])
<1> DEFINE p == par2[n]
<1>1. p \in N /\ n \in N2 /\ p # NoNode
  BY DEF Extends
<1>2. Up(par2, N2, p) = Up(par, N, p)
  BY <1>1, OldWalks
<1>3. Up(par2, N2, n) \subseteq {n} \cup Up(par, N, p)
  <2>1. Closed({n} \cup Up(par, N, p), par2)
    BY <1>1, UpWalks DEF Extends, Closed
  <2>2. {n} \cup Up(par, N, p) \in SUBSET N2
    BY <1>1, UpWalks DEF Extends
  <2> QED BY <1>1, <2>1, <2>2, UpLeast
<1>4. Closed(Up(par2, N2, n), par2) /\ n \in Up(par2, N2, n)
  BY <1>1, UpWalks DEF Extends
<1>5. p \in Up(par2, N2, n)
  BY <1>1, <1>4 DEF Closed
<1>6. Up(par2, N2, p) \subseteq Up(par2, N2, n)
  <2>1. Up(par2, N2, n) \in SUBSET N2 /\ p \in N2
    BY <1>1, UpWalks DEF Extends
  <2> QED BY <2>1, <1>4, <1>5, UpLeast
<1> QED BY <1>2, <1>3, <1>4, <1>6

-----------------------------------------------------------------------------
(* Type correctness *)

\* PromoteNode promotes a node of the tree that has not been reported.
LEMMA PromotedNode ==
  ASSUME TypeOK, NEW pid \in Nodes, NEW alt \in 0 .. nodeCount, NEW r \in Reports,
         PromoteNode(pid, alt, r)
  PROVE  \E nid \in Nodes, k \in Nat, st \in NodeStatus \ {"UNDETERMINED"} :
           /\ status[nid] = "UNDETERMINED"
           /\ Promote(nid, k, st)
<1> DEFINE nid == GetChild(pid, alt)
<1>1. nid \in Nodes
  BY DEF PromoteNode, GetChild, ChildrenCount, TypeOK
<1>2. r.kids \in Nat /\ r.status \in NodeStatus \ {"UNDETERMINED"}
  BY BoundsAssumption DEF Reports, NodeStatus
<1> QED BY <1>1, <1>2 DEF PromoteNode

\* The walk from a node to the root is finite.
LEMMA DepthType ==
  ASSUME TypeOK, NEW n \in Nodes
  PROVE  Depth(n) \in Nat
<1>1. IsFiniteSet(Nodes)
  BY FS_Interval DEF TypeOK, Nodes
<1>2. Ancestors(n) \subseteq Nodes
  BY DEF Ancestors
<1>3. IsFiniteSet(Ancestors(n))
  BY <1>1, <1>2, FS_Subset
<1> QED BY <1>3, FS_CardinalityType DEF Depth

\* addEntry appends: the old entries stay, the new ones hold v.
LEMMA AddEntriesType ==
  ASSUME nodeCount \in Nat, NEW S, NEW f \in [Nodes -> S], NEW k \in Nat, NEW v \in S
  PROVE  /\ AddEntries(f, k, v) \in [0 .. nodeCount + k - 1 -> S]
         /\ \A n \in Nodes : AddEntries(f, k, v)[n] = f[n]
         /\ \A n \in 0 .. nodeCount + k - 1 : n \notin Nodes => AddEntries(f, k, v)[n] = v
<1>1. ASSUME NEW n \in 0 .. nodeCount + k - 1
      PROVE  n \in Nodes <=> n < nodeCount
  BY DEF Nodes
<1>2. AddEntries(f, k, v) =
        [n \in 0 .. nodeCount + k - 1 |-> IF n \in Nodes THEN f[n] ELSE v]
  BY <1>1 DEF AddEntries
<1>3. Nodes \subseteq 0 .. nodeCount + k - 1
  BY DEF Nodes
<1> QED BY <1>2, <1>3

\* Every action leaves the old nodes in place.
LEMMA Grows ==
  ASSUME TypeOK, NEW nid \in Nodes, NEW k \in Nat,
         nodeCount' = nodeCount + k, parent' = AddEntries(parent, k, nid)
  PROVE  /\ Extends(parent, Nodes, parent', Nodes')
         /\ Nodes' = 0 .. nodeCount + k - 1
         /\ Nodes' \ Nodes = nodeCount .. nodeCount + k - 1
         /\ parent' \in [Nodes' -> Nodes' \cup {NoNode}]
         /\ \A n \in Nodes : parent'[n] = parent[n]
         /\ \A n \in Nodes' \ Nodes : parent'[n] = nid
<1>1. nodeCount \in Nat /\ parent \in [Nodes -> Nodes \cup {NoNode}]
  BY BoundsAssumption DEF TypeOK
<1>2. /\ Nodes' = 0 .. nodeCount + k - 1
      /\ Nodes \subseteq Nodes'
      /\ Nodes' \ Nodes = nodeCount .. nodeCount + k - 1
      /\ NoNode \notin Nodes'
  BY <1>1 DEF Nodes, NoNode
<1>3. /\ parent' \in [Nodes' -> Nodes \cup {NoNode}]
      /\ \A n \in Nodes : parent'[n] = parent[n]
      /\ \A n \in Nodes' \ Nodes : parent'[n] = nid
  <2> DEFINE S == Nodes \cup {NoNode}
  <2>1. nid \in S /\ parent \in [Nodes -> S]
    BY <1>1
  <2> HIDE DEF S
  <2>2. AddEntries(parent, k, nid) \in [0 .. nodeCount + k - 1 -> S]
    BY <1>1, <2>1, AddEntriesType
  <2>3. \A n \in Nodes : AddEntries(parent, k, nid)[n] = parent[n]
    BY <1>1, <2>1, AddEntriesType
  <2>4. \A n \in 0 .. nodeCount + k - 1 : n \notin Nodes =>
          AddEntries(parent, k, nid)[n] = nid
    BY <1>1 DEF AddEntries, Nodes
  <2> QED BY <1>1, <1>2, <2>2, <2>3, <2>4 DEF S
<1> QED BY <1>1, <1>2, <1>3 DEF Extends

\* An execution starts without nodes or with its dummy root.
LEMMA TypeInit == Init => TypeOK
<1> SUFFICES ASSUME Init PROVE TypeOK
  OBVIOUS
<1>1. CASE restarts
  <2>1. nodeCount = 1 /\ Nodes = {Root}
    BY <1>1 DEF Init, RootWith, Nodes, Root
  <2> QED BY <1>1, <2>1 DEF Init, RootWith, TypeOK, Root, NoNode, NodeStatus
<1>2. CASE ~restarts
  <2>1. nodeCount = 0 /\ Nodes = {}
    BY <1>2 DEF Init, Nodes
  <2> QED BY <1>2, <2>1, BoundsAssumption DEF Init, TypeOK
<1> QED BY <1>1, <1>2

\* createRoot fills the maps for the root and its children.
LEMMA CreateRootType ==
  ASSUME TypeOK, NEW k \in 0 .. MaxKids, CreateRoot(k)
  PROVE  TypeOK'
<1> USE BoundsAssumption DEF CreateRoot, RootWith, Root, NoNode
<1>1. nodeCount' \in 0 .. MaxNodes /\ Nodes' = 0 .. k /\ k \in Nat
  BY DEF Nodes
<1>2. parent' \in [Nodes' -> Nodes' \cup {NoNode}]
  BY <1>1
<1>3. kids' \in [Nodes' -> Seq(Nodes')]
  <2>1. [i \in 1 .. k |-> i] \in Seq(0 .. k) /\ <<>> \in Seq(0 .. k)
    BY <1>1
  <2> QED BY <1>1, <2>1
<1>4. status' \in [Nodes' -> NodeStatus]
  BY <1>1 DEF NodeStatus
<1>5. hasSolved' \in [Nodes' -> BOOLEAN] /\ hasOpen' \in [Nodes' -> BOOLEAN]
  BY <1>1
<1>6. stats' \in [branch : Nat, failed : Nat, solved : Nat, skipped : Nat,
                  undet : Int, maxDepth : Nat]
  BY <1>1
<1>7. collapsed' \subseteq Nodes'
  BY DEF TypeOK, Nodes
<1>8. restarts' \in BOOLEAN
  BY DEF TypeOK, CreateRoot
<1> QED BY <1>1, <1>2, <1>3, <1>4, <1>5, <1>6, <1>7, <1>8 DEF TypeOK

\* promoteNode adds entries for the new children to every map.
LEMMA PromoteType ==
  ASSUME TypeOK, NEW nid \in Nodes, NEW k \in Nat, NEW st \in NodeStatus,
         Promote(nid, k, st)
  PROVE  TypeOK'
<1>1. /\ nodeCount \in Nat
      /\ nodeCount' = nodeCount + k
      /\ parent' = AddEntries(parent, k, nid)
      /\ nodeCount' \in 0 .. MaxNodes
  BY BoundsAssumption DEF TypeOK, Promote
<1>2. /\ Nodes' = 0 .. nodeCount + k - 1
      /\ Nodes \subseteq Nodes'
      /\ parent' \in [Nodes' -> Nodes' \cup {NoNode}]
  BY <1>1, Grows DEF Extends
<1>3. kids' \in [Nodes' -> Seq(Nodes')]
  <2>1. NewKids(k) \in Seq(Nodes')
    BY <1>1, <1>2 DEF NewKids
  <2>2. kids \in [Nodes -> Seq(Nodes')] /\ <<>> \in Seq(Nodes')
    <3>1. \A n \in Nodes : kids[n] \in Seq(Nodes)
      BY DEF TypeOK
    <3>2. \A n \in Nodes : kids[n] \in Seq(Nodes')
      BY <1>2, <3>1, SeqMonotonic
    <3> QED BY <3>2 DEF TypeOK
  <2>3. AddEntries(kids, k, <<>>) \in [Nodes' -> Seq(Nodes')]
    BY <1>1, <1>2, <2>2, AddEntriesType
  <2>4. kids' = [AddEntries(kids, k, <<>>) EXCEPT ![nid] = IF k > 0 THEN NewKids(k) ELSE @]
    BY DEF Promote
  <2> QED BY <1>2, <2>1, <2>3, <2>4
<1>4. status' \in [Nodes' -> NodeStatus]
  <2>1. status \in [Nodes -> NodeStatus] /\ "UNDETERMINED" \in NodeStatus
    BY DEF TypeOK, NodeStatus
  <2>2. AddEntries(status, k, "UNDETERMINED") \in [Nodes' -> NodeStatus]
    BY <1>1, <1>2, <2>1, AddEntriesType
  <2> QED BY <2>2 DEF Promote
<1>5. hasSolved' \in [Nodes' -> BOOLEAN] /\ hasOpen' \in [Nodes' -> BOOLEAN]
  BY <1>2 DEF Promote
<1>6. stats' \in [branch : Nat, failed : Nat, solved : Nat, skipped : Nat,
                  undet : Int, maxDepth : Nat]
  <2>1. ASSUME NEW depth \in Nat
        PROVE  StatsAfter(k, st, depth) \in
                 [branch : Nat, failed : Nat, solved : Nat, skipped : Nat,
                  undet : Int, maxDepth : Nat]
    <3>1. stats \in [branch : Nat, failed : Nat, solved : Nat, skipped : Nat,
                     undet : Int, maxDepth : Nat]
      BY DEF TypeOK
    <3> QED BY <3>1 DEF StatsAfter, Larger
  <2>2. (IF k > 0 THEN Depth(nid) + 1 ELSE 0) \in Nat
    BY DepthType
  <2> QED BY <2>1, <2>2 DEF Promote
<1>7. collapsed' \subseteq Nodes'
  <2>1. ClosedBy(nid, status') \subseteq Nodes /\ collapsed \subseteq Nodes
    BY DEF ClosedBy, TypeOK
  <2>2. collapsed' \subseteq collapsed \cup ClosedBy(nid, status')
    BY DEF Promote
  <2> QED BY <1>2, <2>1, <2>2
<1>8. restarts' \in BOOLEAN
  BY DEF TypeOK, Promote
<1> QED BY <1>1, <1>2, <1>3, <1>4, <1>5, <1>6, <1>7, <1>8 DEF TypeOK

\* addExtraChild adds one entry to every map.
LEMMA AddExtraChildType ==
  ASSUME TypeOK, NEW pid \in Nodes, AddExtraChild(pid)
  PROVE  TypeOK'
<1>1. /\ nodeCount \in Nat
      /\ nodeCount' = nodeCount + 1
      /\ parent' = AddEntries(parent, 1, pid)
      /\ nodeCount' \in 0 .. MaxNodes
  BY BoundsAssumption DEF TypeOK, AddExtraChild
<1>2. /\ Nodes' = 0 .. nodeCount + 1 - 1
      /\ Nodes \subseteq Nodes'
      /\ nodeCount \in Nodes'
      /\ parent' \in [Nodes' -> Nodes' \cup {NoNode}]
  BY <1>1, Grows DEF Extends
<1>3. kids' \in [Nodes' -> Seq(Nodes')]
  <2>1. kids \in [Nodes -> Seq(Nodes')] /\ <<>> \in Seq(Nodes')
    <3>1. \A n \in Nodes : kids[n] \in Seq(Nodes)
      BY DEF TypeOK
    <3>2. \A n \in Nodes : kids[n] \in Seq(Nodes')
      BY <1>2, <3>1, SeqMonotonic
    <3> QED BY <3>2 DEF TypeOK
  <2>2. AddEntries(kids, 1, <<>>) \in [Nodes' -> Seq(Nodes')]
    BY <1>1, <1>2, <2>1, AddEntriesType
  <2>3. Append(AddEntries(kids, 1, <<>>)[pid], nodeCount) \in Seq(Nodes')
    BY <1>2, <2>2
  <2> QED BY <2>2, <2>3 DEF AddExtraChild
<1>4. status' \in [Nodes' -> NodeStatus]
  <2>1. status \in [Nodes -> NodeStatus] /\ "UNDETERMINED" \in NodeStatus
    BY DEF TypeOK, NodeStatus
  <2> QED BY <1>1, <1>2, <2>1, AddEntriesType DEF AddExtraChild
<1>5. hasSolved' \in [Nodes' -> BOOLEAN] /\ hasOpen' \in [Nodes' -> BOOLEAN]
  <2>1. hasSolved \in [Nodes -> BOOLEAN] /\ hasOpen \in [Nodes -> BOOLEAN]
    BY DEF TypeOK
  <2> QED BY <1>1, <1>2, <2>1, AddEntriesType DEF AddExtraChild
<1>6. stats' \in [branch : Nat, failed : Nat, solved : Nat, skipped : Nat,
                  undet : Int, maxDepth : Nat]
  <2>1. stats \in [branch : Nat, failed : Nat, solved : Nat, skipped : Nat,
                   undet : Int, maxDepth : Nat]
    BY DEF TypeOK
  <2>2. stats' = [stats EXCEPT !.undet = @ + 1]
    BY DEF AddExtraChild
  <2> QED BY <2>1, <2>2
<1>7. collapsed' \subseteq Nodes'
  BY <1>2 DEF TypeOK, AddExtraChild
<1>8. restarts' \in BOOLEAN
  BY DEF TypeOK, AddExtraChild
<1> QED BY <1>1, <1>2, <1>3, <1>4, <1>5, <1>6, <1>7, <1>8 DEF TypeOK

-----------------------------------------------------------------------------
(* The links of the structure *)

\* The step hangs k new nodes below nid, to the right of its children.
Hangs(nid, k) ==
  /\ nodeCount' = nodeCount + k
  /\ parent' = AddEntries(parent, k, nid)
  /\ \A n \in Nodes' : n \notin Nodes => kids'[n] = <<>>
  /\ \A n \in Nodes \ {nid} : kids'[n] = kids[n]
  /\ Len(kids'[nid]) = Len(kids[nid]) + k
  /\ \A i \in 1 .. Len(kids[nid]) : kids'[nid][i] = kids[nid][i]
  /\ \A i \in 1 .. k : kids'[nid][Len(kids[nid]) + i] = nodeCount + i - 1

\* Promoting nid hangs its k children below it, which has none before.
LEMMA PromoteHangs ==
  ASSUME TypeOK, NEW nid \in Nodes, NEW k \in Nat, NEW st, Promote(nid, k, st)
  PROVE  Hangs(nid, k)
<1>1. nodeCount \in Nat /\ kids \in [Nodes -> Seq(Nodes)] /\ kids[nid] \in Seq(Nodes)
  BY BoundsAssumption DEF TypeOK
<1>2. /\ nodeCount' = nodeCount + k
      /\ parent' = AddEntries(parent, k, nid)
      /\ k > 0 => kids[nid] = <<>>
      /\ kids' = [AddEntries(kids, k, <<>>) EXCEPT ![nid] = IF k > 0 THEN NewKids(k) ELSE @]
  BY DEF Promote
<1>3. /\ \A n \in Nodes : n \in 0 .. nodeCount + k - 1 /\ n < nodeCount
      /\ Nodes' = 0 .. nodeCount + k - 1
      /\ \A n \in Nodes' : n \notin Nodes => ~(n < nodeCount)
  BY <1>1, <1>2 DEF Nodes
<1>4. /\ \A n \in Nodes' : n \notin Nodes => kids'[n] = <<>>
      /\ \A n \in Nodes \ {nid} : kids'[n] = kids[n]
      /\ kids'[nid] = IF k > 0 THEN NewKids(k) ELSE kids[nid]
  BY <1>2, <1>3 DEF AddEntries
<1>5. CASE k > 0
  <2>1. Len(kids[nid]) = 0 /\ kids'[nid] = NewKids(k) /\ Len(NewKids(k)) = k
    BY <1>2, <1>4, <1>5 DEF NewKids
  <2>2. \A i \in 1 .. k : NewKids(k)[i] = nodeCount + i - 1
    BY DEF NewKids
  <2> QED BY <1>2, <1>4, <2>1, <2>2 DEF Hangs
<1>6. CASE k = 0
  <2>1. kids'[nid] = kids[nid] /\ Len(kids[nid]) \in Nat
    BY <1>1, <1>4, <1>6
  <2> QED BY <1>2, <1>4, <1>6, <2>1 DEF Hangs
<1> QED BY <1>5, <1>6

\* An extra child is the rightmost one.
LEMMA AddExtraChildHangs ==
  ASSUME TypeOK, NEW pid \in Nodes, AddExtraChild(pid)
  PROVE  Hangs(pid, 1)
<1>1. nodeCount \in Nat /\ kids \in [Nodes -> Seq(Nodes)] /\ kids[pid] \in Seq(Nodes)
  BY BoundsAssumption DEF TypeOK
<1>2. /\ nodeCount' = nodeCount + 1
      /\ parent' = AddEntries(parent, 1, pid)
      /\ kids' = [AddEntries(kids, 1, <<>>) EXCEPT ![pid] = Append(@, nodeCount)]
  BY DEF AddExtraChild
<1>3. /\ \A n \in Nodes : n \in 0 .. nodeCount + 1 - 1 /\ n < nodeCount
      /\ Nodes' = 0 .. nodeCount + 1 - 1
      /\ \A n \in Nodes' : n \notin Nodes => ~(n < nodeCount)
  BY <1>1, <1>2 DEF Nodes
<1>4. /\ \A n \in Nodes' : n \notin Nodes => kids'[n] = <<>>
      /\ \A n \in Nodes \ {pid} : kids'[n] = kids[n]
      /\ kids'[pid] = Append(kids[pid], nodeCount)
  BY <1>2, <1>3 DEF AddEntries
<1>5. /\ Len(kids'[pid]) = Len(kids[pid]) + 1
      /\ \A i \in 1 .. Len(kids[pid]) : kids'[pid][i] = kids[pid][i]
      /\ kids'[pid][Len(kids[pid]) + 1] = nodeCount
  BY <1>1, <1>4
<1> QED BY <1>1, <1>2, <1>4, <1>5 DEF Hangs

\* Hanging new nodes below nid keeps both links in step.
LEMMA ShapeKept ==
  ASSUME TypeOK, TypeOK', TreeShape, NEW nid \in Nodes, NEW k \in Nat, Hangs(nid, k)
  PROVE  TreeShape'
<1>1. /\ nodeCount \in Nat
      /\ \A n \in Nodes : kids[n] \in Seq(Nodes)
      /\ \A n \in Nodes' : kids'[n] \in Seq(Nodes')
  BY BoundsAssumption DEF TypeOK
<1>2. /\ Nodes \subseteq Nodes'
      /\ \A n \in Nodes' : n \notin Nodes => n >= nodeCount /\ n < nodeCount + k
      /\ \A n \in Nodes : n < nodeCount
      /\ \A n \in Nodes : parent'[n] = parent[n]
      /\ \A n \in Nodes' : n \notin Nodes => parent'[n] = nid
  BY <1>1, Grows DEF Hangs, Extends, Nodes
<1>3. /\ \A n \in Nodes' : n \notin Nodes => kids'[n] = <<>>
      /\ \A n \in Nodes \ {nid} : kids'[n] = kids[n]
      /\ Len(kids'[nid]) = Len(kids[nid]) + k
      /\ \A i \in 1 .. Len(kids[nid]) : kids'[nid][i] = kids[nid][i]
      /\ \A i \in 1 .. k : kids'[nid][Len(kids[nid]) + i] = nodeCount + i - 1
  BY DEF Hangs
<1>4. Len(kids[nid]) \in Nat /\ DOMAIN kids[nid] = 1 .. Len(kids[nid])
      /\ DOMAIN kids'[nid] = 1 .. Len(kids[nid]) + k
  BY <1>1, <1>2, <1>3
<1>5. ASSUME NEW i \in DOMAIN kids'[nid]
      PROVE  \/ i \in DOMAIN kids[nid] /\ kids'[nid][i] = kids[nid][i] /\ kids[nid][i] \in Nodes
             \/ /\ i - Len(kids[nid]) \in 1 .. k
                /\ kids'[nid][i] = nodeCount + (i - Len(kids[nid])) - 1
  <2>1. CASE i \in DOMAIN kids[nid]
    BY <1>1, <1>3, <1>4, <2>1
  <2>2. CASE i \notin DOMAIN kids[nid]
    <3>1. i - Len(kids[nid]) \in 1 .. k /\ i = Len(kids[nid]) + (i - Len(kids[nid]))
      BY <1>4, <2>2
    <3> QED BY <1>3, <3>1
  <2> QED BY <2>1, <2>2
<1>ints. /\ nid \in Int /\ nodeCount \in Int /\ \A n \in Nodes' : n \in Int
      /\ nid >= 0 /\ nid < nodeCount
  BY <1>1 DEF Nodes, Hangs
<1>6. ASSUME NEW n \in Nodes'
      PROVE  parent'[n] = NoNode <=> n = Root
  <2>1. CASE n \in Nodes
    BY <1>2, <2>1 DEF TreeShape
  <2>2. CASE n \notin Nodes
    <3>1. parent'[n] = nid /\ n > nid
      BY <1>ints, <1>2, <2>2
    <3> QED BY <1>ints, <3>1 DEF NoNode, Root
  <2> QED BY <2>1, <2>2
<1>7. ASSUME NEW n \in Nodes' \ {Root}
      PROVE  /\ parent'[n] < n
             /\ \E i \in DOMAIN kids'[parent'[n]] : kids'[parent'[n]][i] = n
  <2>1. CASE n \in Nodes
    <3>1. PICK i \in DOMAIN kids[parent[n]] : kids[parent[n]][i] = n
      BY <2>1 DEF TreeShape
    <3>2. parent[n] \in Nodes /\ parent[n] < n
      BY <2>1 DEF TreeShape, TypeOK
    <3>3. i \in DOMAIN kids'[parent[n]] /\ kids'[parent[n]][i] = n
      <4>1. CASE parent[n] = nid
        <5>1. i \in 1 .. Len(kids[nid]) /\ i \in 1 .. Len(kids[nid]) + k
          BY <1>4, <3>1, <4>1
        <5> QED BY <1>3, <1>4, <3>1, <4>1, <5>1
      <4>2. CASE parent[n] # nid
        BY <1>3, <3>1, <3>2, <4>2
      <4> QED BY <4>1, <4>2
    <3> QED BY <1>2, <2>1, <3>2, <3>3
  <2>2. CASE n \notin Nodes
    <3> DEFINE i == Len(kids[nid]) + (n - nodeCount + 1)
    <3>1. n - nodeCount + 1 \in 1 .. k
      BY <1>ints, <1>2, <2>2
    <3>2. i \in DOMAIN kids'[nid] /\ kids'[nid][i] = nodeCount + (n - nodeCount + 1) - 1
      BY <1>3, <1>4, <3>1
    <3>3. kids'[nid][i] = n
      BY <1>ints, <3>2
    <3>4. parent'[n] = nid /\ nid < n
      BY <1>ints, <1>2, <2>2
    <3> HIDE DEF i
    <3> QED BY <3>2, <3>3, <3>4
  <2> QED BY <2>1, <2>2
<1>8. ASSUME NEW n \in Nodes', NEW i \in DOMAIN kids'[n], NEW j \in DOMAIN kids'[n]
      PROVE  parent'[kids'[n][i]] = n /\ (kids'[n][i] = kids'[n][j] => i = j)
  <2>1. CASE n \in Nodes /\ n # nid
    BY <1>1, <1>2, <1>3, <2>1 DEF TreeShape
  <2>2. CASE n \notin Nodes
    BY <1>3, <2>2
  <2>3. CASE n = nid
    <3>1. \A a \in DOMAIN kids[nid] : kids[nid][a] < nodeCount /\ parent'[kids[nid][a]] = nid
      BY <1>1, <1>2 DEF TreeShape
    <3>2. \A a \in 1 .. k : nodeCount + a - 1 \in Nodes' /\ nodeCount + a - 1 \notin Nodes
      BY <1>1 DEF Nodes, Hangs
    <3>3. parent'[kids'[n][i]] = n
      BY <1>2, <1>5, <2>3, <3>1, <3>2
    <3>4. ASSUME kids'[n][i] = kids'[n][j] PROVE i = j
      <4>1. CASE i \in DOMAIN kids[nid] /\ j \in DOMAIN kids[nid]
        BY <1>3, <1>4, <2>3, <3>4, <4>1 DEF TreeShape
      <4>2. CASE i \notin DOMAIN kids[nid] /\ j \notin DOMAIN kids[nid]
        <5>1. /\ kids'[nid][i] = nodeCount + (i - Len(kids[nid])) - 1
              /\ kids'[nid][j] = nodeCount + (j - Len(kids[nid])) - 1
          BY <1>5, <2>3, <4>2
        <5>2. i \in Int /\ j \in Int /\ Len(kids[nid]) \in Int
          BY <1>4, <2>3
        <5>3. nodeCount + (i - Len(kids[nid])) - 1 = nodeCount + (j - Len(kids[nid])) - 1
          BY <2>3, <3>4, <5>1
        <5> QED BY <1>ints, <5>2, <5>3
      <4>3. \A a, b \in DOMAIN kids'[nid] :
              a \in DOMAIN kids[nid] /\ b \notin DOMAIN kids[nid] =>
                kids'[nid][a] \in Nodes /\ kids'[nid][b] \notin Nodes
        BY <1>5, <3>2
      <4> QED BY <2>3, <3>4, <4>1, <4>2, <4>3
    <3> QED BY <3>3, <3>4
  <2> QED BY <2>1, <2>2, <2>3
<1> QED BY <1>6, <1>7, <1>8 DEF TreeShape

\* The first tree is well formed.
LEMMA ShapeInit == Init => TreeShape
<1> SUFFICES ASSUME Init PROVE TreeShape
  OBVIOUS
<1>1. CASE restarts
  <2>1. /\ Nodes = {Root}
        /\ parent[Root] = NoNode
        /\ kids[Root] = <<>>
    BY <1>1 DEF Init, RootWith, Nodes, Root
  <2> QED BY <2>1 DEF TreeShape
<1>2. CASE ~restarts
  <2>1. Nodes = {}
    BY <1>2 DEF Init, Nodes
  <2> QED BY <2>1 DEF TreeShape
<1> QED BY <1>1, <1>2

\* So is the tree createRoot makes.
LEMMA CreateRootShape ==
  ASSUME NEW k \in 0 .. MaxKids, CreateRoot(k)
  PROVE  TreeShape'
<1>1. /\ k \in Nat
      /\ Nodes' = 0 .. k
      /\ parent' = [n \in 0 .. k |-> IF n = Root THEN NoNode ELSE Root]
      /\ kids' = [n \in 0 .. k |-> IF n = Root THEN [i \in 1 .. k |-> i] ELSE <<>>]
  BY BoundsAssumption DEF CreateRoot, RootWith, Nodes
<1>2. /\ \A n \in Nodes' : parent'[n] = NoNode <=> n = Root
      /\ \A n \in Nodes' \ {Root} : parent'[n] = Root /\ Root < n /\ n \in 1 .. k
      /\ DOMAIN kids'[Root] = 1 .. k
      /\ \A i \in 1 .. k : kids'[Root][i] = i /\ i \in Nodes' /\ i # Root
      /\ \A n \in Nodes' \ {Root} : DOMAIN kids'[n] = {}
  BY <1>1 DEF Root, NoNode
<1> QED BY <1>2 DEF TreeShape

-----------------------------------------------------------------------------
(* hasSolvedChildren *)

\* Promoting or extending below nid, from old statuses to new ones that differ
\* at nid and in the new nodes only.
LEMMA SubtreesGrow ==
  ASSUME TypeOK, NEW nid \in Nodes, NEW k \in Nat,
         nodeCount' = nodeCount + k, parent' = AddEntries(parent, k, nid)
  PROVE  /\ \A d \in Nodes : Ancestors(d)' = Ancestors(d)
         /\ \A d \in Nodes' : d \notin Nodes => Ancestors(d)' = {d} \cup Ancestors(nid)
         /\ \A d \in Nodes : d \in Ancestors(d) /\ Ancestors(d) \subseteq Nodes
<1>1. /\ Extends(parent, Nodes, parent', Nodes')
      /\ \A n \in Nodes' \ Nodes : parent'[n] = nid
  BY Grows
<1>2. ASSUME NEW d \in Nodes PROVE Ancestors(d)' = Ancestors(d)
  BY <1>1, OldWalks, AncestorsIsUp
<1>3. ASSUME NEW d \in Nodes' \ Nodes PROVE Ancestors(d)' = {d} \cup Ancestors(nid)
  BY <1>1, NewWalks, AncestorsIsUp
<1>4. ASSUME NEW d \in Nodes PROVE d \in Ancestors(d) /\ Ancestors(d) \subseteq Nodes
  BY AncestorsIsUp, UpWalks
<1> QED BY <1>2, <1>3, <1>4

\* notifyAncestors brings the flags up to date.
LEMMA PromoteSolvedFlags ==
  ASSUME TypeOK, SolvedFlagsExact, NEW nid \in Nodes, NEW k \in Nat, NEW st \in NodeStatus,
         status[nid] = "UNDETERMINED", Promote(nid, k, st)
  PROVE  SolvedFlagsExact'
<1>1. /\ nodeCount \in Nat
      /\ nodeCount' = nodeCount + k
      /\ parent' = AddEntries(parent, k, nid)
  BY BoundsAssumption DEF TypeOK, Promote
<1>2. /\ Nodes' = 0 .. nodeCount + k - 1
      /\ Nodes \subseteq Nodes'
  BY <1>1, Grows DEF Extends
<1>3. /\ \A d \in Nodes : Ancestors(d)' = Ancestors(d)
      /\ \A d \in Nodes' : d \notin Nodes => Ancestors(d)' = {d} \cup Ancestors(nid)
      /\ \A d \in Nodes : d \in Ancestors(d) /\ Ancestors(d) \subseteq Nodes
  BY <1>1, SubtreesGrow
<1>4. /\ status'[nid] = st
      /\ \A d \in Nodes \ {nid} : status'[d] = status[d]
      /\ \A d \in Nodes' : d \notin Nodes => status'[d] = "UNDETERMINED"
  BY <1>1, <1>2 DEF Promote, AddEntries, Nodes
<1>5. /\ \A n \in Nodes : hasSolved'[n] <=> \/ st = "SOLVED" /\ n \in Ancestors(nid)
                                            \/ hasSolved[n]
      /\ \A n \in Nodes' : n \notin Nodes => ~hasSolved'[n]
  <2>1. hasSolved' = [n \in 0 .. nodeCount + k - 1 |->
                        \/ n \in SolvedBy(nid, st)
                        \/ AddEntries(hasSolved, k, FALSE)[n]]
    BY DEF Promote
  <2>2. hasSolved \in [Nodes -> BOOLEAN]
    BY DEF TypeOK
  <2>3. ASSUME NEW n \in Nodes'
        PROVE  AddEntries(hasSolved, k, FALSE)[n] = IF n \in Nodes THEN hasSolved[n] ELSE FALSE
    <3>1. n \in 0 .. nodeCount + k - 1 /\ (n < nodeCount <=> n \in Nodes)
      BY <1>1, <1>2 DEF Nodes
    <3> QED BY <3>1 DEF AddEntries
  <2> QED BY <1>2, <1>3, <2>1, <2>2, <2>3 DEF SolvedBy
<1>6. ASSUME NEW n \in Nodes'
      PROVE  hasSolved'[n] <=> \E d \in Nodes' : n \in Ancestors(d)' /\ status'[d] = "SOLVED"
  <2>1. ASSUME NEW d \in Nodes', status'[d] = "SOLVED"
        PROVE  d \in Nodes /\ (d = nid => st = "SOLVED") /\ (d # nid => status[d] = "SOLVED")
    BY <1>4, <2>1
  <2>2. CASE n \in Nodes
    <3>1. hasSolved[n] <=> \E d \in Nodes : n \in Ancestors(d) /\ status[d] = "SOLVED"
      BY <2>2 DEF SolvedFlagsExact, Subtree
    <3> QED BY <1>2, <1>3, <1>4, <1>5, <2>1, <2>2, <3>1
  <2>3. CASE n \notin Nodes
    BY <1>3, <1>5, <2>1, <2>3
  <2> QED BY <2>2, <2>3
<1> QED BY <1>6 DEF SolvedFlagsExact, Subtree

\* A new undetermined node is no solution.
LEMMA AddExtraChildSolvedFlags ==
  ASSUME TypeOK, SolvedFlagsExact, NEW pid \in Nodes, AddExtraChild(pid)
  PROVE  SolvedFlagsExact'
<1>1. /\ nodeCount \in Nat
      /\ nodeCount' = nodeCount + 1
      /\ parent' = AddEntries(parent, 1, pid)
  BY BoundsAssumption DEF TypeOK, AddExtraChild
<1>2. /\ Nodes' = 0 .. nodeCount + 1 - 1
      /\ Nodes \subseteq Nodes'
  BY <1>1, Grows DEF Extends
<1>3. /\ \A d \in Nodes : Ancestors(d)' = Ancestors(d)
      /\ \A d \in Nodes' : d \notin Nodes => Ancestors(d)' = {d} \cup Ancestors(pid)
      /\ \A d \in Nodes : d \in Ancestors(d) /\ Ancestors(d) \subseteq Nodes
  BY <1>1, SubtreesGrow
<1>4. ASSUME NEW d \in Nodes'
      PROVE  /\ status'[d] = IF d \in Nodes THEN status[d] ELSE "UNDETERMINED"
             /\ hasSolved'[d] = IF d \in Nodes THEN hasSolved[d] ELSE FALSE
  <2>1. d \in 0 .. nodeCount + 1 - 1 /\ (d < nodeCount <=> d \in Nodes)
    BY <1>1, <1>2 DEF Nodes
  <2> QED BY <2>1 DEF AddExtraChild, AddEntries
<1>5. ASSUME NEW n \in Nodes'
      PROVE  hasSolved'[n] <=> \E d \in Nodes' : n \in Ancestors(d)' /\ status'[d] = "SOLVED"
  <2>1. CASE n \in Nodes
    <3>1. hasSolved[n] <=> \E d \in Nodes : n \in Ancestors(d) /\ status[d] = "SOLVED"
      BY <2>1 DEF SolvedFlagsExact, Subtree
    <3> QED BY <1>2, <1>3, <1>4, <2>1, <3>1
  <2>2. CASE n \notin Nodes
    BY <1>3, <1>4, <2>2
  <2> QED BY <2>1, <2>2
<1> QED BY <1>5 DEF SolvedFlagsExact, Subtree

\* Nothing is solved in a new tree.
LEMMA SolvedFlagsStart ==
  /\ Init => SolvedFlagsExact
  /\ \A k \in 0 .. MaxKids : CreateRoot(k) => SolvedFlagsExact'
<1>1. ASSUME Init PROVE SolvedFlagsExact
  <2>1. \A n \in Nodes : ~hasSolved[n] /\ status[n] # "SOLVED"
    <3>1. CASE restarts
      BY <1>1, <3>1 DEF Init, RootWith, Nodes, Root
    <3>2. CASE ~restarts
      BY <1>1, <3>2 DEF Init, Nodes
    <3> QED BY <3>1, <3>2
  <2> QED BY <2>1 DEF SolvedFlagsExact, Subtree
<1>2. ASSUME NEW k \in 0 .. MaxKids, CreateRoot(k) PROVE SolvedFlagsExact'
  <2>1. Nodes' = 0 .. k
    BY <1>2, BoundsAssumption DEF CreateRoot, RootWith, Nodes
  <2>2. \A n \in Nodes' : ~hasSolved'[n] /\ status'[n] # "SOLVED"
    BY <1>2, <2>1 DEF CreateRoot, RootWith
  <2> QED BY <2>2 DEF SolvedFlagsExact, Subtree
<1> QED BY <1>1, <1>2

-----------------------------------------------------------------------------
(* The invariant of the tree *)

\* The execution of a restart-based search has its dummy root from the start.
DummyRoot == restarts => Root \in Nodes

TreeInv ==
  /\ TypeOK
  /\ DummyRoot
  /\ TreeShape
  /\ SolvedFlagsExact

\* The invariant holds at the start ...
LEMMA TreeInvInit == Init => TreeInv
<1>1. Init => DummyRoot
  BY DEF Init, RootWith, DummyRoot, Nodes, Root
<1> QED BY <1>1, TypeInit, ShapeInit, SolvedFlagsStart DEF TreeInv

\* ... and is kept by every operation of the tree.
LEMMA TreeInvStep == TreeInv /\ [Next]_vars => TreeInv'
<1> SUFFICES ASSUME TreeInv, [Next]_vars PROVE TreeInv'
  OBVIOUS
<1>1. ASSUME NEW k \in 0 .. MaxKids, ~restarts, CreateRoot(k) PROVE TreeInv'
  <2>1. DummyRoot'
    BY <1>1 DEF CreateRoot, DummyRoot
  <2> QED BY <1>1, <2>1, CreateRootType, CreateRootShape, SolvedFlagsStart DEF TreeInv
<1>2. ASSUME NEW pid \in Nodes, NEW alt \in 0 .. nodeCount, NEW r \in Reports,
             PromoteNode(pid, alt, r)
      PROVE  TreeInv'
  <2>1. PICK nid \in Nodes, k \in Nat, st \in NodeStatus :
          status[nid] = "UNDETERMINED" /\ Promote(nid, k, st)
    BY <1>2, PromotedNode DEF TreeInv
  <2>2. TypeOK'
    BY <2>1, PromoteType DEF TreeInv
  <2>3. DummyRoot'
    <3>1. nodeCount' = nodeCount + k /\ nodeCount \in Nat /\ restarts' = restarts
      BY <2>1, BoundsAssumption DEF Promote, TreeInv, TypeOK
    <3> QED BY <3>1 DEF TreeInv, DummyRoot, Nodes, Root
  <2>4. TreeShape'
    BY <2>1, <2>2, PromoteHangs, ShapeKept DEF TreeInv
  <2>5. SolvedFlagsExact'
    BY <2>1, PromoteSolvedFlags DEF TreeInv
  <2> QED BY <2>2, <2>3, <2>4, <2>5 DEF TreeInv
<1>3. ASSUME restarts, AddExtraChild(Root) PROVE TreeInv'
  <2>1. Root \in Nodes
    BY <1>3 DEF TreeInv, DummyRoot
  <2>2. TypeOK'
    BY <1>3, <2>1, AddExtraChildType DEF TreeInv
  <2>3. DummyRoot'
    <3>1. nodeCount' = nodeCount + 1 /\ nodeCount \in Nat /\ restarts' = restarts
      BY <1>3, BoundsAssumption DEF AddExtraChild, TreeInv, TypeOK
    <3> QED BY <3>1 DEF TreeInv, DummyRoot, Nodes, Root
  <2>4. TreeShape'
    BY <1>3, <2>1, <2>2, AddExtraChildHangs, ShapeKept DEF TreeInv
  <2>5. SolvedFlagsExact'
    BY <1>3, <2>1, AddExtraChildSolvedFlags DEF TreeInv
  <2> QED BY <2>2, <2>3, <2>4, <2>5 DEF TreeInv
<1>4. CASE UNCHANGED vars
  <2>1. \A n : Ancestors(n)' = Ancestors(n)
    BY <1>4 DEF vars, Nodes, Ancestors
  <2> QED BY <1>4, <2>1 DEF vars, TreeInv, TypeOK, DummyRoot, TreeShape, SolvedFlagsExact,
                            Subtree, Nodes
<1> QED BY <1>1, <1>2, <1>3, <1>4 DEF Next

\* Whatever the builder does with the tree, its maps stay typed and its links
\* consistent, the dummy root of a restart-based search stays there, and
\* hasSolvedChildren stays exact.  Only together are the four inductive: a walk
\* to the root can be followed only through typed links into the tree.
THEOREM TreeInvariant == Spec => []TreeInv
BY TreeInvInit, TreeInvStep, PTL DEF Spec

\* The maps keep an entry for every node, links point into the tree and
\* the counters of the statistics stay counters.
THEOREM TypeCorrect == Spec => []TypeOK
<1>1. TreeInv => TypeOK
  BY DEF TreeInv
<1> QED BY <1>1, TreeInvariant, PTL

\* However the tree grows, parent and child links agree, every node is younger
\* than its parent and no node is listed twice.
THEOREM ShapeCorrect == Spec => []TreeShape
<1>1. TreeInv => TreeShape
  BY DEF TreeInv
<1> QED BY <1>1, TreeInvariant, PTL

\* In every tree, of any size, hasSolvedChildren of a node holds exactly when
\* its subtree has a solution.
THEOREM SolvedFlagsCorrect == Spec => []SolvedFlagsExact
<1>1. TreeInv => SolvedFlagsExact
  BY DEF TreeInv
<1> QED BY <1>1, TreeInvariant, PTL

-----------------------------------------------------------------------------
(* The walks of a well-formed tree *)

\* A walk is its node and the walk of its parent.
LEMMA WalkStep ==
  ASSUME TypeOK, NEW n \in Nodes, parent[n] # NoNode
  PROVE  /\ parent[n] \in Nodes
         /\ Ancestors(n) = {n} \cup Ancestors(parent[n])
<1> DEFINE p == parent[n]
<1>1. p \in Nodes /\ (\A m \in Nodes : parent[m] \in Nodes \cup {NoNode})
  BY DEF TypeOK
<1>2. /\ p \in Ancestors(p) /\ Ancestors(p) \subseteq Nodes /\ Closed(Ancestors(p), parent)
      /\ n \in Ancestors(n) /\ Ancestors(n) \subseteq Nodes /\ Closed(Ancestors(n), parent)
  BY <1>1, UpWalks, AncestorsIsUp
<1>3. Ancestors(n) \subseteq {n} \cup Ancestors(p)
  <2>1. Closed({n} \cup Ancestors(p), parent)
    BY <1>2 DEF Closed
  <2>2. {n} \cup Ancestors(p) \in SUBSET Nodes
    BY <1>2
  <2> QED BY <2>1, <2>2, UpLeast, AncestorsIsUp
<1>4. Ancestors(p) \subseteq Ancestors(n)
  <2>1. p \in Ancestors(n)
    BY <1>2 DEF Closed
  <2> QED BY <1>1, <1>2, <2>1, UpLeast, AncestorsIsUp
<1> QED BY <1>1, <1>2, <1>3, <1>4

\* A walk stays in the tree, goes on to the root, and holds the walks of its nodes.
LEMMA WalkWithin ==
  ASSUME TypeOK, NEW n \in Nodes
  PROVE  /\ n \in Ancestors(n)
         /\ Ancestors(n) \subseteq Nodes
         /\ Closed(Ancestors(n), parent)
         /\ \A a \in Ancestors(n) : Ancestors(a) \subseteq Ancestors(n)
<1>1. \A m \in Nodes : parent[m] \in Nodes \cup {NoNode}
  BY DEF TypeOK
<1>2. n \in Ancestors(n) /\ Ancestors(n) \subseteq Nodes /\ Closed(Ancestors(n), parent)
  BY <1>1, UpWalks, AncestorsIsUp
<1>3. ASSUME NEW a \in Ancestors(n) PROVE Ancestors(a) \subseteq Ancestors(n)
  BY <1>2, <1>3, UpLeast, AncestorsIsUp
<1> QED BY <1>2, <1>3

\* The smallest set with the node and the step.
LEMMA WalkLeast ==
  ASSUME NEW n \in Nodes, NEW S \in SUBSET Nodes, n \in S, Closed(S, parent)
  PROVE  Ancestors(n) \subseteq S
BY UpLeast, AncestorsIsUp

\* The walk of the root is the root.
LEMMA WalkOfRoot ==
  ASSUME TypeOK, TreeShape, Root \in Nodes
  PROVE  Ancestors(Root) = {Root}
<1>1. Closed({Root}, parent)
  BY DEF Closed, TreeShape
<1> QED BY <1>1, WalkLeast, WalkWithin

\* A walk leads to older nodes only.
LEMMA WalkOlder ==
  ASSUME TypeOK, TreeShape, NEW n \in Nodes, NEW a \in Ancestors(n)
  PROVE  a <= n
<1> DEFINE S == {m \in Nodes : m <= n}
<1>1. \A m \in Nodes : m \in Int
  BY DEF Nodes
<1>2. ASSUME NEW m \in S, parent[m] # NoNode PROVE parent[m] \in S
  <2>1. m \in Nodes /\ m <= n /\ parent[m] \in Nodes /\ parent[m] < m
    BY <1>2 DEF TypeOK, TreeShape
  <2>2. m \in Int /\ n \in Int /\ parent[m] \in Int
    BY <1>1, <2>1
  <2>3. parent[m] <= n
    BY <2>1, <2>2
  <2> QED BY <2>1, <2>3
<1>3. Closed(S, parent) /\ n \in S
  BY <1>1, <1>2 DEF Closed
<1> QED BY <1>3, WalkLeast

\* Of two nodes on a walk, one is on the walk of the other.
LEMMA WalkTotal ==
  ASSUME TypeOK, NEW n \in Nodes, NEW a \in Ancestors(n), NEW b \in Ancestors(n)
  PROVE  a \in Ancestors(b) \/ b \in Ancestors(a)
<1> DEFINE S == {m \in Ancestors(n) : b \in Ancestors(m) \/ m \in Ancestors(b)}
<1>1. b \in Nodes /\ n \in S
  BY WalkWithin
<1>2. ASSUME NEW m \in S, parent[m] # NoNode PROVE parent[m] \in S
  <2>1. m \in Nodes /\ parent[m] \in Ancestors(n)
    BY <1>2, WalkWithin DEF Closed
  <2>2. Ancestors(m) = {m} \cup Ancestors(parent[m]) /\ parent[m] \in Nodes
    BY <1>2, <2>1, WalkStep
  <2>3. m \in Ancestors(b) => parent[m] \in Ancestors(b)
    BY <1>1, <1>2, WalkWithin DEF Closed
  <2>4. b \in Ancestors(m) => m \in Ancestors(b) \/ b \in Ancestors(parent[m])
    BY <1>1, <2>2, WalkWithin
  <2> QED BY <2>1, <2>3, <2>4
<1>3. S \in SUBSET Nodes
  BY WalkWithin
<1>4. Ancestors(n) \subseteq S
  BY <1>1, <1>2, <1>3, WalkLeast DEF Closed
<1> QED BY <1>4

\* Of the children of a node, at most one is on a walk.
LEMMA OneChildOnWalk ==
  ASSUME TypeOK, TreeShape, NEW n \in Nodes,
         NEW a \in Ancestors(n), NEW b \in Ancestors(n),
         parent[a] = parent[b], parent[a] # NoNode
  PROVE  a = b
<1>1. a \in Nodes /\ b \in Nodes /\ \A m \in Nodes : m \in Int
  BY WalkWithin DEF Nodes
<1>2. ASSUME NEW x \in {a, b}, NEW y \in {a, b}, x \in Ancestors(y)
      PROVE  x = y
  <2>1. x \in Nodes /\ y \in Nodes /\ parent[x] = parent[y] /\ parent[y] # NoNode
    BY <1>1
  <2>2. Ancestors(y) = {y} \cup Ancestors(parent[x]) /\ parent[x] \in Nodes
    BY <2>1, WalkStep
  <2>3. x \notin Ancestors(parent[x])
    <3>1. parent[x] < x
      BY <2>1 DEF TreeShape
    <3>2. x \in Ancestors(parent[x]) => x <= parent[x]
      BY <2>2, WalkOlder
    <3>3. x \in Int /\ parent[x] \in Int
      BY <1>1, <2>1, <2>2
    <3> QED BY <3>1, <3>2, <3>3
  <2> QED BY <1>2, <2>2, <2>3
<1> QED BY <1>2, WalkTotal

\* A subtree is its node and the subtrees of its children.
LEMMA SubtreeSplit ==
  ASSUME TypeOK, TreeShape, NEW p \in Nodes, NEW d \in Subtree(p), d # p
  PROVE  \E i \in DOMAIN kids[p] :
           /\ kids[p][i] \in Nodes
           /\ parent[kids[p][i]] = p
           /\ kids[p][i] # Root
           /\ kids[p][i] \in Ancestors(d)
<1>1. d \in Nodes /\ p \in Ancestors(d) /\ p # NoNode
  BY DEF Subtree, Nodes, NoNode
<1>2. \E m \in Ancestors(d) : parent[m] = p
  <2> SUFFICES ASSUME \A m \in Ancestors(d) : parent[m] # p PROVE FALSE
    OBVIOUS
  <2> DEFINE S == Ancestors(d) \ {p}
  <2>1. d \in S /\ S \in SUBSET Nodes
    BY <1>1, WalkWithin
  <2>2. Closed(S, parent)
    BY <1>1, WalkWithin DEF Closed
  <2> QED BY <1>1, <2>1, <2>2, WalkLeast
<1>3. PICK m \in Ancestors(d) : parent[m] = p
  BY <1>2
<1>4. m \in Nodes /\ m # Root
  BY <1>1, <1>3, WalkWithin DEF TreeShape
<1>5. PICK i \in DOMAIN kids[p] : kids[p][i] = m
  BY <1>3, <1>4 DEF TreeShape
<1> QED BY <1>3, <1>4, <1>5

\* What hangs below a child hangs below its parent.
LEMMA SubtreeHolds ==
  ASSUME TypeOK, TreeShape, NEW p \in Nodes, NEW i \in DOMAIN kids[p]
  PROVE  /\ kids[p][i] \in Nodes
         /\ parent[kids[p][i]] = p
         /\ kids[p][i] # Root
         /\ kids[p][i] \in Subtree(kids[p][i])
         /\ Subtree(kids[p][i]) \subseteq Subtree(p)
<1>1. kids[p][i] \in Nodes /\ parent[kids[p][i]] = p /\ p # NoNode
  <2>1. kids[p] \in Seq(Nodes)
    BY DEF TypeOK
  <2>2. kids[p][i] \in Nodes
    BY <2>1
  <2>3. p # NoNode
    BY DEF Nodes, NoNode
  <2> QED BY <2>2, <2>3 DEF TreeShape
<1>2. kids[p][i] # Root
  BY <1>1 DEF TreeShape
<1>3. \A d \in Nodes : kids[p][i] \in Ancestors(d) => p \in Ancestors(d)
  BY <1>1, WalkWithin DEF Closed
<1> QED BY <1>1, <1>2, <1>3, WalkWithin DEF Subtree

-----------------------------------------------------------------------------
(* What a report changes *)

\* What the solver reports: a closing status without children, or a branch.
LEMMA PromotedReport ==
  ASSUME TypeOK, NEW pid \in Nodes, NEW alt \in 0 .. nodeCount, NEW r \in Reports,
         PromoteNode(pid, alt, r)
  PROVE  \E nid \in Nodes, k \in Nat, st \in NodeStatus :
           /\ status[nid] = "UNDETERMINED"
           /\ (k = 0 /\ IsClosing(st)) \/ st = "BRANCH"
           /\ nid = GetChild(pid, alt) /\ k = r.kids /\ st = r.status
           /\ Promote(nid, k, st)
<1> DEFINE nid == GetChild(pid, alt)
<1>1. nid \in Nodes
  BY DEF PromoteNode, GetChild, ChildrenCount, TypeOK
<1>2. /\ r.kids \in Nat /\ r.status \in NodeStatus
      /\ (r.kids = 0 /\ IsClosing(r.status)) \/ r.status = "BRANCH"
  BY BoundsAssumption DEF Reports, NodeStatus, IsClosing
<1> QED BY <1>1, <1>2 DEF PromoteNode

\* The entries after a promotion.
LEMMA PromotedMaps ==
  ASSUME TypeOK, NEW nid \in Nodes, NEW k \in Nat, NEW st \in NodeStatus,
         Promote(nid, k, st)
  PROVE  /\ nodeCount \in Nat /\ nodeCount' = nodeCount + k
         /\ Nodes' = 0 .. nodeCount + k - 1 /\ Nodes \subseteq Nodes'
         /\ \A d \in Nodes : Ancestors(d)' = Ancestors(d)
         /\ \A d \in Nodes' : d \notin Nodes => Ancestors(d)' = {d} \cup Ancestors(nid)
         /\ status'[nid] = st
         /\ \A d \in Nodes \ {nid} : status'[d] = status[d] /\ kids'[d] = kids[d]
         /\ \A d \in Nodes' : d \notin Nodes => status'[d] = "UNDETERMINED" /\ kids'[d] = <<>>
         /\ k = 0 => Nodes' = Nodes /\ kids'[nid] = kids[nid]
         /\ \A n \in Nodes : hasOpen'[n] <=>
              hasOpen[n] /\ ~(IsClosing(st) /\ n \in ClosedBy(nid, status'))
         /\ \A n \in Nodes' : n \notin Nodes => hasOpen'[n]
         /\ restarts' = restarts
<1>1. /\ nodeCount \in Nat
      /\ nodeCount' = nodeCount + k
      /\ parent' = AddEntries(parent, k, nid)
      /\ restarts' = restarts
  BY BoundsAssumption DEF TypeOK, Promote
<1>2. Nodes' = 0 .. nodeCount + k - 1 /\ Nodes \subseteq Nodes'
  BY <1>1, Grows DEF Extends
<1>3. /\ \A d \in Nodes : Ancestors(d)' = Ancestors(d)
      /\ \A d \in Nodes' : d \notin Nodes => Ancestors(d)' = {d} \cup Ancestors(nid)
  BY <1>1, SubtreesGrow
<1>4. \A d \in Nodes' : d < nodeCount <=> d \in Nodes
  BY <1>1, <1>2 DEF Nodes
<1>5. status' = [AddEntries(status, k, "UNDETERMINED") EXCEPT ![nid] = st]
  BY DEF Promote
<1>6. /\ status'[nid] = st
      /\ \A d \in Nodes \ {nid} : status'[d] = status[d]
      /\ \A d \in Nodes' : d \notin Nodes => status'[d] = "UNDETERMINED"
  BY <1>2, <1>4, <1>5 DEF AddEntries
<1>7. /\ \A d \in Nodes \ {nid} : kids'[d] = kids[d]
      /\ \A d \in Nodes' : d \notin Nodes => kids'[d] = <<>>
      /\ k = 0 => kids'[nid] = kids[nid]
  <2>1. kids' = [AddEntries(kids, k, <<>>) EXCEPT ![nid] = IF k > 0 THEN NewKids(k) ELSE @]
    BY DEF Promote
  <2> QED BY <1>2, <1>4, <2>1 DEF AddEntries
<1>8. k = 0 => Nodes' = Nodes
  BY <1>1, <1>2 DEF Nodes
<1>9. /\ \A n \in Nodes : hasOpen'[n] <=>
           hasOpen[n] /\ ~(IsClosing(st) /\ n \in ClosedBy(nid, status'))
      /\ \A n \in Nodes' : n \notin Nodes => hasOpen'[n]
  <2>1. hasOpen' = [n \in 0 .. nodeCount + k - 1 |->
                      /\ n \notin (IF IsClosing(st) THEN ClosedBy(nid, status') ELSE {})
                      /\ AddEntries(hasOpen, k, TRUE)[n]]
    BY <1>5 DEF Promote
  <2>2. /\ ClosedBy(nid, status') \subseteq Nodes
        /\ hasOpen \in [Nodes -> BOOLEAN]
    BY DEF ClosedBy, TypeOK
  <2>3. \A n \in Nodes' : AddEntries(hasOpen, k, TRUE)[n] = IF n \in Nodes THEN hasOpen[n] ELSE TRUE
    BY <1>2, <1>4 DEF AddEntries
  <2> QED BY <1>2, <2>1, <2>2, <2>3
<1> QED BY <1>1, <1>2, <1>3, <1>6, <1>7, <1>8, <1>9

-----------------------------------------------------------------------------
(* The statistics: the counters and the depth that promoteNode and         *)
(* addExtraChild update by what they change are the numbers of nodes with  *)
(* each status and the length of the longest walk.                         *)

\* The nodes counted by one counter.
With(st) == {n \in Nodes : status[n] = st}

\* There are finitely many of them.
LEMMA WithFinite ==
  TypeOK => \A st : IsFiniteSet(With(st)) /\ Cardinality(With(st)) \in Nat
<1> SUFFICES ASSUME TypeOK, NEW st PROVE IsFiniteSet(With(st)) /\ Cardinality(With(st)) \in Nat
  OBVIOUS
<1>1. IsFiniteSet(Nodes)
  BY FS_Interval DEF TypeOK, Nodes
<1>2. With(st) \subseteq Nodes
  BY DEF With
<1>3. IsFiniteSet(With(st))
  BY <1>1, <1>2, FS_Subset
<1> QED BY <1>3, FS_CardinalityType

\* k new entries, from the next NodeID on.
LEMMA NewEntries ==
  ASSUME NEW c \in Nat, NEW k \in Nat
  PROVE  IsFiniteSet(c .. c + k - 1) /\ Cardinality(c .. c + k - 1) = k
<1>1. IsFiniteSet(c .. c + k - 1)
  BY FS_Interval
<1>2. CASE k = 0
  <2>1. c > c + k - 1 /\ c \in Int /\ c + k - 1 \in Int
    BY <1>2
  <2> QED BY <1>1, <1>2, <2>1, FS_Interval
<1>3. CASE k > 0
  <2>1. ~(c > c + k - 1) /\ c \in Int /\ c + k - 1 \in Int
    BY <1>3
  <2>2. Cardinality(c .. c + k - 1) = c + k - 1 - c + 1
    BY <2>1, FS_Interval
  <2> QED BY <1>1, <2>2
<1> QED BY <1>2, <1>3

\* A node moves from the undetermined ones to those with its status, and its
\* children join the undetermined ones.
LEMMA PromoteCounts ==
  ASSUME TypeOK, NEW nid \in Nodes, status[nid] = "UNDETERMINED", NEW k \in Nat,
         NEW st \in NodeStatus, st # "UNDETERMINED", Promote(nid, k, st)
  PROVE  /\ Cardinality(With(st)') = Cardinality(With(st)) + 1
         /\ Cardinality(With("UNDETERMINED")') = Cardinality(With("UNDETERMINED")) + k - 1
         /\ \A s \in NodeStatus \ {st, "UNDETERMINED"} : With(s)' = With(s)
<1> DEFINE U == With("UNDETERMINED")
           new == nodeCount .. nodeCount + k - 1
<1>1. /\ nodeCount \in Nat /\ nodeCount' = nodeCount + k
      /\ Nodes' = 0 .. nodeCount + k - 1 /\ Nodes \subseteq Nodes'
      /\ status'[nid] = st
      /\ \A d \in Nodes \ {nid} : status'[d] = status[d]
      /\ \A d \in Nodes' : d \notin Nodes => status'[d] = "UNDETERMINED"
  BY PromotedMaps
<1>2. Nodes' = Nodes \cup new /\ Nodes \cap new = {}
  BY <1>1 DEF Nodes
<1>3. With(st)' = With(st) \cup {nid} /\ nid \notin With(st)
  BY <1>1 DEF With
<1>4. Cardinality(With(st)') = Cardinality(With(st)) + 1
  BY <1>3, WithFinite, FS_AddElement
<1>5. U' = (U \ {nid}) \cup new /\ nid \in U /\ (U \ {nid}) \cap new = {}
  BY <1>1, <1>2 DEF With
<1>6. /\ IsFiniteSet(U \ {nid}) /\ Cardinality(U \ {nid}) = Cardinality(U) - 1
      /\ Cardinality(U) \in Nat
  BY <1>5, WithFinite, FS_RemoveElement
<1>7. IsFiniteSet(new) /\ Cardinality(new) = k
  BY <1>1, NewEntries
<1>8. Cardinality(U') = Cardinality(U) + k - 1
  <2> HIDE DEF U, new
  <2>1. Cardinality((U \ {nid}) \cup new) =
          Cardinality(U \ {nid}) + Cardinality(new) - Cardinality((U \ {nid}) \cap new)
    BY <1>6, <1>7, FS_Union
  <2>2. Cardinality((U \ {nid}) \cap new) = 0
    BY <1>5, FS_EmptySet
  <2> QED BY <1>5, <1>6, <1>7, <2>1, <2>2
<1>9. ASSUME NEW s \in NodeStatus \ {st, "UNDETERMINED"} PROVE With(s)' = With(s)
  BY <1>1, <1>9 DEF With
<1> QED BY <1>4, <1>8, <1>9

\* addNode, subtract_undetermined and add_undetermined keep the counters exact.
LEMMA PromoteStats ==
  ASSUME TypeOK, StatsExact, NEW nid \in Nodes, status[nid] = "UNDETERMINED",
         NEW k \in Nat, NEW st \in {"BRANCH", "FAILED", "SOLVED", "SKIPPED"},
         Promote(nid, k, st)
  PROVE  StatsExact'
<1>1. /\ Cardinality(With(st)') = Cardinality(With(st)) + 1
      /\ Cardinality(With("UNDETERMINED")') = Cardinality(With("UNDETERMINED")) + k - 1
      /\ \A s \in NodeStatus \ {st, "UNDETERMINED"} : With(s)' = With(s)
  BY PromoteCounts DEF NodeStatus
<1>2. \A s : Cardinality(With(s)) \in Nat
  BY WithFinite
<1>3. /\ stats.branch = Cardinality(With("BRANCH"))
      /\ stats.failed = Cardinality(With("FAILED"))
      /\ stats.solved = Cardinality(With("SOLVED"))
      /\ stats.skipped = Cardinality(With("SKIPPED"))
      /\ stats.undet = Cardinality(With("UNDETERMINED"))
  BY DEF StatsExact, With
<1>4. \E depth : stats' = StatsAfter(k, st, depth)
  BY DEF Promote
<1>5. /\ stats'.branch = stats.branch + (IF st = "BRANCH" THEN 1 ELSE 0)
      /\ stats'.failed = stats.failed + (IF st = "FAILED" THEN 1 ELSE 0)
      /\ stats'.solved = stats.solved + (IF st = "SOLVED" THEN 1 ELSE 0)
      /\ stats'.skipped = stats.skipped + (IF st = "SKIPPED" THEN 1 ELSE 0)
      /\ stats'.undet = stats.undet + k - 1 + (IF st = "UNDETERMINED" THEN 1 ELSE 0)
  BY <1>4 DEF StatsAfter
<1>6. \A s \in {"BRANCH", "FAILED", "SOLVED", "SKIPPED"} :
        Cardinality(With(s)') = Cardinality(With(s)) + (IF st = s THEN 1 ELSE 0)
  BY <1>1, <1>2 DEF NodeStatus
<1>7. /\ stats'.branch = Cardinality(With("BRANCH")')
      /\ stats'.failed = Cardinality(With("FAILED")')
      /\ stats'.solved = Cardinality(With("SOLVED")')
      /\ stats'.skipped = Cardinality(With("SKIPPED")')
      /\ stats'.undet = Cardinality(With("UNDETERMINED")')
  BY <1>1, <1>2, <1>3, <1>5, <1>6
<1> QED BY <1>7 DEF StatsExact, With

\* A new node below the dummy root is one more undetermined one.
LEMMA ExtraChildStats ==
  ASSUME TypeOK, StatsExact, AddExtraChild(Root)
  PROVE  StatsExact'
<1>1. nodeCount \in Nat /\ nodeCount' = nodeCount + 1
  BY BoundsAssumption DEF TypeOK, AddExtraChild
<1>2. /\ Nodes' = 0 .. nodeCount + 1 - 1 /\ Nodes' = Nodes \cup {nodeCount}
      /\ nodeCount \notin Nodes
      /\ \A d \in Nodes' : d < nodeCount <=> d \in Nodes
  BY <1>1 DEF Nodes
<1>3. /\ \A d \in Nodes : status'[d] = status[d]
      /\ status'[nodeCount] = "UNDETERMINED"
  BY <1>2 DEF AddExtraChild, AddEntries
<1>4. /\ With("UNDETERMINED")' = With("UNDETERMINED") \cup {nodeCount}
      /\ nodeCount \notin With("UNDETERMINED")
      /\ \A s : s # "UNDETERMINED" => With(s)' = With(s)
  BY <1>2, <1>3 DEF With
<1>5. Cardinality(With("UNDETERMINED")') = Cardinality(With("UNDETERMINED")) + 1
  BY <1>4, WithFinite, FS_AddElement
<1>6. stats' = [stats EXCEPT !.undet = @ + 1]
  BY DEF AddExtraChild
<1>7. /\ stats'.branch = stats.branch /\ stats'.failed = stats.failed
      /\ stats'.solved = stats.solved /\ stats'.skipped = stats.skipped
      /\ stats'.undet = stats.undet + 1
  BY <1>6 DEF TypeOK
<1>8. /\ stats.branch = Cardinality(With("BRANCH"))
      /\ stats.failed = Cardinality(With("FAILED"))
      /\ stats.solved = Cardinality(With("SOLVED"))
      /\ stats.skipped = Cardinality(With("SKIPPED"))
      /\ stats.undet = Cardinality(With("UNDETERMINED"))
  BY DEF StatsExact, With
<1>9. /\ stats'.branch = Cardinality(With("BRANCH")')
      /\ stats'.failed = Cardinality(With("FAILED")')
      /\ stats'.solved = Cardinality(With("SOLVED")')
      /\ stats'.skipped = Cardinality(With("SKIPPED")')
      /\ stats'.undet = Cardinality(With("UNDETERMINED")')
  BY <1>4, <1>5, <1>7, <1>8
<1> QED BY <1>9 DEF StatsExact, With
-----------------------------------------------------------------------------
(* The depth *)

\* WalkStep for all nodes of a state, so that it can be said of the next one.
LEMMA WalkSteps ==
  TypeOK => \A m \in Nodes : parent[m] # NoNode => Ancestors(m) = {m} \cup Ancestors(parent[m])
BY WalkStep

\* Old nodes keep their depth, a new one is one deeper than its parent.
LEMMA DepthGrows ==
  ASSUME TypeOK, NEW nid \in Nodes, NEW k \in Nat,
         nodeCount' = nodeCount + k, parent' = AddEntries(parent, k, nid)
  PROVE  /\ \A d \in Nodes : Depth(d)' = Depth(d)
         /\ \A d \in Nodes' : d \notin Nodes => Depth(d)' = Depth(nid) + 1
         /\ \A d \in Nodes : Depth(d) \in Nat
<1>1. /\ \A d \in Nodes : Ancestors(d)' = Ancestors(d)
      /\ \A d \in Nodes' : d \notin Nodes => Ancestors(d)' = {d} \cup Ancestors(nid)
      /\ \A d \in Nodes : Ancestors(d) \subseteq Nodes
  BY SubtreesGrow
<1>2. ASSUME NEW d \in Nodes PROVE Depth(d)' = Depth(d) /\ Depth(d) \in Nat
  BY <1>1, DepthType DEF Depth
<1>3. ASSUME NEW d \in Nodes', d \notin Nodes PROVE Depth(d)' = Depth(nid) + 1
  <2>1. IsFiniteSet(Ancestors(nid))
    <3>1. IsFiniteSet(Nodes)
      BY FS_Interval DEF TypeOK, Nodes
    <3> QED BY <1>1, <3>1, FS_Subset
  <2>2. d \notin Ancestors(nid) /\ Ancestors(d)' = Ancestors(nid) \cup {d}
    BY <1>1, <1>3
  <2> QED BY <2>1, <2>2, FS_AddElement DEF Depth
<1> QED BY <1>2, <1>3

\* inform_depth, told only when a node gets children, keeps the depth exact.
LEMMA PromoteDepth ==
  ASSUME TypeOK, TreeShape, DepthExact, NEW nid \in Nodes, NEW k \in Nat,
         NEW st \in NodeStatus, Promote(nid, k, st)
  PROVE  DepthExact'
<1>1. /\ nodeCount \in Nat /\ nodeCount' = nodeCount + k /\ nodeCount > 0
      /\ parent' = AddEntries(parent, k, nid) /\ restarts' = restarts
      /\ stats.maxDepth \in Nat
  BY BoundsAssumption DEF TypeOK, Promote, Nodes
<1>2. /\ \A d \in Nodes : Depth(d)' = Depth(d)
      /\ \A d \in Nodes' : d \notin Nodes => Depth(d)' = Depth(nid) + 1
      /\ \A d \in Nodes : Depth(d) \in Nat
  BY <1>1, DepthGrows
<1>3. /\ Nodes \subseteq Nodes'
      /\ \A d \in Nodes : parent'[d] = parent[d]
  BY <1>1, Grows DEF Extends
<1>4. stats'.maxDepth = IF k > 0 THEN Larger(stats.maxDepth, Depth(nid) + 1) ELSE stats.maxDepth
  <2>1. stats' = StatsAfter(k, st, IF k > 0 THEN Depth(nid) + 1 ELSE 0)
    BY DEF Promote
  <2>2. stats'.maxDepth = Larger(stats.maxDepth, IF k > 0 THEN Depth(nid) + 1 ELSE 0)
    BY <2>1 DEF StatsAfter
  <2> QED BY <1>1, <2>2 DEF Larger
<1>5. /\ stats'.maxDepth \in Nat /\ stats.maxDepth <= stats'.maxDepth
      /\ k > 0 => Depth(nid) + 1 <= stats'.maxDepth
      /\ \/ stats'.maxDepth = stats.maxDepth
         \/ k > 0 /\ stats'.maxDepth = Depth(nid) + 1
  BY <1>1, <1>2, <1>4 DEF Larger
<1>6. ASSUME NEW d \in Nodes'
      PROVE  Depth(d)' <= stats'.maxDepth \/ (restarts' /\ parent'[d] = Root)
  <2>1. CASE d \in Nodes
    <3>1. Depth(d) <= stats.maxDepth \/ (restarts /\ parent[d] = Root)
      BY <1>1, <2>1 DEF DepthExact
    <3> QED BY <1>1, <1>2, <1>3, <1>5, <2>1, <3>1
  <2>2. CASE d \notin Nodes
    <3>1. k > 0
      BY <1>1, <2>2 DEF Nodes
    <3> QED BY <1>2, <1>5, <2>2, <3>1
  <2> QED BY <2>1, <2>2
<1>7. \E d \in Nodes' : Depth(d)' = stats'.maxDepth
  <2>1. CASE stats'.maxDepth = stats.maxDepth
    <3>1. \E d \in Nodes : Depth(d) = stats.maxDepth
      BY <1>1 DEF DepthExact
    <3> QED BY <1>2, <1>3, <2>1, <3>1
  <2>2. CASE k > 0 /\ stats'.maxDepth = Depth(nid) + 1
    <3>1. nodeCount \in Nodes' /\ nodeCount \notin Nodes
      BY <1>1, <2>2 DEF Nodes
    <3> QED BY <1>2, <2>2, <3>1
  <2> QED BY <1>5, <2>1, <2>2
<1> QED BY <1>6, <1>7 DEF DepthExact

\* addExtraChild tells no depth; the root of the restart is excused until its
\* own children are there.
LEMMA ExtraChildDepth ==
  ASSUME TypeOK, DepthExact, restarts, Root \in Nodes, AddExtraChild(Root)
  PROVE  DepthExact'
<1>1. /\ nodeCount \in Nat /\ nodeCount' = nodeCount + 1 /\ nodeCount > 0
      /\ parent' = AddEntries(parent, 1, Root) /\ restarts'
      /\ stats'.maxDepth = stats.maxDepth
  BY BoundsAssumption DEF TypeOK, AddExtraChild, Nodes
<1>2. \A d \in Nodes : Depth(d)' = Depth(d)
  BY <1>1, DepthGrows
<1>3. /\ Nodes \subseteq Nodes'
      /\ \A d \in Nodes : parent'[d] = parent[d]
      /\ \A d \in Nodes' \ Nodes : parent'[d] = Root
  BY <1>1, Grows DEF Extends
<1> QED BY <1>1, <1>2, <1>3 DEF DepthExact

-----------------------------------------------------------------------------
(* The invariant *)

StatsInv == TreeInv /\ NodeStatsExact

\* An execution starts with nothing counted, or with its dummy root.
LEMMA StatsInit == Init => NodeStatsExact
<1> SUFFICES ASSUME Init PROVE NodeStatsExact
  OBVIOUS
<1>0. TypeOK /\ TreeShape
  BY TypeInit, ShapeInit
<1>1. CASE restarts
  <2>1. /\ Nodes = {Root} /\ status[Root] = "BRANCH" /\ nodeCount = 1
        /\ stats = [branch |-> 1, failed |-> 0, solved |-> 0, skipped |-> 0,
                    undet |-> 0, maxDepth |-> 1]
    BY <1>1 DEF Init, RootWith, Nodes, Root
  <2>2. /\ With("BRANCH") = {Root}
        /\ With("FAILED") = {} /\ With("SOLVED") = {} /\ With("SKIPPED") = {}
        /\ With("UNDETERMINED") = {}
    BY <2>1 DEF With
  <2>3. Cardinality({Root}) = 1 /\ Cardinality({}) = 0
    BY FS_Singleton, FS_EmptySet
  <2>4. StatsExact
    BY <2>1, <2>2, <2>3 DEF StatsExact, With
  <2>5. Depth(Root) = 1
    BY <1>0, <2>1, <2>3, WalkOfRoot DEF Depth
  <2>6. DepthExact
    BY <2>1, <2>5 DEF DepthExact
  <2> QED BY <2>4, <2>6 DEF NodeStatsExact
<1>2. CASE ~restarts
  <2>1. /\ Nodes = {} /\ nodeCount = 0
        /\ stats = [branch |-> 0, failed |-> 0, solved |-> 0, skipped |-> 0,
                    undet |-> 0, maxDepth |-> 0]
    BY <1>2 DEF Init, Nodes
  <2>2. \A st : With(st) = {}
    BY <2>1 DEF With
  <2>3. Cardinality({}) = 0
    BY FS_EmptySet
  <2> QED BY <2>1, <2>2, <2>3 DEF NodeStatsExact, StatsExact, DepthExact, With
<1> QED BY <1>1, <1>2

\* createRoot counts the root as a branch and its children as undetermined.
LEMMA CreateRootStats ==
  ASSUME TypeOK, TypeOK', TreeShape', NEW k \in 0 .. MaxKids, CreateRoot(k)
  PROVE  NodeStatsExact'
<1>1. /\ k \in Nat /\ Nodes' = 0 .. k /\ nodeCount' = k + 1
      /\ parent' = [n \in 0 .. k |-> IF n = Root THEN NoNode ELSE Root]
      /\ status' = [n \in 0 .. k |-> IF n = Root THEN "BRANCH" ELSE "UNDETERMINED"]
      /\ stats' = [branch |-> 1, failed |-> 0, solved |-> 0, skipped |-> 0,
                   undet |-> k, maxDepth |-> IF k > 0 THEN 2 ELSE 1]
  BY BoundsAssumption DEF CreateRoot, RootWith, Nodes
<1>2. /\ With("BRANCH")' = {Root}
      /\ With("FAILED")' = {} /\ With("SOLVED")' = {} /\ With("SKIPPED")' = {}
      /\ With("UNDETERMINED")' = 1 .. 1 + k - 1
  BY <1>1 DEF With, Root
<1>3. /\ Cardinality({Root}) = 1 /\ Cardinality({}) = 0
      /\ Cardinality(1 .. 1 + k - 1) = k
  BY <1>1, FS_Singleton, FS_EmptySet, NewEntries
<1>4. StatsExact'
  BY <1>1, <1>2, <1>3 DEF StatsExact, With
<1>5. (TypeOK /\ TreeShape /\ Root \in Nodes => Ancestors(Root) = {Root})'
  BY WalkOfRoot, PTL
<1>6. Root \in Nodes' /\ Ancestors(Root)' = {Root}
  BY <1>1, <1>5 DEF Root
<1>7. ASSUME NEW n \in Nodes', n # Root PROVE Ancestors(n)' = {n} \cup {Root}
  <2>1. (TypeOK => \A m \in Nodes : parent[m] # NoNode =>
           Ancestors(m) = {m} \cup Ancestors(parent[m]))'
    BY WalkSteps, PTL
  <2>2. parent'[n] = Root /\ Root # NoNode
    BY <1>1, <1>7 DEF Root, NoNode
  <2> QED BY <1>6, <2>1, <2>2
<1>8. /\ Depth(Root)' = 1
      /\ \A n \in Nodes' : n # Root => Depth(n)' = 2
  <2>1. \A n : n # Root => Cardinality({n} \cup {Root}) = 2
    <3> SUFFICES ASSUME NEW n, n # Root PROVE Cardinality({Root} \cup {n}) = 2
      OBVIOUS
    <3>1. IsFiniteSet({Root}) /\ Cardinality({Root}) = 1 /\ n \notin {Root}
      BY FS_Singleton
    <3>2. Cardinality({Root} \cup {n}) = Cardinality({Root}) + 1
      BY <3>1, FS_AddElement
    <3> QED BY <3>1, <3>2
  <2> QED BY <1>3, <1>6, <1>7, <2>1 DEF Depth
<1>9. DepthExact'
  <2>1. CASE k = 0
    <3>1. stats'.maxDepth = 1 /\ \A n \in Nodes' : n = Root
      BY <1>1, <2>1 DEF Root
    <3> QED BY <1>6, <1>8, <3>1 DEF DepthExact
  <2>2. CASE k > 0
    <3>1. stats'.maxDepth = 2 /\ 1 \in Nodes' /\ 1 # Root
      BY <1>1, <2>2 DEF Root
    <3>2. \A n \in Nodes' : Depth(n)' <= 2
      BY <1>8
    <3> QED BY <1>8, <3>1, <3>2 DEF DepthExact
  <2> QED BY <1>1, <2>1, <2>2
<1> QED BY <1>4, <1>9 DEF NodeStatsExact

\* Every operation keeps the statistics exact.
LEMMA StatsInvStep == StatsInv /\ [Next]_vars => StatsInv'
<1> SUFFICES ASSUME StatsInv, [Next]_vars PROVE StatsInv'
  OBVIOUS
<1>1. /\ TreeInv /\ TreeInv' /\ TypeOK /\ TypeOK' /\ TreeShape /\ TreeShape'
      /\ DummyRoot /\ StatsExact /\ DepthExact
  BY TreeInvStep DEF StatsInv, TreeInv, NodeStatsExact
<1>2. ASSUME NEW k \in 0 .. MaxKids, ~restarts, CreateRoot(k) PROVE NodeStatsExact'
  BY <1>1, <1>2, CreateRootStats
<1>3. ASSUME NEW pid \in Nodes, NEW alt \in 0 .. nodeCount, NEW r \in Reports,
             PromoteNode(pid, alt, r)
      PROVE  NodeStatsExact'
  <2>1. PICK nid \in Nodes, k \in Nat, st \in NodeStatus :
          /\ status[nid] = "UNDETERMINED"
          /\ (k = 0 /\ IsClosing(st)) \/ st = "BRANCH"
          /\ Promote(nid, k, st)
    BY <1>1, <1>3, PromotedReport
  <2>2. st \in {"BRANCH", "FAILED", "SOLVED", "SKIPPED"}
    BY <2>1 DEF IsClosing
  <2> QED BY <1>1, <2>1, <2>2, PromoteStats, PromoteDepth DEF NodeStatsExact
<1>4. ASSUME restarts, AddExtraChild(Root) PROVE NodeStatsExact'
  <2>1. Root \in Nodes
    BY <1>1, <1>4 DEF DummyRoot
  <2> QED BY <1>1, <1>4, <2>1, ExtraChildStats, ExtraChildDepth DEF NodeStatsExact
<1>5. ASSUME UNCHANGED vars PROVE NodeStatsExact'
  <2>1. \A n : Depth(n)' = Depth(n)
    BY <1>5 DEF vars, Nodes, Ancestors, Depth
  <2>2. \A st : With(st)' = With(st)
    BY <1>5 DEF vars, With, Nodes
  <2> QED BY <1>1, <1>5, <2>1, <2>2 DEF vars, NodeStatsExact, StatsExact, DepthExact, Nodes, With
<1> QED BY <1>1, <1>2, <1>3, <1>4, <1>5 DEF Next, StatsInv

\* In every tree, of any size, the counters of the status bar are the numbers
\* of nodes with each status and its depth is that of the deepest node; only the
\* root of a restart may not be counted in the depth yet.
THEOREM StatsCorrect == Spec => []NodeStatsExact
<1>1. Init => StatsInv
  BY TreeInvInit, StatsInit DEF StatsInv
<1>2. StatsInv => NodeStatsExact
  BY DEF StatsInv
<1> QED BY <1>1, <1>2, StatsInvStep, PTL DEF Spec

-----------------------------------------------------------------------------
(* What a report closes *)

\* Only branch nodes have children, and the dummy root of a restart-based
\* search is one: a node is reported before its first child is, once.
InnerAreBranches ==
  /\ \A n \in Nodes : kids[n] # <<>> => status[n] = "BRANCH"
  /\ restarts => status[Root] = "BRANCH"

\* An open node has something pending below it: the half of OpenFlagsExact that
\* holds for the dummy root of a restart-based search, too.
OpenIsPending ==
  \A n \in Nodes : hasOpen[n] => \E d \in Subtree(n) : Pending(d)

\* A report without children takes what is pending down by the node reported.
\* Exactly the nodes of the walk from nid are closed that it leaves complete.
LEMMA ClosingReach ==
  ASSUME TypeOK, TreeShape, InnerAreBranches, OpenFlagsExact,
         NEW nid \in Nodes, status[nid] = "UNDETERMINED",
         NEW st, IsClosing(st),
         NEW new, new = [status EXCEPT ![nid] = st],
         NEW n \in Nodes
  PROVE  n \in ClosedBy(nid, new) <=>
           n \in Ancestors(nid) /\ \A d \in Subtree(n) \ {nid} : ~Pending(d)
<1> DEFINE Left(d) == d # nid /\ Pending(d)
           Done(m) == \A d \in Subtree(m) : ~Left(d)
           Spread(S) == /\ nid \in S
                        /\ \A m \in S : parent[m] # NoNode /\ AllClosed(parent[m], S, new)
                                          => parent[m] \in S
<1>1. /\ kids[nid] = <<>>
      /\ status \in [Nodes -> NodeStatus]
      /\ new[nid] # "UNDETERMINED"
      /\ \A d \in Nodes : d # nid => new[d] = status[d]
  BY DEF InnerAreBranches, IsClosing, TypeOK
<1>2. \A S \in SUBSET Nodes : Spread(S) => ClosedBy(nid, new) \subseteq S
  BY DEF ClosedBy
<1>3. ASSUME NEW a \in Nodes, \A S \in SUBSET Nodes : Spread(S) => a \in S
      PROVE  a \in ClosedBy(nid, new)
  BY <1>3 DEF ClosedBy
<1>4. n \in ClosedBy(nid, new) => n \in Ancestors(nid) /\ Done(n)
  <2> DEFINE T == {a \in Ancestors(nid) : Done(a)}
  <2>1. T \in SUBSET Nodes
    BY WalkWithin
  <2>2. nid \in T
    <3>1. \A d \in Subtree(nid) : d = nid
      <4>1. ASSUME NEW d \in Subtree(nid), d # nid PROVE FALSE
        BY <1>1, <4>1, SubtreeSplit
      <4> QED BY <4>1
    <3> QED BY <3>1, WalkWithin
  <2>3. ASSUME NEW m \in T, parent[m] # NoNode, AllClosed(parent[m], T, new)
        PROVE  parent[m] \in T
    <3> DEFINE p == parent[m]
    <3>1. m \in Nodes /\ p \in Ancestors(nid) /\ p \in Nodes
      BY <2>3, WalkWithin, WalkStep DEF Closed
    <3>2. m # Root
      BY <2>3, <3>1 DEF TreeShape
    <3>3. PICK j \in DOMAIN kids[p] : kids[p][j] = m
      BY <3>1, <3>2 DEF TreeShape
    <3>4. p # nid /\ ~Pending(p)
      BY <1>1, <3>1, <3>3 DEF InnerAreBranches, Pending
    <3>5. ASSUME NEW d \in Subtree(p), d # p PROVE ~Left(d)
      <4>1. PICK i \in DOMAIN kids[p] :
              /\ kids[p][i] \in Nodes
              /\ kids[p][i] # Root
              /\ kids[p][i] \in Ancestors(d)
        BY <3>1, <3>5, SubtreeSplit
      <4> DEFINE kid == kids[p][i]
      <4>2. d \in Subtree(kid) /\ ~RestartRoot(kid)
        BY <4>1 DEF Subtree, RestartRoot
      <4>3. hasOpen[kid] => kid \in T
        BY <2>3 DEF AllClosed
      <4>4. CASE kid \in T
        BY <4>2, <4>4
      <4>5. CASE ~hasOpen[kid]
        BY <4>1, <4>2, <4>5 DEF OpenFlagsExact
      <4> QED BY <4>3, <4>4, <4>5
    <3> QED BY <3>1, <3>4, <3>5
  <2>4. ClosedBy(nid, new) \subseteq T
    BY <1>2, <2>1, <2>2, <2>3
  <2> QED BY <2>4
<1>5. ASSUME n \in Ancestors(nid), Done(n) PROVE n \in ClosedBy(nid, new)
  <2> SUFFICES ASSUME NEW S \in SUBSET Nodes, Spread(S) PROVE n \in S
    BY <1>3
  <2> DEFINE T == {a \in Ancestors(nid) : ~Done(a) \/ a \in S}
  <2>1. nid \in T /\ T \in SUBSET Nodes
    BY WalkWithin
  <2>2. ASSUME NEW m \in T, parent[m] # NoNode PROVE parent[m] \in T
    <3> DEFINE p == parent[m]
    <3>1. m \in Nodes /\ p \in Ancestors(nid) /\ p \in Nodes /\ m # Root
      BY <2>2, WalkWithin, WalkStep DEF Closed, TreeShape
    <3>2. PICK j \in DOMAIN kids[p] : kids[p][j] = m
      BY <3>1 DEF TreeShape
    <3>3. \A i \in DOMAIN kids[p] : /\ kids[p][i] \in Nodes
                                    /\ parent[kids[p][i]] = p
                                    /\ kids[p][i] # Root
                                    /\ kids[p][i] \in Subtree(kids[p][i])
                                    /\ Subtree(kids[p][i]) \subseteq Subtree(p)
      BY <3>1, SubtreeHolds
    <3>4. CASE ~Done(m)
      BY <3>1, <3>2, <3>3, <3>4
    <3>5. CASE m \in S /\ AllClosed(p, S, new)
      BY <2>2, <3>1, <3>5
    <3>6. CASE m \in S /\ ~AllClosed(p, S, new)
      <4>1. PICK i \in DOMAIN kids[p] :
              new[kids[p][i]] = "UNDETERMINED" \/ (hasOpen[kids[p][i]] /\ kids[p][i] \notin S)
        BY <3>6 DEF AllClosed
      <4> DEFINE kid == kids[p][i]
      <4>2. kid \in Nodes /\ ~RestartRoot(kid) /\ kid \in Subtree(p)
        BY <3>3 DEF RestartRoot
      <4>3. CASE new[kid] = "UNDETERMINED"
        <5>1. Left(kid)
          BY <1>1, <4>2, <4>3 DEF Pending
        <5> QED BY <3>1, <4>2, <5>1
      <4>4. CASE hasOpen[kid] /\ kid \notin S
        <5>1. PICK d \in Subtree(kid) : Pending(d)
          BY <4>2, <4>4 DEF OpenFlagsExact
        <5>2. d # nid
          <6>1. ASSUME d = nid PROVE kid = m
            <7>1. kid \in Ancestors(nid) /\ parent[kid] = parent[m]
              BY <3>3, <5>1, <6>1 DEF Subtree
            <7> QED BY <2>2, <7>1, OneChildOnWalk
          <6> QED BY <3>6, <4>4, <6>1
        <5> QED BY <3>1, <3>3, <5>1, <5>2
      <4> QED BY <4>1, <4>3, <4>4
    <3> QED BY <2>2, <3>4, <3>5, <3>6
  <2>3. Ancestors(nid) \subseteq T
    BY <2>1, <2>2, WalkLeast DEF Closed
  <2> QED BY <1>5, <2>3
<1> QED BY <1>4, <1>5

-----------------------------------------------------------------------------
(* Every operation keeps the flags and the signals exact *)

\* A report without children leaves the links alone and closes exactly the
\* subtrees it completes; those without a solution are signalled.
LEMMA ReportClosesExactly ==
  ASSUME TypeOK, TreeShape, InnerAreBranches, ClosingExact, OpenIsPending, SolvedFlagsExact',
         NEW nid \in Nodes, status[nid] = "UNDETERMINED",
         NEW st \in NodeStatus, IsClosing(st), Promote(nid, 0, st)
  PROVE  ClosingExact' /\ OpenIsPending'
<1>1. /\ Nodes' = Nodes
      /\ \A d \in Nodes : Ancestors(d)' = Ancestors(d)
      /\ status'[nid] = st
      /\ \A d \in Nodes \ {nid} : status'[d] = status[d] /\ kids'[d] = kids[d]
      /\ kids'[nid] = kids[nid]
      /\ \A n \in Nodes : hasOpen'[n] <=> hasOpen[n] /\ n \notin ClosedBy(nid, status')
      /\ restarts' = restarts
  BY PromotedMaps
<1>2. /\ \A n \in Nodes : Subtree(n)' = Subtree(n)
      /\ \A n \in Nodes : RestartRoot(n)' <=> RestartRoot(n)
      /\ \A n \in Nodes : Subtree(n) \subseteq Nodes
  BY <1>1 DEF Subtree, RestartRoot
<1>3. \A d \in Nodes : Pending(d)' <=> d # nid /\ Pending(d)
  BY <1>1 DEF Pending, IsClosing
<1>4. status' = [status EXCEPT ![nid] = st]
  <2>1. AddEntries(status, 0, "UNDETERMINED") = status
    BY BoundsAssumption DEF AddEntries, TypeOK, Nodes
  <2> QED BY <2>1 DEF Promote
<1>5. ASSUME NEW n \in Nodes
      PROVE  n \in ClosedBy(nid, status') <=>
               n \in Ancestors(nid) /\ \A d \in Subtree(n) : ~Pending(d)'
  <2>1. n \in ClosedBy(nid, status') <=>
          n \in Ancestors(nid) /\ \A d \in Subtree(n) \ {nid} : ~Pending(d)
    BY <1>4, ClosingReach DEF ClosingExact
  <2> QED BY <1>2, <1>3, <2>1
<1>6. ASSUME NEW n \in Nodes, n \in Ancestors(nid)
      PROVE  nid \in Subtree(n) /\ Pending(nid)
  BY <1>6 DEF Subtree, Pending
<1>7. ASSUME NEW n \in Nodes, n \notin Ancestors(nid)
      PROVE  nid \notin Subtree(n)
  BY <1>7 DEF Subtree
<1>8. OpenFlagsExact'
  <2>1. ASSUME NEW n \in Nodes, ~RestartRoot(n)
        PROVE  hasOpen'[n] <=> \E d \in Subtree(n) : Pending(d)'
    <3>1. hasOpen[n] <=> \E d \in Subtree(n) : Pending(d)
      BY <2>1 DEF ClosingExact, OpenFlagsExact
    <3>2. CASE n \in Ancestors(nid)
      BY <1>1, <1>5, <1>6, <3>1, <3>2
    <3>3. CASE n \notin Ancestors(nid)
      BY <1>1, <1>2, <1>3, <1>5, <1>7, <3>1, <3>3
    <3> QED BY <3>2, <3>3
  <2> QED BY <1>1, <1>2, <2>1 DEF OpenFlagsExact
<1>9. CollapsedExact'
  <2>1. collapsed' = collapsed \cup {n \in ClosedBy(nid, status') \ {nid} : ~hasSolved'[n]}
    BY <1>4 DEF Promote
  <2>2. kids[nid] = <<>>
    BY DEF InnerAreBranches
  <2>3. ASSUME NEW n \in Nodes, ~RestartRoot(n)
        PROVE  n \in collapsed' <=>
                 /\ kids[n] # <<>>
                 /\ \A d \in Subtree(n) : ~Pending(d)' /\ status'[d] # "SOLVED"
    <3>1. n \in collapsed <=> /\ kids[n] # <<>>
                              /\ \A d \in Subtree(n) : ~Pending(d) /\ status[d] # "SOLVED"
      BY <2>3 DEF ClosingExact, CollapsedExact
    <3>2. CASE n \notin Ancestors(nid)
      <4>1. n \in collapsed' <=> n \in collapsed
        BY <1>5, <2>1, <3>2
      <4>2. \A d \in Subtree(n) : d # nid /\ d \in Nodes
        BY <1>2, <1>7, <3>2
      <4> QED BY <1>1, <1>3, <3>1, <4>1, <4>2
    <3>3. CASE n = nid
      BY <1>6, <2>1, <2>2, <3>1, <3>3, WalkWithin
    <3>4. CASE n \in Ancestors(nid) /\ n # nid
      <4>1. n \notin collapsed
        BY <1>6, <3>1, <3>4
      <4>2. kids[n] # <<>>
        <5>1. \E i \in DOMAIN kids[n] : kids[n][i] \in Ancestors(nid)
          BY <1>6, <3>4, SubtreeSplit
        <5> QED BY <5>1
      <4>3. ~hasSolved'[n] <=> \A d \in Subtree(n) : status'[d] # "SOLVED"
        BY <1>1, <1>2 DEF SolvedFlagsExact
      <4>4. n \in collapsed' <=> n \in ClosedBy(nid, status') /\ ~hasSolved'[n]
        BY <2>1, <3>4, <4>1
      <4> QED BY <1>5, <3>4, <4>2, <4>3, <4>4
    <3> QED BY <3>2, <3>3, <3>4
  <2>4. \A n \in Nodes : kids'[n] = kids[n]
    BY <1>1
  <2> QED BY <1>1, <1>2, <2>3, <2>4 DEF CollapsedExact
<1>10. OpenIsPending'
  <2>1. ASSUME NEW n \in Nodes, hasOpen'[n] PROVE \E d \in Subtree(n) : Pending(d)'
    <3>1. hasOpen[n] /\ n \notin ClosedBy(nid, status')
      BY <1>1, <2>1
    <3>2. CASE n \in Ancestors(nid)
      BY <1>5, <3>1, <3>2
    <3>3. CASE n \notin Ancestors(nid)
      BY <1>2, <1>3, <1>7, <3>1, <3>3 DEF OpenIsPending
    <3> QED BY <3>2, <3>3
  <2> QED BY <1>1, <1>2, <2>1 DEF OpenIsPending
<1> QED BY <1>8, <1>9, <1>10 DEF ClosingExact

\* A branch node announces what is still to come, so nothing is closed.
LEMMA BranchOpensExactly ==
  ASSUME TypeOK, TreeShape, InnerAreBranches, ClosingExact, OpenIsPending,
         NEW nid \in Nodes, status[nid] = "UNDETERMINED",
         NEW k \in Nat, Promote(nid, k, "BRANCH")
  PROVE  ClosingExact' /\ OpenIsPending'
<1>1. /\ nodeCount \in Nat /\ nodeCount' = nodeCount + k
      /\ Nodes' = 0 .. nodeCount + k - 1 /\ Nodes \subseteq Nodes'
      /\ \A d \in Nodes : Ancestors(d)' = Ancestors(d)
      /\ \A d \in Nodes' : d \notin Nodes => Ancestors(d)' = {d} \cup Ancestors(nid)
      /\ status'[nid] = "BRANCH"
      /\ \A d \in Nodes \ {nid} : status'[d] = status[d] /\ kids'[d] = kids[d]
      /\ \A d \in Nodes' : d \notin Nodes => status'[d] = "UNDETERMINED" /\ kids'[d] = <<>>
      /\ k = 0 => Nodes' = Nodes /\ kids'[nid] = kids[nid]
      /\ \A n \in Nodes : hasOpen'[n] <=> hasOpen[n]
      /\ \A n \in Nodes' : n \notin Nodes => hasOpen'[n]
      /\ restarts' = restarts
  BY PromotedMaps DEF NodeStatus, IsClosing
<1>2. /\ \A d \in Nodes \ {nid} : Pending(d)' <=> Pending(d)
      /\ \A d \in Nodes' : d \notin Nodes => Pending(d)'
  BY <1>1 DEF Pending
<1>3. \A n \in Nodes : n \in Ancestors(nid) =>
        /\ nid \in Subtree(n) /\ Pending(nid)
        /\ \E d \in Subtree(n)' : Pending(d)'
  <2>1. nid \in Nodes' /\ nid \in Ancestors(nid)
    BY <1>1, WalkWithin
  <2>2. CASE k = 0
    <3>1. Pending(nid)'
      BY <1>1, <2>2 DEF Pending, InnerAreBranches
    <3> QED BY <1>1, <2>1, <3>1 DEF Subtree, Pending
  <2>3. CASE k > 0
    <3>1. nodeCount \in Nodes' /\ nodeCount \notin Nodes
      BY <1>1, <2>3 DEF Nodes
    <3> QED BY <1>1, <1>2, <2>1, <3>1 DEF Subtree, Pending
  <2> QED BY <2>2, <2>3
<1>4. ASSUME NEW n \in Nodes, n \notin Ancestors(nid)
      PROVE  Subtree(n)' = Subtree(n) /\ nid \notin Subtree(n)
  BY <1>1, <1>4 DEF Subtree
<1>5. ASSUME NEW n \in Nodes', n \notin Nodes
      PROVE  n \in Subtree(n)' /\ Pending(n)' /\ hasOpen'[n] /\ kids'[n] = <<>>
  BY <1>1, <1>2, <1>5 DEF Subtree
<1>6. \A n \in Nodes' : RestartRoot(n)' <=> RestartRoot(n)
  BY <1>1 DEF RestartRoot
<1>7. OpenFlagsExact'
  <2>1. ASSUME NEW n \in Nodes, ~RestartRoot(n)
        PROVE  hasOpen'[n] <=> \E d \in Subtree(n)' : Pending(d)'
    <3>1. hasOpen[n] <=> \E d \in Subtree(n) : Pending(d)
      BY <2>1 DEF ClosingExact, OpenFlagsExact
    <3>2. CASE n \in Ancestors(nid)
      BY <1>1, <1>3, <3>1, <3>2
    <3>3. CASE n \notin Ancestors(nid)
      BY <1>1, <1>2, <1>4, <3>1, <3>3 DEF Subtree
    <3> QED BY <3>2, <3>3
  <2> QED BY <1>5, <1>6, <2>1 DEF OpenFlagsExact
<1>8. CollapsedExact'
  <2>1. collapsed' = collapsed
    BY DEF Promote, IsClosing
  <2>2. ASSUME NEW n \in Nodes, ~RestartRoot(n)
        PROVE  n \in collapsed <=>
                 /\ kids'[n] # <<>>
                 /\ \A d \in Subtree(n)' : ~Pending(d)' /\ status'[d] # "SOLVED"
    <3>1. n \in collapsed <=> /\ kids[n] # <<>>
                              /\ \A d \in Subtree(n) : ~Pending(d) /\ status[d] # "SOLVED"
      BY <2>2 DEF ClosingExact, CollapsedExact
    <3>2. CASE n \in Ancestors(nid)
      BY <1>3, <3>1, <3>2
    <3>3. CASE n \notin Ancestors(nid)
      <4>1. n # nid
        BY <3>3, WalkWithin
      <4>2. \A d \in Subtree(n) : d \in Nodes \ {nid}
        BY <1>4, <3>3 DEF Subtree
      <4>3. \A d \in Subtree(n) : (Pending(d)' <=> Pending(d)) /\ status'[d] = status[d]
        BY <1>1, <1>2, <4>2
      <4>4. kids'[n] = kids[n] /\ Subtree(n)' = Subtree(n)
        BY <1>1, <1>4, <3>3, <4>1
      <4> QED BY <3>1, <4>3, <4>4
    <3> QED BY <3>2, <3>3
  <2>3. \A n \in Nodes' : n \notin Nodes => n \notin collapsed
    BY DEF TypeOK
  <2> QED BY <1>5, <1>6, <2>1, <2>2, <2>3 DEF CollapsedExact
<1>9. OpenIsPending'
  <2>1. ASSUME NEW n \in Nodes, hasOpen'[n] PROVE \E d \in Subtree(n)' : Pending(d)'
    <3>1. CASE n \in Ancestors(nid)
      BY <1>3, <3>1
    <3>2. CASE n \notin Ancestors(nid)
      <4>1. hasOpen[n]
        BY <1>1, <2>1
      <4>2. PICK d \in Subtree(n) : Pending(d)
        BY <4>1 DEF OpenIsPending
      <4>3. d \in Nodes \ {nid} /\ d \in Subtree(n)'
        BY <1>4, <3>2, <4>2 DEF Subtree
      <4> QED BY <1>2, <4>2, <4>3
    <3> QED BY <3>1, <3>2
  <2> QED BY <1>5, <2>1 DEF OpenIsPending
<1> QED BY <1>7, <1>8, <1>9 DEF ClosingExact

\* addExtraChild hangs an undetermined node below the dummy root, which alone
\* is excused: it stays closed although something is to come again.
LEMMA ExtraChildOpensExactly ==
  ASSUME TypeOK, TreeShape, ClosingExact, OpenIsPending, restarts, Root \in Nodes,
         AddExtraChild(Root)
  PROVE  ClosingExact' /\ OpenIsPending'
<1>1. /\ nodeCount \in Nat /\ nodeCount' = nodeCount + 1
      /\ parent' = AddEntries(parent, 1, Root)
      /\ restarts' = restarts
      /\ collapsed' = collapsed
  BY BoundsAssumption DEF TypeOK, AddExtraChild
<1>2. Nodes' = 0 .. nodeCount + 1 - 1 /\ Nodes \subseteq Nodes'
  BY <1>1, Grows DEF Extends
<1>3. /\ \A d \in Nodes : Ancestors(d)' = Ancestors(d)
      /\ \A d \in Nodes' : d \notin Nodes => Ancestors(d)' = {d} \cup {Root}
  <2>1. \A d \in Nodes' : d \notin Nodes => Ancestors(d)' = {d} \cup Ancestors(Root)
    BY <1>1, SubtreesGrow
  <2> QED BY <1>1, <2>1, SubtreesGrow, WalkOfRoot
<1>4. \A d \in Nodes' : d < nodeCount <=> d \in Nodes
  BY <1>1, <1>2 DEF Nodes
<1>5. /\ \A d \in Nodes : status'[d] = status[d] /\ hasOpen'[d] = hasOpen[d]
      /\ \A d \in Nodes' : d \notin Nodes =>
           status'[d] = "UNDETERMINED" /\ hasOpen'[d] /\ kids'[d] = <<>>
      /\ \A d \in Nodes \ {Root} : kids'[d] = kids[d]
  BY <1>2, <1>4 DEF AddExtraChild, AddEntries
<1>6. ASSUME NEW n \in Nodes, n # Root
      PROVE  /\ Subtree(n)' = Subtree(n)
             /\ \A d \in Subtree(n) : d \in Nodes /\ d # Root
             /\ n \in collapsed' <=> n \in collapsed
  <2>1. \A d \in Subtree(n) : d \in Nodes /\ d # Root
    BY <1>6, WalkOfRoot DEF Subtree
  <2>2. \A d \in Nodes' : n \in Ancestors(d)' <=> d \in Nodes /\ n \in Ancestors(d)
    BY <1>3, <1>6
  <2>3. Subtree(n)' = Subtree(n)
    BY <1>2, <2>2 DEF Subtree
  <2> QED BY <1>1, <2>1, <2>3
<1>7. ASSUME NEW n \in Nodes', n \notin Nodes
      PROVE  /\ n \in Subtree(n)' /\ Pending(n)' /\ hasOpen'[n] /\ kids'[n] = <<>>
             /\ n \notin collapsed'
  BY <1>1, <1>3, <1>5, <1>7 DEF Subtree, Pending, TypeOK
<1>8. ASSUME NEW n \in Nodes, n # Root
      PROVE  /\ hasOpen'[n] <=> \E d \in Subtree(n)' : Pending(d)'
             /\ n \in collapsed' <=>
                  /\ kids'[n] # <<>>
                  /\ \A d \in Subtree(n)' : ~Pending(d)' /\ status'[d] # "SOLVED"
  <2>1. \A d \in Subtree(n) : (Pending(d)' <=> Pending(d)) /\ status'[d] = status[d]
    BY <1>5, <1>6, <1>8 DEF Pending
  <2>2. ~RestartRoot(n)
    BY <1>8 DEF RestartRoot
  <2>3. /\ hasOpen[n] <=> \E d \in Subtree(n) : Pending(d)
        /\ n \in collapsed <=> /\ kids[n] # <<>>
                               /\ \A d \in Subtree(n) : ~Pending(d) /\ status[d] # "SOLVED"
    BY <2>2 DEF ClosingExact, OpenFlagsExact, CollapsedExact
  <2>4. hasOpen'[n] = hasOpen[n] /\ kids'[n] = kids[n]
    BY <1>5, <1>8
  <2> QED BY <1>6, <1>8, <2>1, <2>3, <2>4
<1>9. RestartRoot(Root)'
  BY <1>1 DEF RestartRoot
<1>10. OpenFlagsExact'
  BY <1>7, <1>8, <1>9 DEF OpenFlagsExact
<1>11. CollapsedExact'
  BY <1>7, <1>8, <1>9 DEF CollapsedExact
<1>12. OpenIsPending'
  <2>1. PICK x : x = nodeCount
    OBVIOUS
  <2>2. x \in Nodes' /\ x \notin Nodes
    BY <1>1, <1>2, <1>4, <2>1
  <2>3. x \in Subtree(Root)' /\ Pending(x)'
    BY <1>3, <1>5, <2>2 DEF Subtree, Pending
  <2> QED BY <1>7, <1>8, <2>3 DEF OpenIsPending
<1> QED BY <1>10, <1>11, <1>12 DEF ClosingExact

\* Nothing is closed in a new tree: its nodes, or its root, are still pending.
LEMMA ClosingStart ==
  /\ Init => InnerAreBranches /\ ClosingExact /\ OpenIsPending
  /\ \A k \in 0 .. MaxKids : TypeOK /\ TypeOK' /\ ~restarts /\ CreateRoot(k) =>
       InnerAreBranches' /\ ClosingExact' /\ OpenIsPending'
<1>1. ASSUME Init PROVE InnerAreBranches /\ ClosingExact /\ OpenIsPending
  <2>1. CASE restarts
    <3>1. Nodes = {Root} /\ kids[Root] = <<>> /\ status[Root] = "BRANCH"
      BY <1>1, <2>1 DEF Init, RootWith, Nodes, Root
    <3>2. \A n \in Nodes : RestartRoot(n)
      BY <2>1, <3>1 DEF RestartRoot
    <3>3. \A m \in Nodes : m \in Ancestors(m)
      BY UpWalks, AncestorsIsUp
    <3>4. OpenIsPending
      BY <3>1, <3>3 DEF OpenIsPending, Subtree, Pending
    <3> QED BY <3>1, <3>2, <3>4 DEF InnerAreBranches, ClosingExact, OpenFlagsExact, CollapsedExact
  <2>2. CASE ~restarts
    <3>1. Nodes = {}
      BY <1>1, <2>2 DEF Init, Nodes
    <3> QED BY <2>2, <3>1
            DEF InnerAreBranches, ClosingExact, OpenFlagsExact, CollapsedExact, OpenIsPending
  <2> QED BY <2>1, <2>2
<1>2. ASSUME NEW k \in 0 .. MaxKids, TypeOK, TypeOK', ~restarts, CreateRoot(k)
      PROVE  InnerAreBranches' /\ ClosingExact' /\ OpenIsPending'
  <2>1. /\ k \in Nat /\ Nodes' = 0 .. k
        /\ parent' = [n \in 0 .. k |-> IF n = Root THEN NoNode ELSE Root]
        /\ kids' = [n \in 0 .. k |-> IF n = Root THEN [i \in 1 .. k |-> i] ELSE <<>>]
        /\ status' = [n \in 0 .. k |-> IF n = Root THEN "BRANCH" ELSE "UNDETERMINED"]
        /\ hasOpen' = [n \in 0 .. k |-> TRUE]
        /\ restarts' = restarts /\ collapsed' = collapsed
    BY <1>2, BoundsAssumption DEF CreateRoot, RootWith, Nodes
  <2>2. collapsed' = {}
    <3>1. Nodes = {}
      BY <1>2 DEF CreateRoot, Nodes
    <3> QED BY <1>2, <2>1, <3>1 DEF TypeOK
  <2>3. InnerAreBranches'
    BY <1>2, <2>1 DEF InnerAreBranches
  <2>4. \A n \in Nodes' : hasOpen'[n] /\ n \notin collapsed'
    BY <2>1, <2>2
  <2>5. ASSUME NEW n \in Nodes' PROVE \E d \in Subtree(n)' : Pending(d)'
    <3>1. \A m \in Nodes' : m \in Ancestors(m)'
      BY UpWalks, AncestorsIsUp
    <3>2. CASE n # Root
      BY <2>1, <3>1, <3>2 DEF Subtree, Pending
    <3>3. CASE n = Root /\ k = 0
      <4>1. [i \in 1 .. k |-> i] = <<>>
        BY <3>3
      <4>2. Pending(n)'
        BY <2>1, <3>3, <4>1 DEF Pending, Root
      <4> QED BY <3>1, <4>2 DEF Subtree
    <3>4. CASE n = Root /\ k > 0
      <4>1. 1 \in Nodes' /\ parent'[1] = Root /\ status'[1] = "UNDETERMINED"
        BY <2>1, <3>4 DEF Root
      <4>2. Closed(Ancestors(1)', parent') /\ 1 \in Ancestors(1)'
        <5>1. \A m \in Nodes' : parent'[m] \in Nodes' \cup {NoNode}
          BY <1>2 DEF TypeOK
        <5> QED BY <4>1, <5>1, UpWalks, AncestorsIsUp
      <4>3. Root \in Ancestors(1)'
        BY <4>1, <4>2 DEF Closed, Root, NoNode
      <4> QED BY <3>4, <4>1, <4>3 DEF Subtree, Pending
    <3> QED BY <2>1, <3>2, <3>3, <3>4
  <2> QED BY <2>3, <2>4, <2>5 DEF ClosingExact, OpenFlagsExact, CollapsedExact, OpenIsPending
<1> QED BY <1>1, <1>2

-----------------------------------------------------------------------------
(* The invariant *)

ClosingInv ==
  /\ TreeInv
  /\ InnerAreBranches
  /\ ClosingExact
  /\ OpenIsPending

\* A promoted node that gets children is a branch, a restart's root is below
\* a branch, and no status of an inner node changes.
LEMMA PromoteKeepsInner ==
  ASSUME TypeOK, InnerAreBranches, DummyRoot, NEW nid \in Nodes,
         status[nid] = "UNDETERMINED", NEW k \in Nat, NEW st \in NodeStatus,
         (k = 0 /\ IsClosing(st)) \/ st = "BRANCH", Promote(nid, k, st)
  PROVE  InnerAreBranches'
<1>1. /\ Nodes \subseteq Nodes'
      /\ status'[nid] = st
      /\ \A d \in Nodes \ {nid} : status'[d] = status[d] /\ kids'[d] = kids[d]
      /\ \A d \in Nodes' : d \notin Nodes => kids'[d] = <<>>
      /\ k = 0 => kids'[nid] = kids[nid]
      /\ restarts' = restarts
  BY PromotedMaps
<1>2. kids[nid] = <<>> /\ (restarts => nid # Root)
  BY DEF InnerAreBranches
<1>3. \A n \in Nodes' : kids'[n] # <<>> => status'[n] = "BRANCH"
  BY <1>1, <1>2 DEF InnerAreBranches, IsClosing
<1>4. restarts' => status'[Root] = "BRANCH"
  BY <1>1, <1>2 DEF InnerAreBranches, DummyRoot
<1> QED BY <1>3, <1>4 DEF InnerAreBranches

\* The dummy root may have children, the new one has none.
LEMMA ExtraChildKeepsInner ==
  ASSUME TypeOK, InnerAreBranches, restarts, Root \in Nodes, AddExtraChild(Root)
  PROVE  InnerAreBranches'
<1>1. nodeCount \in Nat /\ nodeCount' = nodeCount + 1 /\ restarts' = restarts
  BY BoundsAssumption DEF TypeOK, AddExtraChild
<1>2. Nodes' = 0 .. nodeCount + 1 - 1 /\ \A d \in Nodes' : d < nodeCount <=> d \in Nodes
  BY <1>1 DEF Nodes
<1>3. Root \in Nodes'
  BY <1>1 DEF Nodes, Root
<1>4. ASSUME NEW n \in Nodes'
      PROVE  /\ n \in Nodes => status'[n] = status[n]
             /\ n \notin Nodes => kids'[n] = <<>>
             /\ n \in Nodes /\ n # Root => kids'[n] = kids[n]
  BY <1>2, <1>4 DEF AddExtraChild, AddEntries
<1> QED BY <1>1, <1>3, <1>4 DEF InnerAreBranches

\* Every operation keeps the invariant.
LEMMA ClosingInvStep == ClosingInv /\ [Next]_vars => ClosingInv'
<1> SUFFICES ASSUME ClosingInv, [Next]_vars PROVE ClosingInv'
  OBVIOUS
<1>1. TreeInv /\ TreeInv' /\ TypeOK /\ TypeOK' /\ DummyRoot /\ TreeShape /\ SolvedFlagsExact'
  BY TreeInvStep DEF ClosingInv, TreeInv
<1>2. ASSUME NEW k \in 0 .. MaxKids, ~restarts, CreateRoot(k) PROVE ClosingInv'
  BY <1>1, <1>2, ClosingStart DEF ClosingInv
<1>3. ASSUME NEW pid \in Nodes, NEW alt \in 0 .. nodeCount, NEW r \in Reports,
             PromoteNode(pid, alt, r)
      PROVE  ClosingInv'
  <2>1. PICK nid \in Nodes, k \in Nat, st \in NodeStatus :
          /\ status[nid] = "UNDETERMINED"
          /\ (k = 0 /\ IsClosing(st)) \/ st = "BRANCH"
          /\ Promote(nid, k, st)
    BY <1>1, <1>3, PromotedReport
  <2>2. InnerAreBranches'
    BY <1>1, <2>1, PromoteKeepsInner DEF ClosingInv
  <2>3. CASE k = 0 /\ IsClosing(st)
    BY <1>1, <2>1, <2>2, <2>3, ReportClosesExactly DEF ClosingInv
  <2>4. CASE st = "BRANCH"
    BY <1>1, <2>1, <2>2, <2>4, BranchOpensExactly DEF ClosingInv
  <2> QED BY <2>1, <2>3, <2>4
<1>4. ASSUME restarts, AddExtraChild(Root) PROVE ClosingInv'
  <2>1. Root \in Nodes
    BY <1>1, <1>4 DEF DummyRoot
  <2> QED BY <1>1, <1>4, <2>1, ExtraChildKeepsInner, ExtraChildOpensExactly DEF ClosingInv
<1>5. CASE UNCHANGED vars
  <2>1. \A n : Ancestors(n)' = Ancestors(n)
    BY <1>5 DEF vars, Nodes, Ancestors
  <2> QED BY <1>1, <1>5, <2>1 DEF vars, ClosingInv, InnerAreBranches, ClosingExact,
            OpenFlagsExact, CollapsedExact, OpenIsPending, RestartRoot, Pending, Subtree, Nodes
<1> QED BY <1>2, <1>3, <1>4, <1>5 DEF Next

\* Together with the links and the solution flags, exactness of closing is
\* inductive once it is known that only branch nodes have children.
THEOREM ClosingInvariant == Spec => []ClosingInv
<1>1. Init => ClosingInv
  BY TreeInvInit, ClosingStart DEF ClosingInv
<1> QED BY <1>1, ClosingInvStep, PTL DEF Spec

\* In every tree, of any size, hasOpenChildren of a node and the
\* failedSubtreeClosed signal for it are what a scan of its subtree would say;
\* only the dummy root of a restart-based search is excused.
THEOREM ClosingCorrect == Spec => []ClosingExact
<1>1. ClosingInv => ClosingExact
  BY DEF ClosingInv
<1> QED BY <1>1, ClosingInvariant, PTL

-----------------------------------------------------------------------------
(* NodeTree implements SearchTree: what the tree keeps incrementally, one  *)
(* node at a time, is what the views are promised, a tree that grows and a *)
(* set of failed subtrees judged from scratch after every report.          *)
(*                                                                         *)
(* The two modules reach the nodes of a subtree from opposite ends: the    *)
(* detailed one by walking from a node to the root, the abstract one by    *)
(* going down from the top of the subtree (BelowIsSubtree).                *)

\* Both modules count with the operator of FiniteSets.
LEMMA PromiseCardinality == \A S : Promise!Cardinality(S) = Cardinality(S)
BY DEF Promise!Cardinality, Cardinality, Promise!IsFiniteSet, IsFiniteSet

\* The abstract nodes are the nodes, counted as the next NodeID to be given.
LEMMA PromiseNodes ==
  TypeOK => Promise!Nodes = Nodes /\ Promise!Cardinality(Promise!Nodes) = nodeCount
<1> SUFFICES ASSUME TypeOK
             PROVE  Promise!Nodes = Nodes /\ Promise!Cardinality(Promise!Nodes) = nodeCount
  OBVIOUS
<1>1. Promise!Nodes = 0 .. nodeCount - 1 /\ nodeCount \in Nat
  BY BoundsAssumption DEF Promise!Nodes, TypeOK, Nodes
<1>2. Cardinality(0 .. nodeCount - 1) = nodeCount
  <2>1. CASE nodeCount = 0
    <3>1. 0 > nodeCount - 1 /\ 0 \in Int /\ nodeCount - 1 \in Int
      BY <2>1
    <3>2. Cardinality(0 .. nodeCount - 1) = 0
      BY <3>1, FS_Interval
    <3> QED BY <2>1, <3>2
  <2>2. CASE nodeCount > 0
    <3>1. ~(0 > nodeCount - 1) /\ 0 \in Int /\ nodeCount - 1 \in Int
      BY <1>1, <2>2
    <3>2. Cardinality(0 .. nodeCount - 1) = nodeCount - 1 - 0 + 1
      BY <3>1, FS_Interval
    <3> QED BY <1>1, <3>2
  <2> QED BY <1>1, <2>1, <2>2
<1> QED BY <1>1, <1>2, PromiseCardinality DEF Nodes

\* Going down from a node reaches the nodes from which a walk comes up to it.
LEMMA BelowIsSubtree ==
  TypeOK /\ TreeShape => \A n \in Nodes : Promise!Below(n) = Subtree(n)
<1> SUFFICES ASSUME TypeOK, TreeShape, NEW n \in Nodes
             PROVE  Promise!Below(n) = Subtree(n)
  OBVIOUS
<1>1. Promise!Nodes = Nodes
  BY PromiseNodes
<1> DEFINE Down(S) == n \in S /\ \A m \in S : \A i \in DOMAIN kids[m] : kids[m][i] \in S
<1>2. Promise!Below(n) = {d \in Nodes : \A S \in SUBSET Nodes : Down(S) => d \in S}
  BY <1>1 DEF Promise!Below
<1>3. Subtree(n) \in SUBSET Nodes /\ Down(Subtree(n))
  <2>1. ASSUME NEW m \in Subtree(n), NEW i \in DOMAIN kids[m]
        PROVE  kids[m][i] \in Subtree(n)
    <3>1. m \in Nodes /\ n \in Ancestors(m)
      BY DEF Subtree
    <3>2. kids[m][i] \in Nodes /\ m \in Ancestors(kids[m][i])
      BY <3>1, SubtreeHolds, WalkWithin DEF Subtree
    <3> QED BY <3>1, <3>2, WalkWithin DEF Subtree
  <2> QED BY <2>1, WalkWithin DEF Subtree
<1>4. ASSUME NEW d \in Subtree(n), NEW S \in SUBSET Nodes, Down(S) PROVE d \in S
  <2> SUFFICES ASSUME d \notin S PROVE FALSE
    OBVIOUS
  <2> DEFINE T == Ancestors(d) \ S
  <2>1. d \in Nodes /\ n \in Ancestors(d)
    BY DEF Subtree
  <2>2. d \in T /\ T \in SUBSET Nodes
    BY <2>1, WalkWithin
  <2>3. ASSUME NEW m \in T, parent[m] # NoNode PROVE parent[m] \in T
    <3>1. m \in Nodes /\ parent[m] \in Ancestors(d) /\ parent[m] \in Nodes /\ m # Root
      BY <2>1, <2>3, WalkWithin, WalkStep DEF Closed, TreeShape
    <3>2. PICK i \in DOMAIN kids[parent[m]] : kids[parent[m]][i] = m
      BY <3>1 DEF TreeShape
    <3> QED BY <1>4, <3>1, <3>2
  <2>4. Ancestors(d) \subseteq T
    BY <2>1, <2>2, <2>3, WalkLeast DEF Closed
  <2> QED BY <1>4, <2>1, <2>4
<1> QED BY <1>2, <1>3, <1>4 DEF Subtree

\* Except for the dummy root, the nodes signalled are those of failed subtrees.
LEMMA ReportedIsFailed ==
  TypeOK /\ TreeShape /\ ClosingExact =>
    \A n \in Nodes :
      /\ Promise!FailedSubtree(n) <=>
           kids[n] # <<>> /\ \A d \in Subtree(n) : ~Pending(d) /\ status[d] # "SOLVED"
      /\ RestartRoot(n) \/ (n \in collapsed <=> Promise!FailedSubtree(n))
<1> SUFFICES ASSUME TypeOK, TreeShape, ClosingExact, NEW n \in Nodes
             PROVE  /\ Promise!FailedSubtree(n) <=>
                         kids[n] # <<>> /\ \A d \in Subtree(n) : ~Pending(d) /\ status[d] # "SOLVED"
                    /\ RestartRoot(n) \/ (n \in collapsed <=> Promise!FailedSubtree(n))
  OBVIOUS
<1>1. \A d : Promise!Unfinished(d) <=> Pending(d)
  BY DEF Promise!Unfinished, Pending
<1>2. Promise!FailedSubtree(n) <=>
        kids[n] # <<>> /\ \A d \in Subtree(n) : ~Pending(d) /\ status[d] # "SOLVED"
  BY <1>1, BelowIsSubtree DEF Promise!FailedSubtree
<1> QED BY <1>2 DEF ClosingExact, CollapsedExact

-----------------------------------------------------------------------------
(* Every walk ends at the root *)

Rooted == \A n \in Nodes : Root \in Ancestors(n)

PromiseInv == ClosingInv /\ Rooted

\* New nodes hang below nodes whose walk ends at the root.
LEMMA RootedGrows ==
  ASSUME TypeOK, Rooted, NEW nid \in Nodes, NEW k \in Nat,
         nodeCount' = nodeCount + k, parent' = AddEntries(parent, k, nid)
  PROVE  Rooted'
<1>1. /\ \A d \in Nodes : Ancestors(d)' = Ancestors(d)
      /\ \A d \in Nodes' : d \notin Nodes => Ancestors(d)' = {d} \cup Ancestors(nid)
  BY SubtreesGrow
<1> QED BY <1>1 DEF Rooted

\* The invariant holds at the start ...
LEMMA PromiseInvInit == Init => PromiseInv
<1> SUFFICES ASSUME Init PROVE PromiseInv
  OBVIOUS
<1>1. ClosingInv
  BY TreeInvInit, ClosingStart DEF ClosingInv
<1>2. \A n \in Nodes : n = Root
  <2>1. CASE restarts
    BY <2>1 DEF Init, RootWith, Nodes, Root
  <2>2. CASE ~restarts
    BY <2>2 DEF Init, Nodes
  <2> QED BY <2>1, <2>2
<1>3. \A n \in Nodes : n \in Ancestors(n)
  BY <1>1, WalkWithin DEF ClosingInv, TreeInv
<1> QED BY <1>1, <1>2, <1>3 DEF PromiseInv, Rooted

\* ... and is kept by every operation of the tree.
LEMMA PromiseInvStep == PromiseInv /\ [Next]_vars => PromiseInv'
<1> SUFFICES ASSUME PromiseInv, [Next]_vars PROVE PromiseInv'
  OBVIOUS
<1>1. ClosingInv /\ ClosingInv' /\ TypeOK /\ TypeOK' /\ DummyRoot /\ Rooted
  BY ClosingInvStep DEF PromiseInv, ClosingInv, TreeInv
<1>2. ASSUME NEW k \in 0 .. MaxKids, ~restarts, CreateRoot(k) PROVE Rooted'
  <2>1. /\ Nodes' = 0 .. k
        /\ parent' = [n \in 0 .. k |-> IF n = Root THEN NoNode ELSE Root]
    BY <1>2, BoundsAssumption DEF CreateRoot, RootWith, Nodes
  <2>2. \A n \in Nodes' : n \in Ancestors(n)' /\ Closed(Ancestors(n)', parent')
    <3>1. \A m \in Nodes' : parent'[m] \in Nodes' \cup {NoNode}
      BY <1>1 DEF TypeOK
    <3> QED BY <3>1, UpWalks, AncestorsIsUp
  <2>3. \A n \in Nodes' : n # Root => parent'[n] = Root /\ Root # NoNode
    BY <2>1 DEF Root, NoNode
  <2>4. \A n \in Nodes' : Root \in Ancestors(n)'
    BY <2>2, <2>3 DEF Closed
  <2> QED BY <2>4 DEF Rooted
<1>3. ASSUME NEW pid \in Nodes, NEW alt \in 0 .. nodeCount, NEW r \in Reports,
             PromoteNode(pid, alt, r)
      PROVE  Rooted'
  <2>1. PICK nid \in Nodes, k \in Nat, st \in NodeStatus : Promote(nid, k, st)
    BY <1>1, <1>3, PromotedReport
  <2>2. nodeCount' = nodeCount + k /\ parent' = AddEntries(parent, k, nid)
    BY <2>1 DEF Promote
  <2> QED BY <1>1, <2>2, RootedGrows
<1>4. ASSUME restarts, AddExtraChild(Root) PROVE Rooted'
  <2>1. /\ nodeCount' = nodeCount + 1 /\ parent' = AddEntries(parent, 1, Root)
        /\ Root \in Nodes
    BY <1>1, <1>4 DEF AddExtraChild, DummyRoot
  <2> QED BY <1>1, <2>1, RootedGrows
<1>5. ASSUME UNCHANGED vars PROVE Rooted'
  <2>1. \A n : Ancestors(n)' = Ancestors(n)
    BY <1>5 DEF vars, Nodes, Ancestors
  <2> QED BY <1>1, <1>5, <2>1 DEF vars, Rooted, Nodes
<1> QED BY <1>1, <1>2, <1>3, <1>4, <1>5 DEF Next, PromiseInv

-----------------------------------------------------------------------------
(* Every operation is a step of the promise *)

\* The dummy root too is signalled by exactly the report that completes its
\* subtree without a solution, each time that happens.
LEMMA DummyRootReported ==
  ASSUME PromiseInv, PromiseInv', restarts, NEW nid \in Nodes,
         status[nid] = "UNDETERMINED",
         NEW k \in Nat, NEW st \in NodeStatus, (k = 0 /\ IsClosing(st)) \/ st = "BRANCH",
         Promote(nid, k, st)
  PROVE  Root \in collapsed' <=> Root \in collapsed \/ Promise!FailedSubtree(Root)'
<1>1. /\ TypeOK /\ TreeShape /\ InnerAreBranches /\ ClosingExact /\ OpenFlagsExact
      /\ Root \in Nodes /\ Root \in Ancestors(nid) /\ nid # Root
  BY DEF PromiseInv, ClosingInv, TreeInv, DummyRoot, ClosingExact, Rooted, InnerAreBranches
<1>2. TypeOK' /\ TreeShape' /\ ClosingExact' /\ SolvedFlagsExact' /\ Root \in Nodes'
  <2>1. restarts'
    BY DEF Promote
  <2> QED BY <2>1 DEF PromiseInv, ClosingInv, TreeInv, DummyRoot
<1>3. Promise!FailedSubtree(Root)' <=>
        /\ kids'[Root] # <<>>
        /\ \A d \in Subtree(Root)' : ~Pending(d)' /\ status'[d] # "SOLVED"
  <2>1. (TypeOK /\ TreeShape /\ ClosingExact =>
          \A n \in Nodes :
            /\ Promise!FailedSubtree(n) <=>
                 kids[n] # <<>> /\ \A d \in Subtree(n) : ~Pending(d) /\ status[d] # "SOLVED"
            /\ RestartRoot(n) \/ (n \in collapsed <=> Promise!FailedSubtree(n)))'
    BY ReportedIsFailed, PTL
  <2> QED BY <1>2, <2>1
<1>4. CASE st = "BRANCH"
  <2>1. collapsed' = collapsed
    BY <1>4 DEF Promote, IsClosing
  <2>2. \E d \in Subtree(Root)' : Pending(d)'
    <3>1. /\ nodeCount \in Nat /\ nodeCount' = nodeCount + k /\ Nodes \subseteq Nodes'
          /\ Ancestors(nid)' = Ancestors(nid)
          /\ \A d \in Nodes' : d \notin Nodes => Ancestors(d)' = {d} \cup Ancestors(nid)
          /\ status'[nid] = "BRANCH"
          /\ \A d \in Nodes' : d \notin Nodes => status'[d] = "UNDETERMINED"
          /\ k = 0 => kids'[nid] = kids[nid]
      BY <1>1, <1>4, PromotedMaps
    <3>2. CASE k = 0
      <4>1. kids[nid] = <<>>
        BY <1>1 DEF InnerAreBranches
      <4> QED BY <1>1, <3>1, <3>2, <4>1 DEF Subtree, Pending
    <3>3. CASE k > 0
      <4>1. nodeCount \in Nodes' /\ nodeCount \notin Nodes
        BY <3>1, <3>3 DEF Nodes
      <4> QED BY <1>1, <3>1, <4>1 DEF Subtree, Pending
    <3> QED BY <3>2, <3>3
  <2> QED BY <1>3, <2>1, <2>2
<1>5. CASE k = 0 /\ IsClosing(st)
  <2>1. /\ Nodes' = Nodes
        /\ \A d \in Nodes : Ancestors(d)' = Ancestors(d)
        /\ status'[nid] = st
        /\ \A d \in Nodes \ {nid} : status'[d] = status[d] /\ kids'[d] = kids[d]
        /\ kids'[nid] = kids[nid]
    BY <1>1, <1>5, PromotedMaps
  <2>2. Subtree(Root)' = Subtree(Root) /\ Subtree(Root) \subseteq Nodes
    BY <1>1, <2>1 DEF Subtree
  <2>3. \A d \in Nodes : Pending(d)' <=> d # nid /\ Pending(d)
    BY <1>5, <2>1 DEF Pending, IsClosing
  <2>4. /\ status' = [status EXCEPT ![nid] = st]
        /\ collapsed' = collapsed \cup {n \in ClosedBy(nid, status') \ {nid} : ~hasSolved'[n]}
    <3>1. AddEntries(status, 0, "UNDETERMINED") = status
      BY <1>1, BoundsAssumption DEF AddEntries, TypeOK, Nodes
    <3> QED BY <1>5, <3>1 DEF Promote
  <2>5. Root \in ClosedBy(nid, status') <=> \A d \in Subtree(Root) : ~Pending(d)'
    <3>1. Root \in ClosedBy(nid, status') <=> \A d \in Subtree(Root) \ {nid} : ~Pending(d)
      BY <1>1, <1>5, <2>4, ClosingReach
    <3> QED BY <2>2, <2>3, <3>1
  <2>6. hasSolved'[Root] <=> \E d \in Subtree(Root)' : status'[d] = "SOLVED"
    BY <1>2 DEF SolvedFlagsExact
  <2>7. kids'[Root] # <<>>
    <3>1. \E i \in DOMAIN kids[Root] : kids[Root][i] \in Ancestors(nid)
      BY <1>1, SubtreeSplit DEF Subtree
    <3> QED BY <1>1, <2>1, <3>1
  <2> QED BY <1>1, <1>3, <2>2, <2>4, <2>5, <2>6, <2>7
<1> QED BY <1>4, <1>5
\* Promoting a node is a report of the promise: the links, the statuses and
\* the failures it signals are those judged from scratch.
LEMMA PromoteReports ==
  ASSUME PromiseInv, PromiseInv', NEW nid \in Nodes, status[nid] = "UNDETERMINED",
         NEW k \in Nat, NEW st \in NodeStatus, (k = 0 /\ IsClosing(st)) \/ st = "BRANCH",
         Promote(nid, k, st)
  PROVE  Promise!Report(nid, k, st)
<1>1. /\ TypeOK /\ InnerAreBranches /\ TypeOK' /\ TreeShape' /\ ClosingExact'
      /\ nodeCount \in Nat /\ kids[nid] = <<>>
  BY BoundsAssumption DEF PromiseInv, ClosingInv, TreeInv, InnerAreBranches, TypeOK
<1>2. /\ nodeCount' = nodeCount + k
      /\ Nodes' = 0 .. nodeCount + k - 1 /\ Nodes \subseteq Nodes'
      /\ status'[nid] = st
      /\ \A d \in Nodes \ {nid} : status'[d] = status[d] /\ kids'[d] = kids[d]
      /\ \A d \in Nodes' : d \notin Nodes => status'[d] = "UNDETERMINED" /\ kids'[d] = <<>>
      /\ k = 0 => kids'[nid] = kids[nid]
      /\ restarts' = restarts
  BY <1>1, PromotedMaps
<1>3. /\ Promise!Nodes = Nodes /\ Promise!Cardinality(Promise!Nodes) = nodeCount
      /\ DOMAIN kids' = Nodes' /\ DOMAIN status' = Nodes'
      /\ kids' = [m \in Nodes' |-> kids'[m]] /\ status' = [m \in Nodes' |-> status'[m]]
  BY <1>1, PromiseNodes DEF TypeOK
<1>4. Promise!Grow(nid, k)
  <2>1. Nodes \cup nodeCount .. nodeCount + k - 1 = Nodes'
    BY <1>1, <1>2 DEF Nodes
  <2>2. kids'[nid] = kids[nid] \o [i \in 1 .. k |-> nodeCount + i - 1]
    <3> DEFINE more == [i \in 1 .. k |-> nodeCount + i - 1]
    <3>1. more \in Seq(Int)
      BY <1>1
    <3>2. kids[nid] \o more = more
      BY <1>1, <3>1, ConcatEmptySeq
    <3>3. CASE k = 0
      <4>1. more = <<>>
        BY <3>3
      <4> QED BY <1>1, <1>2, <3>2, <3>3, <4>1
    <3>4. CASE k > 0
      <4>1. kids' = [AddEntries(kids, k, <<>>) EXCEPT ![nid] = NewKids(k)]
        BY <3>4 DEF Promote
      <4>2. nid \in DOMAIN AddEntries(kids, k, <<>>)
        BY <1>2 DEF AddEntries
      <4> QED BY <3>2, <4>1, <4>2 DEF NewKids
    <3> QED BY <3>3, <3>4
  <2>3. kids' = [m \in Nodes' |->
                   IF m \notin Nodes THEN <<>>
                   ELSE IF m = nid THEN kids[nid] \o [i \in 1 .. k |-> nodeCount + i - 1]
                   ELSE kids[m]]
    BY <1>2, <1>3, <2>2
  <2> QED BY <1>3, <2>1, <2>3 DEF Promise!Grow
<1>5. status' = [m \in DOMAIN kids' |->
                   CASE m = nid -> st
                     [] m \in Promise!Nodes \ {nid} -> status[m]
                     [] OTHER -> "UNDETERMINED"]
  BY <1>2, <1>3
<1>6. Promise!ReportFailures
  <2>1. Promise!Nodes' = Nodes'
    BY <1>3 DEF Promise!Nodes
  <2>2. collapsed \subseteq collapsed' /\ collapsed' \subseteq Nodes'
    BY <1>1 DEF Promote, TypeOK
  <2>3. \A n \in Nodes' : RestartRoot(n)' \/ (n \in collapsed' <=> Promise!FailedSubtree(n)')
    <3>1. (TypeOK /\ TreeShape /\ ClosingExact =>
            \A n \in Nodes :
              /\ Promise!FailedSubtree(n) <=>
                   kids[n] # <<>> /\ \A d \in Subtree(n) : ~Pending(d) /\ status[d] # "SOLVED"
              /\ RestartRoot(n) \/ (n \in collapsed <=> Promise!FailedSubtree(n)))'
      BY ReportedIsFailed, PTL
    <3> QED BY <1>1, <3>1
  <2>4. \A n \in Nodes' : RestartRoot(n)' =>
          (n \in collapsed' <=> n \in collapsed \/ Promise!FailedSubtree(n)')
    BY <1>2, DummyRootReported DEF RestartRoot
  <2>5. \A n \in Nodes' : n \in collapsed' <=> n \in collapsed \/ Promise!FailedSubtree(n)'
    BY <2>2, <2>3, <2>4
  <2> QED BY <2>1, <2>2, <2>5 DEF Promise!ReportFailures
<1> QED BY <1>4, <1>5, <1>6 DEF Promise!Report

\* addExtraChild extends the root.
LEMMA ExtraChildExtends ==
  ASSUME TypeOK, TypeOK', Root \in Nodes, AddExtraChild(Root)
  PROVE  Promise!Extend(Root)
<1>1. nodeCount \in Nat /\ nodeCount' = nodeCount + 1 /\ kids[Root] \in Seq(Nodes)
  BY BoundsAssumption DEF TypeOK, AddExtraChild
<1>2. /\ Nodes' = 0 .. nodeCount + 1 - 1
      /\ Nodes \cup nodeCount .. nodeCount + 1 - 1 = Nodes'
      /\ \A d \in Nodes' : d < nodeCount <=> d \in Nodes
      /\ Root \in Nodes'
  BY <1>1 DEF Nodes
<1>3. /\ Promise!Nodes = Nodes /\ Promise!Cardinality(Promise!Nodes) = nodeCount
      /\ kids' = [m \in Nodes' |-> kids'[m]] /\ status' = [m \in Nodes' |-> status'[m]]
      /\ DOMAIN kids' = Nodes'
  BY PromiseNodes DEF TypeOK
<1>4. Promise!Grow(Root, 1)
  <2>1. Append(kids[Root], nodeCount) = kids[Root] \o [i \in 1 .. 1 |-> nodeCount + i - 1]
    <3>1. [i \in 1 .. 1 |-> nodeCount + i - 1] = <<nodeCount>>
      BY <1>1
    <3>2. kids[Root] \in Seq(Int) /\ nodeCount \in Int
      BY <1>1 DEF Nodes
    <3> QED BY <3>1, <3>2, AppendIsConcat
  <2>2. \A m \in Nodes' : kids'[m] = IF m \notin Nodes THEN <<>>
                                     ELSE IF m = Root THEN Append(kids[Root], nodeCount)
                                     ELSE kids[m]
    BY <1>2 DEF AddExtraChild, AddEntries
  <2> QED BY <1>2, <1>3, <2>1, <2>2 DEF Promise!Grow
<1>5. status' = [m \in DOMAIN kids' |-> IF m \in Promise!Nodes THEN status[m] ELSE "UNDETERMINED"]
  <2>1. \A m \in Nodes' : status'[m] = IF m \in Nodes THEN status[m] ELSE "UNDETERMINED"
    BY <1>2 DEF AddExtraChild, AddEntries
  <2> QED BY <1>3, <2>1
<1> QED BY <1>4, <1>5 DEF Promise!Extend, AddExtraChild

\* createRoot starts the tree of the promise.
LEMMA CreateRootStarts ==
  ASSUME TypeOK, NEW k \in 0 .. MaxKids, CreateRoot(k)
  PROVE  \E r \in Reports : Promise!Start(r.kids)
<1>1. Promise!Nodes = {}
  BY PromiseNodes DEF CreateRoot, Nodes
<1>2. [kids |-> k, status |-> "BRANCH"] \in Reports
  BY DEF Reports
<1>3. Promise!Start(k)
  BY <1>1 DEF Promise!Start, CreateRoot, RootWith, Root
<1> QED BY <1>2, <1>3

\* Every step of the tree is a step of the promise, or changes nothing it tells.
LEMMA PromiseStep == PromiseInv /\ PromiseInv' /\ [Next]_vars => [Promise!Next]_(Promise!vars)
<1> SUFFICES ASSUME PromiseInv, PromiseInv', [Next]_vars
             PROVE  Promise!Next \/ UNCHANGED Promise!vars
  OBVIOUS
<1>1. TypeOK /\ TypeOK' /\ DummyRoot /\ Promise!Nodes = Nodes
  BY PromiseNodes DEF PromiseInv, ClosingInv, TreeInv
<1>2. ASSUME NEW k \in 0 .. MaxKids, ~restarts, CreateRoot(k) PROVE Promise!Next
  BY <1>1, <1>2, CreateRootStarts DEF Promise!Next
<1>3. ASSUME NEW pid \in Nodes, NEW alt \in 0 .. nodeCount, NEW r \in Reports,
             PromoteNode(pid, alt, r)
      PROVE  Promise!Next
  <2>1. PICK nid \in Nodes, k \in Nat, st \in NodeStatus :
          /\ status[nid] = "UNDETERMINED"
          /\ (k = 0 /\ IsClosing(st)) \/ st = "BRANCH"
          /\ nid = GetChild(pid, alt) /\ k = r.kids /\ st = r.status
          /\ Promote(nid, k, st)
    BY <1>1, <1>3, PromotedReport
  <2>2. Promise!Report(nid, r.kids, r.status)
    BY <2>1, PromoteReports
  <2> QED BY <1>1, <2>2 DEF Promise!Next
<1>4. ASSUME restarts, AddExtraChild(Root) PROVE Promise!Next
  <2>1. Root \in Nodes
    BY <1>1, <1>4 DEF DummyRoot
  <2> QED BY <1>1, <1>4, <2>1, ExtraChildExtends DEF Promise!Next
<1>5. ASSUME UNCHANGED vars PROVE UNCHANGED Promise!vars
  BY <1>5 DEF vars, Promise!vars
<1> QED BY <1>2, <1>3, <1>4, <1>5 DEF Next

\* The incremental tree implements the tree judged from scratch: each report
\* signals the failed subtrees it completes, then and only then.
THEOREM KeepsPromise == Spec => ImplementsSearchTree
<1>1. Init => Promise!Init \/ Promise!InitRestarts
  <2> SUFFICES ASSUME Init PROVE Promise!Init \/ Promise!InitRestarts
    OBVIOUS
  <2>1. CASE restarts
    <3>1. /\ kids = [n \in 0 .. 0 |-> IF n = Root THEN [i \in 1 .. 0 |-> i] ELSE <<>>]
          /\ status = [n \in 0 .. 0 |-> IF n = Root THEN "BRANCH" ELSE "UNDETERMINED"]
          /\ collapsed = {}
      BY <2>1 DEF Init, RootWith
    <3>2. 0 .. 0 = {0} /\ [i \in 1 .. 0 |-> i] = <<>>
      OBVIOUS
    <3> QED BY <3>1, <3>2 DEF Promise!InitRestarts, Root
  <2>2. CASE ~restarts
    BY <2>2 DEF Init, Promise!Init
  <2> QED BY <2>1, <2>2
<1> QED BY <1>1, PromiseInvInit, PromiseInvStep, PromiseStep, PTL
        DEF Spec, ImplementsSearchTree, Promise!Spec
=============================================================================
