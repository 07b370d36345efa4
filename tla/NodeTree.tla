------------------------------- MODULE NodeTree -------------------------------
(***************************************************************************)
(* The search tree of one execution: tree::NodeTree with the Structure,    *)
(* NodeInfo and NodeStats it owns (src/src/cpprofiler/tree).               *)
(*                                                                         *)
(* A node is its NodeID, the index of its entry in Structure::nodes_.      *)
(* Nodes only ever come into being as undetermined children of an existing *)
(* node; when the solver reports a node it is promoted: it gets its status *)
(* and its own undetermined children.  Two flags per node summarise the    *)
(* subtree below it and are maintained incrementally:                      *)
(* notifyAncestors sets m_has_solved_children up to the root,              *)
(* closeNode/onChildClosed clear m_has_open_children upwards as long as    *)
(* every sibling is closed, and emit failedSubtreeClosed on the way (the   *)
(* view collapses that subtree).                                           *)
(*                                                                         *)
(* The walks to the root are written as least fixed points: a walk visits  *)
(* the smallest set that contains its start and is closed under the step.  *)
(***************************************************************************)
EXTENDS Integers, Sequences, FiniteSets

CONSTANTS
  MaxNodes,   \* bound on Structure::nodeCount()
  MaxKids     \* bound on the number of children of one message

ASSUME BoundsAssumption == MaxNodes \in Nat /\ MaxKids \in Nat

NoNode == -1
Root == 0

NodeStatus ==
  {"SOLVED", "FAILED", "BRANCH", "SKIPPED", "UNDETERMINED", "MERGED"}

VARIABLES
  restarts,   \* Execution::m_is_restarts, fixed when the execution is created
  nodeCount,  \* Structure::nodes_.size()
  parent,     \* Node::m_parent
  kids,       \* the children of each node, left to right
  status,     \* NodeInfo::m_flags
  hasSolved,  \* NodeInfo::m_has_solved_children
  hasOpen,    \* NodeInfo::m_has_open_children
  stats,      \* NodeStats
  collapsed   \* every node failedSubtreeClosed has been emitted for

vars ==
  <<restarts, nodeCount, parent, kids, status, hasSolved, hasOpen, stats, collapsed>>

Nodes == 0 .. nodeCount - 1

-----------------------------------------------------------------------------
(* Queries *)

IsClosing(st) == st \in {"FAILED", "SOLVED", "SKIPPED"}

ChildrenCount(n) == Len(kids[n])

\* getChild counts from 0, a sequence from 1
GetChild(pid, alt) == kids[pid][alt + 1]

IsOpen(n) == status[n] = "UNDETERMINED" \/ hasOpen[n]

\* The nodes met on the way from n to the root.
Ancestors(n) ==
  LET walk == {S \in SUBSET Nodes :
                 n \in S /\ \A m \in S : parent[m] # NoNode => parent[m] \in S}
  IN  {a \in Nodes : \A S \in walk : a \in S}

Depth(n) == Cardinality(Ancestors(n))

Subtree(n) == {d \in Nodes : n \in Ancestors(d)}

-----------------------------------------------------------------------------
(* The modifiers of the tree *)

\* addEntry for k new nodes, whose entries hold v.
AddEntries(f, k, v) ==
  [n \in 0 .. nodeCount + k - 1 |-> IF n < nodeCount THEN f[n] ELSE v]

\* Faulty NewKids: the index is taken after the entry was added.
NewKidsLate(k) == [i \in 1 .. k |-> nodeCount + i]

\* Faulty NewKids: the index is taken once for all children.
NewKidsSame(k) == [i \in 1 .. k |-> nodeCount]

\* createChild for each of k new nodes
NewKids(k) == [i \in 1 .. k |-> nodeCount + i - 1]

\* Faulty SolvedBy: notifyAncestors stops at the parent.
SolvedParent(nid, st) ==
  IF st = "SOLVED" THEN {n \in Nodes : n = nid \/ n = parent[nid]} ELSE {}

\* The nodes notifyAncestors marks when nid is reported as st.
SolvedBy(nid, st) == IF st = "SOLVED" THEN Ancestors(nid) ELSE {}

\* Faulty AllClosed: a sibling counts as closed when it has been reported.
AllReported(p, S, st) == \A i \in DOMAIN kids[p] : st[kids[p][i]] # "UNDETERMINED"

\* Is every child of p closed, once the nodes of S are and statuses are st?
AllClosed(p, S, st) ==
  \A i \in DOMAIN kids[p] :
    LET kid == kids[p][i]
    IN  st[kid] # "UNDETERMINED" /\ (hasOpen[kid] => kid \in S)

\* Faulty ClosedBy: onChildClosed does not go on to the parent.
ClosedOneLevel(nid, st) ==
  {nid} \cup {p \in Nodes : p = parent[nid] /\ AllClosed(p, {nid}, st)}

\* The nodes that closeNode(nid) closes when statuses are st.
ClosedBy(nid, st) ==
  LET spread == {S \in SUBSET Nodes :
                   /\ nid \in S
                   /\ \A m \in S : LET p == parent[m]
                                   IN  p # NoNode /\ AllClosed(p, S, st) => p \in S}
  IN  {m \in Nodes : \A S \in spread : m \in S}

Larger(a, b) == IF a >= b THEN a ELSE b

\* Faulty StatsAfter: subtract_undetermined is forgotten.
StatsKeepingUndet(k, st, depth) ==
  LET one(s) == IF st = s THEN 1 ELSE 0
  IN  [branch   |-> stats.branch + one("BRANCH"),
       failed   |-> stats.failed + one("FAILED"),
       solved   |-> stats.solved + one("SOLVED"),
       skipped  |-> stats.skipped + one("SKIPPED"),
       undet    |-> stats.undet + k,
       maxDepth |-> Larger(stats.maxDepth, depth)]

\* NodeStats::addNode after subtract_undetermined(1) and add_undetermined(k);
\* depth is what inform_depth gets
StatsAfter(k, st, depth) ==
  LET one(s) == IF st = s THEN 1 ELSE 0
  IN  [branch   |-> stats.branch + one("BRANCH"),
       failed   |-> stats.failed + one("FAILED"),
       solved   |-> stats.solved + one("SOLVED"),
       skipped  |-> stats.skipped + one("SKIPPED"),
       undet    |-> stats.undet + k - 1 + one("UNDETERMINED"),
       maxDepth |-> Larger(stats.maxDepth, depth)]

\* The tree with nothing but a root and its k children.
RootWith(k) ==
  [nodeCount |-> k + 1,
   parent    |-> [n \in 0 .. k |-> IF n = Root THEN NoNode ELSE Root],
   kids      |-> [n \in 0 .. k |-> IF n = Root THEN [i \in 1 .. k |-> i] ELSE <<>>],
   status    |-> [n \in 0 .. k |-> IF n = Root THEN "BRANCH" ELSE "UNDETERMINED"],
   stats     |-> [branch |-> 1, failed |-> 0, solved |-> 0, skipped |-> 0,
                  undet |-> k, maxDepth |-> IF k > 0 THEN 2 ELSE 1]]

CreateRoot(k) ==
  /\ nodeCount = 0
  /\ k + 1 <= MaxNodes
  /\ nodeCount' = RootWith(k).nodeCount
  /\ parent' = RootWith(k).parent
  /\ kids' = RootWith(k).kids
  /\ status' = RootWith(k).status
  /\ stats' = RootWith(k).stats
  /\ hasSolved' = [n \in 0 .. k |-> FALSE]
  /\ hasOpen' = [n \in 0 .. k |-> TRUE]
  /\ UNCHANGED <<restarts, collapsed>>

\* promoteNode for the node nid that getChild(parent_id, alt) has returned.
\* Structure::addChildren accepts children only for a node that has none.
Promote(nid, k, st) ==
  LET newStatus == [AddEntries(status, k, "UNDETERMINED") EXCEPT ![nid] = st]
      closed == IF IsClosing(st) THEN ClosedBy(nid, newStatus) ELSE {}
  IN
  /\ nodeCount + k <= MaxNodes
  /\ UNCHANGED restarts
  /\ k > 0 => kids[nid] = <<>>
  /\ nodeCount' = nodeCount + k
  /\ parent' = AddEntries(parent, k, nid)
  /\ kids' = [AddEntries(kids, k, <<>>) EXCEPT
                ![nid] = IF k > 0 THEN NewKids(k) ELSE @]
  /\ status' = newStatus
  /\ hasSolved' = [n \in 0 .. nodeCount + k - 1 |->
                     n \in SolvedBy(nid, st) \/ AddEntries(hasSolved, k, FALSE)[n]]
  /\ hasOpen' = [n \in 0 .. nodeCount + k - 1 |->
                   n \notin closed /\ AddEntries(hasOpen, k, TRUE)[n]]
  /\ stats' = StatsAfter(k, st, IF k > 0 THEN Depth(nid) + 1 ELSE 0)
  /\ collapsed' = collapsed \cup {n \in closed \ {nid} : ~hasSolved'[n]}

AddExtraChild(pid) ==
  /\ nodeCount < MaxNodes
  /\ nodeCount' = nodeCount + 1
  /\ parent' = AddEntries(parent, 1, pid)
  /\ kids' = [AddEntries(kids, 1, <<>>) EXCEPT ![pid] = Append(@, nodeCount)]
  /\ status' = AddEntries(status, 1, "UNDETERMINED")
  /\ hasSolved' = AddEntries(hasSolved, 1, FALSE)
  /\ hasOpen' = AddEntries(hasOpen, 1, TRUE)
  /\ stats' = [stats EXCEPT !.undet = @ + 1]
  /\ UNCHANGED <<restarts, collapsed>>

-----------------------------------------------------------------------------
(* The specification: a tree driven as TreeBuilder drives it for a solver  *)
(* that keeps the protocol.  A node is reported once; only branch nodes    *)
(* have children.  In a restart-based search the execution starts with a   *)
(* dummy root, which gets one more child per restart.                      *)

Reports == [kids : {0}, status : {"FAILED", "SOLVED", "SKIPPED"}]
             \cup [kids : 0 .. MaxKids, status : {"BRANCH"}]

PromoteNode(pid, alt, r) ==
  /\ alt < ChildrenCount(pid)
  /\ status[GetChild(pid, alt)] = "UNDETERMINED"
  /\ Promote(GetChild(pid, alt), r.kids, r.status)

Init ==
  LET dummy == RootWith(0) IN
  /\ restarts \in BOOLEAN
  /\ nodeCount = IF restarts THEN dummy.nodeCount ELSE 0
  /\ parent = IF restarts THEN dummy.parent ELSE <<>>
  /\ kids = IF restarts THEN dummy.kids ELSE <<>>
  /\ status = IF restarts THEN dummy.status ELSE <<>>
  /\ hasSolved = IF restarts THEN [n \in {Root} |-> FALSE] ELSE <<>>
  /\ hasOpen = IF restarts THEN [n \in {Root} |-> TRUE] ELSE <<>>
  /\ stats = IF restarts THEN dummy.stats
             ELSE [branch |-> 0, failed |-> 0, solved |-> 0, skipped |-> 0,
                   undet |-> 0, maxDepth |-> 0]
  /\ collapsed = {}

Next ==
  \/ \E k \in 0 .. MaxKids : ~restarts /\ CreateRoot(k)
  \/ \E pid \in Nodes, alt \in 0 .. nodeCount, r \in Reports : PromoteNode(pid, alt, r)
  \/ restarts /\ AddExtraChild(Root)

Spec == Init /\ [][Next]_vars

-----------------------------------------------------------------------------
(* Properties *)

TypeOK ==
  /\ restarts \in BOOLEAN
  /\ nodeCount \in 0 .. MaxNodes
  /\ parent \in [Nodes -> Nodes \cup {NoNode}]
  /\ kids \in [Nodes -> Seq(Nodes)]
  /\ status \in [Nodes -> NodeStatus]
  /\ hasSolved \in [Nodes -> BOOLEAN]
  /\ hasOpen \in [Nodes -> BOOLEAN]
  /\ stats \in [branch : Nat, failed : Nat, solved : Nat, skipped : Nat,
                undet : Int, maxDepth : Nat]
  /\ collapsed \subseteq Nodes

\* The dummy root of a restart-based search: it is extended after it was
\* closed, and nothing reopens it.
RestartRoot(n) == restarts /\ n = Root

\* The solver still owes something about d: its status, or the children of
\* a branch node that was announced without any.
Pending(d) ==
  \/ status[d] = "UNDETERMINED"
  \/ status[d] = "BRANCH" /\ kids[d] = <<>>

\* The two links of the structure agree: Node::m_parent is the node that
\* lists it as a child, exactly once, a node is younger than its parent, and
\* node 0 is the only root (Structure::getRoot).
TreeShape ==
  /\ \A n \in Nodes : parent[n] = NoNode <=> n = Root
  /\ \A n \in Nodes \ {Root} :
       /\ parent[n] < n
       /\ \E i \in DOMAIN kids[parent[n]] : kids[parent[n]][i] = n
  /\ \A n \in Nodes : \A i, j \in DOMAIN kids[n] :
       /\ parent[kids[n][i]] = n
       /\ kids[n][i] = kids[n][j] => i = j

\* hasSolvedChildren, kept by notifyAncestors, says what a scan of the whole
\* subtree would say: there is a solution in it.
SolvedFlagsExact ==
  \A n \in Nodes : hasSolved[n] <=> \E d \in Subtree(n) : status[d] = "SOLVED"

\* hasOpenChildren, kept by closeNode and onChildClosed, says what a scan of
\* the whole subtree would say: something in it is still to come.
OpenFlagsExact ==
  \A n \in Nodes : RestartRoot(n) \/ (hasOpen[n] <=> \E d \in Subtree(n) : Pending(d))

\* failedSubtreeClosed is emitted for the inner nodes of exactly those subtrees
\* that are complete and hold no solution, so collapsing on the signal never
\* hides a solution or a part of the tree still being built, and leaves no
\* failed subtree expanded.
CollapsedExact ==
  \A n \in Nodes : RestartRoot(n) \/
    (n \in collapsed <=> /\ kids[n] # <<>>
                         /\ \A d \in Subtree(n) : ~Pending(d) /\ status[d] # "SOLVED")

\* Closing is exact: what is judged one node at a time on the way up from a
\* report, by flags, is what a scan of every subtree would judge.
ClosingExact == OpenFlagsExact /\ CollapsedExact

\* The counters of the status bar, updated one node at a time, agree with the
\* statuses of all nodes.
StatsExact ==
  LET count(st) == Cardinality({n \in Nodes : status[n] = st})
  IN  /\ stats.branch = count("BRANCH")
      /\ stats.failed = count("FAILED")
      /\ stats.solved = count("SOLVED")
      /\ stats.skipped = count("SKIPPED")
      /\ stats.undet = count("UNDETERMINED")

\* NodeTree::depth() is the length of the longest path from the root; the root
\* of a restart, which addExtraChild creates, may not be counted yet.
DepthExact ==
  nodeCount > 0 =>
    /\ \A n \in Nodes : Depth(n) <= stats.maxDepth \/ (restarts /\ parent[n] = Root)
    /\ \E n \in Nodes : Depth(n) = stats.maxDepth

\* What the status bar shows, counted node by node, is what the tree holds.
NodeStatsExact == StatsExact /\ DepthExact

-----------------------------------------------------------------------------
(* The promise to the views *)

Promise == INSTANCE SearchTree WITH reported <- collapsed

\* Closing and collapsing one node at a time amounts to judging every subtree
\* from scratch after every report: notifyAncestors, closeNode and onChildClosed
\* together report a subtree as failed in the step that completes it.
ImplementsSearchTree == Promise!Spec
=============================================================================
