----------------------------- MODULE TreeMerger -----------------------------
(***************************************************************************)
(* Merging the trees of two executions (src/src/cpprofiler/analysis/       *)
(* tree_merger.cpp).                                                       *)
(*                                                                         *)
(* A merger is a thread.  It takes the mutexes of its left and its right   *)
(* tree, walks both in lockstep and builds a third tree: where the two     *)
(* nodes have the same status the merged node has it too, with as many     *)
(* children as the larger of the two; where they differ the merged node is *)
(* a pentagon, with the left subtree below its first child and the right   *)
(* one below its second.  Builder threads go on promoting nodes of trees   *)
(* nobody has locked.                                                      *)
(*                                                                         *)
(* A tree is a record of two functions on NodeIDs: the place of a node,    *)
(* which is the path of alternatives from the root to it, and its status.  *)
(***************************************************************************)
EXTENDS Integers, Sequences, FiniteSets, Functions, SequencesExt, Subsequences

CONSTANTS
  Executions,  \* the executions that can be merged
  Mergers,     \* the merger threads
  LeftOf,      \* the execution on the left, a function of the merger
  RightOf,     \* and on the right
  Reported,    \* the statuses solvers report in the instance
  MaxNodes,    \* bound on the nodes of all trees together
  MaxKids      \* bound on the children of a node

\* two different rows of the list of executions are selected
ASSUME MergersAssumption ==
  /\ LeftOf \in [Mergers -> Executions] /\ RightOf \in [Mergers -> Executions]
  /\ \A m \in Mergers : LeftOf[m] # RightOf[m]

\* the statuses of a node message
ASSUME ReportedAssumption ==
  /\ Reported \subseteq {"BRANCH", "SOLVED", "FAILED", "SKIPPED"}
  /\ MaxNodes \in Nat /\ MaxKids \in Nat

NoNode == -1
Root == 0
Free == "free"
ASSUME FreeAssumption == Free \notin Mergers
ClosingStatuses == {"SOLVED", "FAILED", "SKIPPED"}

VARIABLES
  trees,   \* the tree of each execution
  mutex,   \* the merger that holds the mutex of each tree, or Free
  thread,  \* where each merger is
  stack,   \* of each merger: <<left, right, target>>, the top first
  merged,  \* res_tree and its NodeStats
  pentagons \* merge_result

mergerVars == <<trees, mutex, thread, stack, merged, pentagons>>

-----------------------------------------------------------------------------
(* Trees *)

SingleNode(st) == [place |-> [n \in {Root} |-> <<>>], status |-> [n \in {Root} |-> st]]

Larger(a, b) == IF a >= b THEN a ELSE b

NodesOf(t) == DOMAIN t.status
CountOf(t) == Cardinality(NodesOf(t))
Places(t) == {t.place[n] : n \in NodesOf(t)}
At(t, place) == CHOOSE n \in NodesOf(t) : t.place[n] = place
StatusAt(t, place) == t.status[At(t, place)]

ChildrenCount(t, n) ==
  Cardinality({p \in Places(t) : p # <<>> /\ Front(p) = t.place[n]})
Child(t, n, alt) == At(t, Append(t.place[n], alt))

\* addChildren and setStatus of promoteNode
Promoted(t, n, k, st) ==
  LET ids == CountOf(t) .. CountOf(t) + k - 1
  IN [place |-> [i \in NodesOf(t) \cup ids |->
                   IF i \in ids THEN Append(t.place[n], i - CountOf(t) + 1) ELSE t.place[i]],
      status |-> [i \in NodesOf(t) \cup ids |->
                    IF i = n THEN st ELSE IF i \in ids THEN "UNDETERMINED" ELSE t.status[i]]]

\* the nodes apply_below visits
Below(t, n) == {m \in NodesOf(t) : IsPrefix(t.place[n], t.place[m])}

\* Faulty CountDescendants: the node itself is not counted.
CountStrictDescendants(t, n) == IF n = NoNode THEN 0 ELSE Cardinality(Below(t, n)) - 1

CountDescendants(t, n) == IF n = NoNode THEN 0 ELSE Cardinality(Below(t, n))

\* NodeStats of the merged tree: createRoot has counted a branch
NoStats == [branch |-> 1, failed |-> 0, solved |-> 0, skipped |-> 0, undet |-> 0]

StatsAfter(s, k, st) ==
  LET one(x) == IF st = x THEN 1 ELSE 0
  IN [branch |-> s.branch + one("BRANCH"), failed |-> s.failed + one("FAILED"),
      solved |-> s.solved + one("SOLVED"), skipped |-> s.skipped + one("SKIPPED"),
      undet |-> s.undet + k - 1 + one("UNDETERMINED")]

\* promoteNode of the merged tree r, a record [tree, stats]
Promote(r, n, k, st) ==
  [tree |-> Promoted(r.tree, n, k, st), stats |-> StatsAfter(r.stats, k, st)]

-----------------------------------------------------------------------------
(* Merging *)

TreeL(m) == trees[LeftOf[m]]
TreeR(m) == trees[RightOf[m]]

CompareNodes(m, l, r) ==
  l # NoNode /\ r # NoNode /\ TreeL(m).status[l] = TreeR(m).status[r]

\* a stack that pushes the children of a node from left to right visits the
\* last one first
VisitedBefore(p, q) ==
  \/ p # q /\ IsPrefix(p, q)
  \/ \E i \in DOMAIN p \cap DOMAIN q :
       p[i] > q[i] /\ SubSeq(p, 1, i - 1) = SubSeq(q, 1, i - 1)
CopyOrder(t, n) ==
  [i \in 1 .. Cardinality(Below(t, n)) |->
     CHOOSE m \in Below(t, n) :
       Cardinality({k \in Below(t, n) : VisitedBefore(t.place[k], t.place[m])}) = i - 1]

\* Faulty CopyTreeInto: the two stacks are filled in opposite orders.
CopyTreeSwapped(r, nid, src, n) ==
  LET order == CopyOrder(src, n)
      TargetOf(t, s) ==
        At(t, t.place[nid] \o [i \in 1 .. Len(src.place[s]) - Len(src.place[n]) |->
             LET up == At(src, SubSeq(src.place[s], 1, Len(src.place[n]) + i - 1))
             IN ChildrenCount(src, up) + 1 - src.place[s][Len(src.place[n]) + i]])
      Copied[i \in 0 .. Len(order)] ==
        IF i = 0 THEN r
        ELSE LET done == Copied[i - 1]
             IN Promote(done, TargetOf(done.tree, order[i]),
                        ChildrenCount(src, order[i]), src.status[order[i]])
  IN Copied[Len(order)]

\* copy_tree_into: the nodes below n are promoted in the order of the stack, each
\* at the same place below nid
CopyTreeInto(r, nid, src, n) ==
  LET order == CopyOrder(src, n)
      TargetOf(t, s) ==
        At(t, t.place[nid] \o SubSeq(src.place[s], Len(src.place[n]) + 1, Len(src.place[s])))
      Copied[i \in 0 .. Len(order)] ==
        IF i = 0 THEN r
        ELSE LET done == Copied[i - 1]
             IN Promote(done, TargetOf(done.tree, order[i]),
                        ChildrenCount(src, order[i]), src.status[order[i]])
  IN Copied[Len(order)]

\* a pentagon keeps both subtrees, either of which may be missing
CreatePentagon(r, nid, m, left, right) ==
  LET pen == Promote(r, nid, 2, "MERGED")
      withLeft == IF left = NoNode THEN pen
                  ELSE CopyTreeInto(pen, Child(pen.tree, nid, 1), TreeL(m), left)
  IN IF right = NoNode THEN withLeft
     ELSE CopyTreeInto(withLeft, Child(withLeft.tree, nid, 2), TreeR(m), right)

\* the locks are taken one after the other
LockLeft(m) ==
  /\ thread[m] = "started" /\ mutex[LeftOf[m]] = Free
  /\ mutex' = [mutex EXCEPT ![LeftOf[m]] = m]
  /\ thread' = [thread EXCEPT ![m] = "hasLeft"]
  /\ UNCHANGED <<trees, stack, merged, pentagons>>

\* nobody else knows the merged tree: its mutex is free
LockRight(m) ==
  /\ thread[m] = "hasLeft" /\ mutex[RightOf[m]] = Free
  /\ mutex' = [mutex EXCEPT ![RightOf[m]] = m]
  /\ thread' = [thread EXCEPT ![m] = "merging"]
  /\ stack' = [stack EXCEPT ![m] = <<<<Root, Root, Root>>>>]
  /\ merged' = [merged EXCEPT ![m] = [tree |-> SingleNode("BRANCH"), stats |-> NoStats]]
  /\ UNCHANGED <<trees, pentagons>>

\* The children of two equal nodes: as many as the node with more has.
KidsOfBoth(m, l, r) == Larger(ChildrenCount(TreeL(m), l), ChildrenCount(TreeR(m), r))

Pair(m, l, r, alt) ==
  <<IF alt <= ChildrenCount(TreeL(m), l) THEN Child(TreeL(m), l, alt) ELSE NoNode,
    IF alt <= ChildrenCount(TreeR(m), r) THEN Child(TreeR(m), r, alt) ELSE NoNode>>

\* Children both nodes have are compared; an extra child only if it was explored.
Compared(m, l, r, alt) ==
  LET p == Pair(m, l, r, alt)
  IN \/ p[1] # NoNode /\ p[2] # NoNode
     \/ p[1] # NoNode /\ TreeL(m).status[p[1]] \notin {"UNDETERMINED", "SKIPPED"}
     \/ p[2] # NoNode /\ TreeR(m).status[p[2]] \notin {"UNDETERMINED", "SKIPPED"}

MergeNode(m) ==
  LET l == Head(stack[m])[1]
      r == Head(stack[m])[2]
      target == Head(stack[m])[3]
      kids == KidsOfBoth(m, l, r)
      res == Promote(merged[m], target, kids, TreeL(m).status[l])
      alts == Those([i \in 1 .. kids |-> i], {alt \in 1 .. kids : Compared(m, l, r, alt)})
      new == [i \in DOMAIN alts |->
                Pair(m, l, r, alts[i]) \o <<Child(res.tree, target, alts[i])>>]
  IN
  /\ thread[m] = "merging" /\ stack[m] # <<>>
  /\ \/ /\ CompareNodes(m, l, r)
        /\ merged' = [merged EXCEPT ![m] = res]
        /\ stack' = [stack EXCEPT ![m] = new \o Tail(@)]
        /\ UNCHANGED pentagons
     \/ /\ ~CompareNodes(m, l, r)
        /\ merged' = [merged EXCEPT ![m] = CreatePentagon(@, target, m, l, r)]
        /\ pentagons' = [pentagons EXCEPT ![m] =
             Append(@, [pen |-> target, left |-> CountDescendants(TreeL(m), l),
                        right |-> CountDescendants(TreeR(m), r)])]
        /\ stack' = [stack EXCEPT ![m] = Tail(@)]
  /\ UNCHANGED <<trees, mutex, thread>>

\* Faulty Return: the mutex of the right tree stays locked.
ReturnKeepingRight(m) ==
  /\ thread[m] = "merging" /\ stack[m] = <<>>
  /\ mutex' = [mutex EXCEPT ![LeftOf[m]] = Free]
  /\ thread' = [thread EXCEPT ![m] = "finished"]
  /\ UNCHANGED <<trees, stack, merged, pentagons>>

\* the lockers release the mutexes, finished() is posted to the main thread
Return(m) ==
  /\ thread[m] = "merging" /\ stack[m] = <<>>
  /\ mutex' = [e \in Executions |-> IF mutex[e] = m THEN Free ELSE mutex[e]]
  /\ thread' = [thread EXCEPT ![m] = "finished"]
  /\ UNCHANGED <<trees, stack, merged, pentagons>>

-----------------------------------------------------------------------------
(* The builder threads: TreeBuilder::handleNode holds the mutex throughout *)

Grow(e, n, k, st) ==
  /\ mutex[e] = Free
  /\ n \in NodesOf(trees[e]) /\ trees[e].status[n] = "UNDETERMINED"
  /\ k > 0 => st = "BRANCH"
  /\ trees' = [trees EXCEPT ![e] = Promoted(@, n, k, st)]
  /\ UNCHANGED <<mutex, thread, stack, merged, pentagons>>

NoTree == [tree |-> [place |-> <<>>, status |-> <<>>], stats |-> NoStats]

MergerInit ==
  /\ \E k \in [Executions -> 0 .. MaxKids] :
       trees = [e \in Executions |-> Promoted(SingleNode("BRANCH"), Root, k[e], "BRANCH")]
  /\ mutex = [e \in Executions |-> Free]
  /\ thread = [m \in Mergers |-> "started"]
  /\ stack = [m \in Mergers |-> <<>>]
  /\ merged = [m \in Mergers |-> NoTree]
  /\ pentagons = [m \in Mergers |-> <<>>]

RunMerger(m) == LockLeft(m) \/ LockRight(m) \/ MergeNode(m) \/ Return(m)

AllNodes == SumFunction([e \in Executions |-> CountOf(trees[e])])

Build ==
  \E e \in Executions : \E n \in NodesOf(trees[e]), k \in 0 .. MaxKids, st \in Reported :
    AllNodes + k <= MaxNodes /\ Grow(e, n, k, st)

MergerNext == Build \/ \E m \in Mergers : RunMerger(m)

-----------------------------------------------------------------------------
(* Properties *)

MergerTypeOK ==
  /\ \A e \in Executions : \A n \in NodesOf(trees[e]) \ {Root} :
       Front(trees[e].place[n]) \in Places(trees[e])
  /\ \A e \in Executions :
       mutex[e] # Free => LeftOf[mutex[e]] = e \/ RightOf[mutex[e]] = e
  /\ \A m \in Mergers :
       /\ thread[m] \in {"started", "hasLeft", "merging", "finished"}
       /\ \A i \in DOMAIN stack[m] :
            /\ stack[m][i][1] \in NodesOf(TreeL(m)) \cup {NoNode}
            /\ stack[m][i][2] \in NodesOf(TreeR(m)) \cup {NoNode}
            /\ stack[m][i][3] \in NodesOf(merged[m].tree)

\* the places where both trees agree all the way from the root
Agreed(l, r) ==
  {p \in Places(l) \cap Places(r) :
     \A i \in 0 .. Len(p) : StatusAt(l, SubSeq(p, 1, i)) = StatusAt(r, SubSeq(p, 1, i))}

\* the places where they part
Disputed(l, r) ==
  {p \in (Places(l) \cup Places(r)) \ Agreed(l, r) :
     /\ p = <<>> \/ Front(p) \in Agreed(l, r)
     /\ p \notin Places(l) => StatusAt(r, p) \notin {"UNDETERMINED", "SKIPPED"}
     /\ p \notin Places(r) => StatusAt(l, p) \notin {"UNDETERMINED", "SKIPPED"}}

PlacesBelow(t, p) == {q \in Places(t) : IsPrefix(p, q)}
\* the place in the merged tree of what is at q below the pentagon at p
UnderPentagon(p, side, q) == p \o <<side>> \o SubSeq(q, Len(p) + 1, Len(q))

\* a merger that has done its work and still holds the mutexes
Complete(m) == thread[m] = "merging" /\ stack[m] = <<>>

\* The merged tree overlays the two trees.  It has a pentagon exactly where
\* they part, both subtrees are below it unchanged, everywhere else it has the
\* status both have, and it has nothing else but undetermined places for
\* extra children that nobody explored (tree_merger.cpp:105-274).
MergedFaithful ==
  \A m \in Mergers : Complete(m) =>
    LET t == merged[m].tree
        l == TreeL(m)
        r == TreeR(m)
        left == {c \in Disputed(l, r) \X Places(l) : IsPrefix(c[1], c[2])}
        right == {c \in Disputed(l, r) \X Places(r) : IsPrefix(c[1], c[2])}
        under == {UnderPentagon(c[1], 1, c[2]) : c \in left}
                   \cup {UnderPentagon(c[1], 2, c[2]) : c \in right}
    IN /\ {p \in Places(t) : StatusAt(t, p) = "MERGED"} = Disputed(l, r)
       /\ \A p \in Agreed(l, r) : p \in Places(t) /\ StatusAt(t, p) = StatusAt(l, p)
       /\ under \subseteq Places(t)
       /\ \A c \in left : StatusAt(t, UnderPentagon(c[1], 1, c[2])) = StatusAt(l, c[2])
       /\ \A c \in right : StatusAt(t, UnderPentagon(c[1], 2, c[2])) = StatusAt(r, c[2])
       /\ \A p \in Places(t) \ (under \cup Agreed(l, r) \cup Disputed(l, r)) :
            /\ StatusAt(t, p) = "UNDETERMINED" /\ ChildrenCount(t, At(t, p)) = 0

\* Every pentagon is listed once, with the number of nodes each tree has there,
\* 0 for a tree that has none (tree_merger.cpp:262-268).
PentagonsCounted ==
  \A m \in Mergers : Complete(m) =>
    LET t == merged[m].tree
    IN /\ Len(pentagons[m]) = Cardinality(Disputed(TreeL(m), TreeR(m)))
       /\ \A p \in Disputed(TreeL(m), TreeR(m)) : \E i \in DOMAIN pentagons[m] :
            pentagons[m][i] = [pen |-> At(t, p),
                               left |-> Cardinality(PlacesBelow(TreeL(m), p)),
                               right |-> Cardinality(PlacesBelow(TreeR(m), p))]

\* What the statistics of the merged tree say: the root is counted twice,
\* because createRoot has counted a branch that is promoted again, so there is
\* one branch too many and one undetermined node too few; every other count is
\* exact (node_tree.cpp:180, tree_merger.cpp:178-202).
OnlyRootMiscounted ==
  \A m \in Mergers : Complete(m) =>
    LET t == merged[m].tree
        count(st) == Cardinality({n \in NodesOf(t) : t.status[n] = st})
    IN merged[m].stats =
         [branch |-> count("BRANCH") + 1, failed |-> count("FAILED"),
          solved |-> count("SOLVED"), skipped |-> count("SKIPPED"),
          undet |-> count("UNDETERMINED") - 1]

\* The numbers of a merge, in the list of pentagons and in the statistics, are
\* those of the trees, but for the root.
MergeCounted == PentagonsCounted /\ OnlyRootMiscounted

\* two mergers wait for each other
Crossed ==
  \E a, b \in Mergers :
    /\ thread[a] = "hasLeft" /\ mutex[RightOf[a]] = b
    /\ thread[b] = "hasLeft" /\ mutex[RightOf[b]] = a
=============================================================================
