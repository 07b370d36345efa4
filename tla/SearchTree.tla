------------------------------ MODULE SearchTree ------------------------------
(***************************************************************************)
(* What the search tree promises to the views that draw it: a tree that    *)
(* grows as the solver reports its nodes, and the set of inner nodes whose *)
(* subtrees have been reported as failed.  Nothing is kept incrementally:  *)
(* a subtree is judged by looking at all of it after every step.           *)
(***************************************************************************)
EXTENDS Integers, Sequences, FiniteSets

CONSTANT Reports  \* [kids, status] the solver may report of a node

VARIABLES
  kids,      \* the children of each node, left to right
  status,    \* what is known of each node
  reported   \* inner nodes whose subtrees have been reported as failed

vars == <<kids, status, reported>>

Nodes == DOMAIN status

\* All nodes reached from n by going down.
Below(n) ==
  LET down == {S \in SUBSET Nodes :
                 /\ n \in S
                 /\ \A m \in S : \A i \in DOMAIN kids[m] : kids[m][i] \in S}
  IN  {d \in Nodes : \A S \in down : d \in S}

Unfinished(d) == status[d] = "UNDETERMINED" \/ (status[d] = "BRANCH" /\ kids[d] = <<>>)

FailedSubtree(n) ==
  /\ kids[n] # <<>>
  /\ \A d \in Below(n) : ~Unfinished(d) /\ status[d] # "SOLVED"

ReportFailures == reported' = reported \cup {n \in Nodes' : FailedSubtree(n)'}

\* k more nodes, children of n to the right of the ones it has
Grow(n, k) ==
  LET count == Cardinality(Nodes)
  IN  kids' = [m \in Nodes \cup count .. count + k - 1 |->
                 IF m \notin Nodes THEN <<>>
                 ELSE IF m = n THEN kids[n] \o [i \in 1 .. k |-> count + i - 1]
                 ELSE kids[m]]

Start(k) ==
  /\ Nodes = {}
  /\ status' = [n \in 0 .. k |-> IF n = 0 THEN "BRANCH" ELSE "UNDETERMINED"]
  /\ kids' = [n \in 0 .. k |-> IF n = 0 THEN [i \in 1 .. k |-> i] ELSE <<>>]
  /\ UNCHANGED reported

Report(n, k, st) ==
  /\ status[n] = "UNDETERMINED"
  /\ Grow(n, k)
  /\ status' = [m \in DOMAIN kids' |->
                  CASE m = n        -> st
                    [] m \in Nodes \ {n} -> status[m]
                    [] OTHER        -> "UNDETERMINED"]
  /\ ReportFailures

Extend(n) ==
  /\ Grow(n, 1)
  /\ status' = [m \in DOMAIN kids' |->
                  IF m \in Nodes THEN status[m] ELSE "UNDETERMINED"]
  /\ UNCHANGED reported

Init ==
  /\ kids = <<>> /\ status = <<>>
  /\ reported = {}

\* A restart-based search starts with a root that has no children.
InitRestarts ==
  /\ kids = [n \in {0} |-> <<>>] /\ status = [n \in {0} |-> "BRANCH"]
  /\ reported = {}

Next ==
  \/ \E r \in Reports : Start(r.kids)
  \/ \E n \in Nodes, r \in Reports : Report(n, r.kids, r.status)
  \/ \E n \in Nodes : Extend(n)

Spec == (Init \/ InitRestarts) /\ [][Next]_vars
=============================================================================
