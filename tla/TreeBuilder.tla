----------------------------- MODULE TreeBuilder -----------------------------
(***************************************************************************)
(* The builder of one execution (tree_builder.cpp): it turns the node      *)
(* messages of a solver, which name nodes by the solver's own identifiers, *)
(* into modifications of the search tree, and records in the IdMap of      *)
(* SolverData which node every identifier stands for.                      *)
(*                                                                         *)
(* The messages come from one solver over one connection, so they arrive   *)
(* in the order they were sent: a node after its parent.  The tree mutex   *)
(* is held for the modification only; looking up the parent precedes it    *)
(* and registering the new identifier follows it.  For a restart the       *)
(* modification is two calls, addExtraChild and promoteNode, each of which *)
(* emits its signals.                                                      *)
(***************************************************************************)
EXTENDS Integers, Sequences, FiniteSets, Functions

CONSTANTS
  MaxNodes, MaxKids,
  Uids,          \* the solver's node identifiers, {nid, rid, tid}
  NoUid,         \* the parent identifier of a root, whose nid is -1
  NoMsg

ASSUME BoundsAssumption == MaxNodes \in Nat /\ MaxKids \in Nat

VARIABLES
  restarts, nodeCount, parent, kids, status, hasSolved, hasOpen, stats, collapsed,
  uid2id,        \* IdMap::uid2id_
  nid2uid,       \* IdMap::nid2uid_
  restartCount,  \* restart_count
  step,          \* where the builder thread is in handleNode
  msg,           \* the message it handles
  target,        \* the node it has placed the message at
  handled        \* the messages handled so far (history)

Tree == INSTANCE NodeTree

treeVars ==
  <<restarts, nodeCount, parent, kids, status, hasSolved, hasOpen, stats, collapsed>>
builderVars == <<uid2id, nid2uid, restartCount, step, msg, target, handled>>
vars == <<treeVars, builderVars>>

Nodes == Tree!Nodes
NoNode == Tree!NoNode
Root == Tree!Root

Messages == [uid : Uids, puid : Uids \cup {NoUid}, alt : 0 .. MaxKids,
             kids : 0 .. MaxKids, status : {"FAILED", "SOLVED", "SKIPPED", "BRANCH"}]

-----------------------------------------------------------------------------
(* IdMap *)

\* IdMap::get: NoNode for an identifier that is not there
GetNodeId(uid) == IF uid \in DOMAIN uid2id THEN uid2id[uid] ELSE NoNode

\* unordered_map::insert: an entry that exists is kept
Insert(map, key, value) ==
  [k \in DOMAIN map \cup {key} |-> IF k \in DOMAIN map THEN map[k] ELSE value]

\* Faulty SetNodeId: the second map is forgotten.
SetUidOnly(uid, nid) == uid2id' = Insert(uid2id, uid, nid) /\ UNCHANGED nid2uid

SetNodeId(uid, nid) ==
  /\ uid2id' = Insert(uid2id, uid, nid)
  /\ nid2uid' = Insert(nid2uid, nid, uid)

-----------------------------------------------------------------------------
(* handleNode *)

ParentOf(m) == IF m.puid = NoUid THEN NoNode ELSE GetNodeId(m.puid)

\* What the tree throws, or calls std::terminate, at: a second root, getChild
\* on a node without children, children for a node that has some.
Rejects(m) ==
  LET pid == ParentOf(m)
  IN  IF pid = NoNode
      THEN ~restarts /\ nodeCount > 0
      ELSE kids[pid] # <<>> =>
             m.kids > 0 /\ kids[Tree!GetChild(pid, m.alt)] # <<>>

Begin(m) ==
  /\ step = "idle"
  /\ msg' = m

\* A slot of the Qt event loop does not catch: the process ends.
Abort(m) ==
  /\ Begin(m)
  /\ Rejects(m)
  /\ step' = "aborted"
  /\ UNCHANGED <<treeVars, uid2id, nid2uid, restartCount, target, handled>>

PlaceRoot(m) ==
  /\ Begin(m)
  /\ ParentOf(m) = NoNode /\ ~restarts /\ ~Rejects(m)
  /\ Tree!CreateRoot(m.kids)
  /\ target' = Root
  /\ step' = "placed"
  /\ UNCHANGED <<uid2id, nid2uid, restartCount, handled>>

\* Faulty PlaceNode: the parent is promoted instead of the child.
PlaceAtParent(m) ==
  LET pid == ParentOf(m) IN
  /\ Begin(m)
  /\ pid # NoNode /\ ~Rejects(m)
  /\ Tree!Promote(pid, 0, m.status)
  /\ target' = pid
  /\ step' = "placed"
  /\ UNCHANGED <<uid2id, nid2uid, restartCount, handled>>

PlaceNode(m) ==
  LET pid == ParentOf(m) IN
  /\ Begin(m)
  /\ pid # NoNode /\ ~Rejects(m)
  /\ Tree!Promote(Tree!GetChild(pid, m.alt), m.kids, m.status)
  /\ target' = Tree!GetChild(pid, m.alt)
  /\ step' = "placed"
  /\ UNCHANGED <<uid2id, nid2uid, restartCount, handled>>

ExtendRoot(m) ==
  /\ Begin(m)
  /\ ParentOf(m) = NoNode /\ restarts
  /\ Tree!AddExtraChild(Root)
  /\ step' = "extended"
  /\ UNCHANGED <<uid2id, nid2uid, restartCount, target, handled>>

\* Faulty PlaceRestart: restart_count is not incremented.
PlaceRestartUncounted ==
  /\ step = "extended"
  /\ Tree!Promote(Tree!GetChild(Root, restartCount), msg.kids, msg.status)
  /\ target' = Tree!GetChild(Root, restartCount)
  /\ step' = "placed"
  /\ UNCHANGED <<uid2id, nid2uid, restartCount, msg, handled>>

PlaceRestart ==
  /\ step = "extended"
  /\ Tree!Promote(Tree!GetChild(Root, restartCount), msg.kids, msg.status)
  /\ target' = Tree!GetChild(Root, restartCount)
  /\ restartCount' = restartCount + 1
  /\ step' = "placed"
  /\ UNCHANGED <<uid2id, nid2uid, msg, handled>>

Register ==
  /\ step = "placed"
  /\ SetNodeId(msg.uid, target)
  /\ handled' = handled \cup {msg}
  /\ step' = "idle"
  /\ msg' = NoMsg
  /\ target' = NoNode
  /\ UNCHANGED <<treeVars, restartCount>>

-----------------------------------------------------------------------------
(* The solver: what it may send next.  Identifiers are unique, a parent is *)
(* sent before its children, at most one node for every alternative of its *)
(* parent, one root unless it restarts, children for branch nodes only.    *)
(* A number of children that is not known yet is announced as 0.           *)

Fits(m) == nodeCount + m.kids + (IF m.puid = NoUid THEN 1 ELSE 0) <= MaxNodes

MaySend(m) ==
  /\ \A h \in handled : h.uid # m.uid
  /\ m.status # "BRANCH" => m.kids = 0
  /\ Fits(m)
  /\ IF m.puid = NoUid
     THEN m.alt = 0 /\ (restarts \/ handled = {})
     ELSE /\ \E h \in handled :
               /\ h.uid = m.puid
               /\ \/ m.alt < h.kids
                  \/ h.kids = 0 /\ h.status = "BRANCH"
          /\ \A h \in handled : h.puid = m.puid => h.alt # m.alt

HandleNode(m) ==
  /\ MaySend(m)
  /\ Abort(m) \/ PlaceRoot(m) \/ PlaceNode(m) \/ ExtendRoot(m)

Init ==
  /\ Tree!Init
  /\ uid2id = <<>> /\ nid2uid = <<>>
  /\ restartCount = 0
  /\ step = "idle" /\ msg = NoMsg /\ target = NoNode
  /\ handled = {}

Next ==
  \/ \E m \in Messages : HandleNode(m)
  \/ PlaceRestart
  \/ Register

Spec == Init /\ [][Next]_vars

-----------------------------------------------------------------------------
(* Properties *)

TypeOK ==
  /\ Tree!TypeOK
  /\ DOMAIN uid2id \subseteq Uids /\ Range(uid2id) \subseteq Nodes
  /\ DOMAIN nid2uid \subseteq Nodes /\ Range(nid2uid) \subseteq Uids
  /\ restartCount \in Nat
  /\ step \in {"idle", "extended", "placed", "aborted"}
  /\ msg \in Messages \cup {NoMsg}
  /\ target \in Nodes \cup {NoNode}
  /\ handled \subseteq Messages

\* The only message of a solver that keeps the protocol the tree throws at is a
\* child of a branch node announced with 0 children; if the numbers of children
\* are known, there is no such message.
AbortsOnlyOnUnannounced ==
  step = "aborted" => \E h \in handled : h.uid = msg.puid /\ h.kids = 0

\* The tree is the tree the solver explored: every message handled has a node
\* of its own, below the node of its parent message and at the alternative it
\* named; the roots of restarts are the children of the dummy root, in order.
MirrorsSolver ==
  /\ \A m \in handled :
       /\ m.uid \in DOMAIN uid2id
       /\ LET n == uid2id[m.uid] IN
          /\ IF m.puid = NoUid
             THEN n = Root \/ (restarts /\ parent[n] = Root)
             ELSE n = kids[uid2id[m.puid]][m.alt + 1]
          /\ n # Root => status[n] = m.status
          /\ Len(kids[n]) = m.kids
  /\ \A m1, m2 \in handled : m1 # m2 => uid2id[m1.uid] # uid2id[m2.uid]

\* Every message ends as the node it describes, unless the tree throws, which is
\* only at the one message handleNode is not prepared for.
BuildsWhatIsSent == MirrorsSolver /\ AbortsOnlyOnUnannounced

\* Every node the solver has reported can be traced back to the solver's
\* identifier (getSolverID), and only those nodes can: the two maps of IdMap
\* stay inverse to each other.
IdMapExact ==
  /\ \A n \in Nodes : n \in DOMAIN nid2uid <=>
       /\ status[n] # "UNDETERMINED"
       /\ ~Tree!RestartRoot(n)
       /\ n # target
  /\ Range(nid2uid) = DOMAIN uid2id
  /\ \A n \in DOMAIN nid2uid : uid2id[nid2uid[n]] = n

\* Between any two steps of handleNode the tree and the two maps are well formed
\* and tell of each other.
IdMapSound == TypeOK /\ IdMapExact

\* Handling messages drives the tree through the operations of its
\* specification only.
ImplementsNodeTree == Tree!Spec

-----------------------------------------------------------------------------
(* What the documentation says *)

\* README.md, "If not known, can be set to 0 and the node will be extended with
\* extra children later on if necessary": announcing 0 children is harmless.
UnknownKidsAccepted == step # "aborted"

\* README.md, "If a subtree contains no solutions, it can be collapsed":
\* no reported solution lies in a subtree collapsed as failed.
CollapsedHoldsNoSolution ==
  \A n \in collapsed : \A d \in Tree!Subtree(n) : status[d] # "SOLVED"
=============================================================================
