---------------------------------- MODULE View ----------------------------------
(***************************************************************************)
(* The traditional view of a growing tree: TraditionalView, VisualFlags,   *)
(* LayoutComputer, Layout and the cursors that lay out, draw and collapse  *)
(* (src/src/cpprofiler/tree).                                              *)
(*                                                                         *)
(* The builder thread changes the tree under the tree mutex.  While it     *)
(* holds it, two of the tree's signals run slots of the view in the        *)
(* builder's thread: childrenStructureChanged notes a node to be laid out  *)
(* again, failedSubtreeClosed hides a subtree.  A third, structureUpdated, *)
(* is queued to the main thread and makes the layout outdated.             *)
(* The main thread carries out the user's commands and, on a timer,        *)
(* recomputes an outdated layout; draws when asked.  Only the main thread  *)
(* touches the layout.                                                     *)
(*                                                                         *)
(* Shapes are abstracted to what they stand for: the looks of the nodes    *)
(* they enclose, as they were when each was laid out.  An access outside   *)
(* the layout's arrays and a command that uses the tree or the flags       *)
(* without the mutex while the builder holds it are undefined; the model   *)
(* stops there (fault).                                                    *)
(***************************************************************************)
EXTENDS Integers, Sequences, FiniteSets

CONSTANTS
  MaxNodes, MaxKids,   \* as in NodeTree
  MaxCommands,         \* bound on the commands of the user
  MaxEvents,           \* bound on nodes and commands together
  Limits               \* the values the lantern slider takes

ASSUME BoundsAssumption ==
  MaxNodes \in Nat /\ MaxKids \in Nat /\ MaxCommands \in Nat /\ Limits \subseteq Nat

VARIABLES
  restarts, nodeCount, parent, kids, status, hasSolved, hasOpen, stats, collapsed,
  flags,     \* VisualFlags: hidden_nodes_, label_shown_, lantern_sizes_
  layout,    \* Layout: dirty_, layout_done_, shapes_ (all of the same size)
  du,        \* LayoutComputer::du_node_set_
  stale,     \* TraditionalView::layout_stale_
  posted,    \* setLayoutOutdated is queued for the main thread
  building,  \* the builder thread holds the tree mutex
  main,      \* where the main thread is: idle, or in updateLayout
  commands,  \* the number of commands given
  fault      \* undefined behaviour has occurred

Tree == INSTANCE NodeTree

treeVars ==
  <<restarts, nodeCount, parent, kids, status, hasSolved, hasOpen, stats, collapsed>>
vars == <<treeVars, flags, layout, du, stale, posted, building, main, commands, fault>>

Nodes == Tree!Nodes
Root == Tree!Root
NoNode == Tree!NoNode

\* The same as in NodeTree, walked node by node.
Ancestors(n) ==
  LET up[m \in Nodes] == {m} \cup IF m = Root THEN {} ELSE up[parent[m]] IN up[n]

Subtree(n) == {d \in Nodes : n \in Ancestors(d)}

IsLeaf(n) == kids[n] = <<>>
LastOf(s) == s[Len(s)]

-----------------------------------------------------------------------------
(* The looks of nodes *)

IsRightMostChild(n) == n # Root /\ LastOf(kids[parent[n]]) = n

\* A label is set when its node is reported and is empty before; it stands to
\* the left of the node, or to the right of a right-most child.
Label(f, n) ==
  CASE n \notin f.labelled         -> "none"
    [] status[n] = "UNDETERMINED"  -> "empty"
    [] IsRightMostChild(n)         -> "right"
    [] OTHER                       -> "left"

\* The part of a node's look that its shape allows for: computeForNodeNary
\* has no room for a label.
LabelRoom(f, n) ==
  IF n \notin f.hidden /\ Len(kids[n]) > 2 THEN "none" ELSE Label(f, n)

\* VisualFlags::lanternSize of a hidden node, -1 for a triangle
LanternSize(f, n) ==
  IF n \in f.hidden /\ n \in DOMAIN f.lantern THEN f.lantern[n] ELSE -1

Look(f, n) ==
  [node |-> n, hidden |-> n \in f.hidden, lantern |-> LanternSize(f, n),
   label |-> LabelRoom(f, n)]

-----------------------------------------------------------------------------
(* LayoutComputer::compute *)

\* The nodes the arrays of the layout have entries for.
Allocated(l) == DOMAIN l.shape

\* growDataStructures: new nodes are dirty and have no shape
Grow(l) ==
  [dirty |-> l.dirty \cup (Nodes \ Allocated(l)),
   done  |-> l.done,
   shape |-> [n \in Nodes |-> IF n \in Allocated(l) THEN l.shape[n] ELSE {}]]

\* dirtyUp: from n upwards as long as nodes are not dirty
DirtyUp(n, dirty) ==
  {a \in Ancestors(n) :
     \A b \in Ancestors(n) : a \in Ancestors(b) => b \notin dirty}

DirtyUpAll(l, D) == [l EXCEPT !.dirty = @ \cup UNION {DirtyUp(n, l.dirty) : n \in D}]

\* The nodes LayoutCursor comes by and finds dirty: it goes down from the root
\* through dirty nodes that are not hidden.
Visit(f, l) ==
  {n \in l.dirty : \A a \in Ancestors(n) \ {n} : a \in l.dirty \ f.hidden}

\* Faulty LayOut: a parent is laid out before its children.
LayOutPreorder(f, l) ==
  LET visited == Visit(f, l) IN
  [dirty |-> l.dirty \ visited,
   done  |-> l.done \cup visited,
   shape |-> [n \in Nodes |->
                IF n \notin visited THEN l.shape[n]
                ELSE {Look(f, n)} \cup
                     IF n \in f.hidden THEN {}
                     ELSE UNION {l.shape[kids[n][i]] : i \in DOMAIN kids[n]}]]

\* The postorder run of LayoutCursor: children are laid out before their parent.
LayOut(f, l) ==
  LET visited == Visit(f, l)
      shape[n \in Nodes] ==
        IF n \notin visited THEN l.shape[n]
        ELSE {Look(f, n)} \cup
             IF n \in f.hidden THEN {}
             ELSE UNION {shape[kids[n][i]] : i \in DOMAIN kids[n]}
  IN  [dirty |-> l.dirty \ visited, done |-> l.done \cup visited, shape |-> shape]

Compute(f, l, D) ==
  IF nodeCount = 0 THEN l ELSE LayOut(f, DirtyUpAll(Grow(l), D))

-----------------------------------------------------------------------------
(* DrawingCursor, when the whole tree is in the viewport *)

OlderSiblings(n) ==
  LET s == kids[parent[n]]
  IN  {s[j] : j \in {j \in DOMAIN s : \E i \in DOMAIN s : s[i] = n /\ j <= i}}

\* The cursor goes down through nodes that are not hidden to a first child that
\* is laid out, and from there sidewards as long as siblings are laid out.
MayDraw(n) ==
  /\ n \in layout.done
  /\ n # Root => parent[n] \notin flags.hidden /\ OlderSiblings(n) \subseteq layout.done

Drawn == {n \in Nodes : \A a \in Ancestors(n) : MayDraw(a)}

Visible(f) == {n \in Nodes : (Ancestors(n) \ {n}) \cap f.hidden = {}}

-----------------------------------------------------------------------------
(* The builder thread *)

\* There is something left to report.
MayBuild ==
  \/ nodeCount = 0
  \/ \E n \in Nodes : status[n] = "UNDETERMINED"
  \/ restarts /\ nodeCount < MaxNodes /\ nodeCount + commands < MaxEvents

LockTree ==
  /\ MayBuild
  /\ ~building /\ ~fault
  /\ building' = TRUE
  /\ UNCHANGED <<treeVars, flags, layout, du, stale, posted, main, commands, fault>>

\* The steps of the tree; to the view a skipped node is what a failed one is,
\* and a branch node without children what an undetermined one is.
Build ==
  \/ \E k \in 1 .. MaxKids : ~restarts /\ Tree!CreateRoot(k)
  \/ \E pid \in Nodes, alt \in 0 .. nodeCount,
        r \in {r \in Tree!Reports : r.status # "SKIPPED" /\ (r.status = "BRANCH" => r.kids > 0)} :
       Tree!PromoteNode(pid, alt, r)
  \/ restarts /\ Tree!AddExtraChild(Root)

\* Faulty Restructured: the signal is forgotten.
RestructuredSilently == {}

\* The nodes childrenStructureChanged is emitted for in a step of the tree.
Restructured == {n \in Nodes : kids'[n] # kids[n]}

\* The nodes failedSubtreeClosed is emitted for.
FailedClosed ==
  LET reported == {x \in Nodes : status'[x] # status[x] /\ Tree!IsClosing(status'[x])}
  IN  {m \in UNION {Tree!ClosedBy(n, status') \ {n} : n \in reported} : ~hasSolved'[m]}

\* Faulty Signal: structureUpdated is not connected.
SignalLost == UNCHANGED posted

Signal == posted' = TRUE

\* A modification of the tree, with the slots that run in the builder thread:
\* dirtyUpLater and hideNode.
Modify ==
  /\ building /\ ~fault
  /\ Build
  /\ nodeCount' + commands <= MaxEvents
  /\ du' = du \cup Restructured \cup FailedClosed
  /\ flags' = [flags EXCEPT !.hidden = @ \cup FailedClosed]
  /\ stale' = (stale \/ FailedClosed # {})
  /\ Signal
  /\ building' = FALSE
  /\ UNCHANGED <<layout, main, commands, fault>>

-----------------------------------------------------------------------------
(* Updating the layout *)

SetLayoutOutdated ==
  /\ main = "idle" /\ ~fault
  /\ posted
  /\ posted' = FALSE
  /\ stale' = TRUE
  /\ UNCHANGED <<treeVars, flags, layout, du, building, main, commands, fault>>

AutoUpdate ==
  /\ main = "idle" /\ ~fault
  /\ stale
  /\ main' = "compute"
  /\ UNCHANGED <<treeVars, flags, layout, du, stale, posted, building, commands, fault>>

\* compute waits for the tree mutex unless there is no node.
ComputeLayout ==
  /\ main = "compute" /\ ~fault
  /\ building => nodeCount = 0
  /\ main' = "clear"
  /\ du' = {}
  /\ layout' = Compute(flags, layout, du)
  /\ UNCHANGED <<treeVars, flags, stale, posted, building, commands, fault>>

\* After the mutexes are released.
ClearStale ==
  /\ main = "clear" /\ ~fault
  /\ stale' = FALSE
  /\ main' = "idle"
  /\ UNCHANGED <<treeVars, flags, layout, du, posted, building, commands, fault>>

-----------------------------------------------------------------------------
(* The commands of the user, given for a current node n *)

Command ==
  /\ main = "idle" /\ ~fault
  /\ commands < MaxCommands /\ nodeCount + commands < MaxEvents
  /\ commands' = commands + 1
  /\ UNCHANGED <<treeVars, posted, building>>

Undefined == fault' = TRUE /\ UNCHANGED <<flags, layout, du, stale, main>>

Nothing == UNCHANGED <<flags, layout, du, stale, main, fault>>

\* A command that does not take the mutexes; updateLayout follows when they are free.
LaterUpdate(f, D) ==
  /\ flags' = f
  /\ du' = du \cup D
  /\ main' = "compute"
  /\ UNCHANGED <<layout, stale, fault>>

\* needsLayoutUpdate under the mutexes, which are recursive: updateLayout runs at once.
UpdateNow(f, l, D) ==
  /\ flags' = f
  /\ layout' = Compute(f, l, D)
  /\ du' = {}
  /\ stale' = FALSE
  /\ UNCHANGED <<main, fault>>

\* hideNode, unhideNode and setNodeHidden in terms of sets
Hide(f, S) == [f EXCEPT !.hidden = @ \cup S]
Unhide(f, S) == [f EXCEPT !.hidden = @ \ S]
SetLabels(f, S, shown) ==
  [f EXCEPT !.labelled = IF shown THEN @ \cup S ELSE @ \ S]
Undone(l, S) == [l EXCEPT !.done = @ \ S]

\* Does not take the mutex.
ToggleHidden(n) ==
  /\ ~IsLeaf(n)
  /\ Command
  /\ IF building THEN Undefined
     ELSE LaterUpdate(IF n \in flags.hidden THEN Unhide(flags, {n})
                                            ELSE Hide(flags, {n}), {n})

\* Faulty ShouldHide: open subtrees, too.
ShouldHideOpen(n) == ~IsLeaf(n) /\ n \notin flags.hidden /\ ~hasSolved[n]

ShouldHide(n) ==
  ~IsLeaf(n) /\ n \notin flags.hidden /\ ~hasSolved[n] /\ ~hasOpen[n]

\* HideFailedCursor goes down from n through nodes that are neither failed nor
\* hidden.
FailedBelow(n) ==
  {d \in Subtree(n) :
     /\ ShouldHide(d)
     /\ \A a \in (Ancestors(d) \ {d}) \cap Subtree(n) :
          (hasSolved[a] \/ hasOpen[a]) /\ a \notin flags.hidden}

\* Does not take the mutex.
HideFailed(n) ==
  /\ Command
  /\ IF building THEN Undefined
     ELSE IF FailedBelow(n) = {} THEN Nothing
     ELSE LaterUpdate(Hide(flags, FailedBelow(n)), FailedBelow(n))

\* Does not take the mutex.
ShowLabelsDown(n) ==
  /\ Command
  /\ IF building THEN Undefined
     ELSE LaterUpdate(SetLabels(flags, Subtree(n), n \notin flags.labelled), Subtree(n))

\* Does not take the mutex.  For the root it is toggleShowLabel, which notes
\* the node but does not ask for an update.
ShowLabelsUp(n) ==
  /\ Command
  /\ IF building THEN Undefined
     ELSE IF n = Root
     THEN /\ flags' = SetLabels(flags, {Root}, Root \notin flags.labelled)
          /\ du' = du \cup {Root}
          /\ UNCHANGED <<layout, stale, main, fault>>
     ELSE LaterUpdate(SetLabels(flags, Ancestors(n), parent[n] \notin flags.labelled),
                      Ancestors(n))

\* The current node may be centered: its path has offsets, the root a shape.
Centered(n) == (n # NoNode => n \in Allocated(layout)) /\ Root \in Allocated(layout)

\* centerCurrentNode, also at the end of navRoot
CenterNode(n) ==
  /\ Command
  /\ IF building \/ ~Centered(n) THEN Undefined ELSE Nothing

\* handleDoubleClick of a node that can be clicked on, collapsed
UnhideNode(n) ==
  /\ n \in Drawn \cap flags.hidden
  /\ status[n] = "BRANCH"
  /\ Command
  /\ IF building THEN Undefined
     ELSE UpdateNow(Unhide(flags, {n}), Undone(layout, {n}), du \cup {n})

HiddenAt(n) == flags.hidden \cap Subtree(n)

\* Takes the mutex first.  For the root it is unhideAll, which centers nothing
\* when nothing was hidden.
UnhideAllAt(n) ==
  /\ ~building
  /\ Command
  /\ IF HiddenAt(n) = {}
     THEN IF n = Root \/ Centered(n) THEN Nothing ELSE Undefined
     ELSE IF HiddenAt(n) \subseteq Allocated(layout)
     THEN UpdateNow(Unhide(flags, HiddenAt(n)), Undone(layout, HiddenAt(n)),
                    du \cup HiddenAt(n))
     ELSE Undefined

\* Takes the mutex first; marks the whole path as dirty.
RevealNode(n) ==
  /\ ~building
  /\ Command
  /\ IF n \in Allocated(layout)
     THEN UpdateNow(Unhide(flags, Ancestors(n)),
                    [Undone(layout, Ancestors(n)) EXCEPT !.dirty = @ \cup Ancestors(n)],
                    du)
     ELSE Undefined

\* The inner nodes of at most limit nodes below nodes of more.
LanternNodes(limit) ==
  {n \in Nodes :
     /\ ~IsLeaf(n)
     /\ Cardinality(Subtree(n)) <= limit
     /\ \A a \in Ancestors(n) \ {n} : Cardinality(Subtree(a)) > limit}

MaxLantern == 127

\* Takes the mutex first: unhideAll, with an update of its own if anything was
\* hidden, then the lanterns.
HideBySize(limit) ==
  LET shown == Unhide(flags, flags.hidden)
      first == IF flags.hidden = {} THEN layout
               ELSE Compute(shown, Undone(layout, flags.hidden), du \cup flags.hidden)
      rest == IF flags.hidden = {} THEN du ELSE {}
      lanterns == LanternNodes(limit)
  IN
  /\ ~building
  /\ Command
  /\ IF nodeCount > 0 /\ flags.hidden \subseteq Allocated(layout)
                      /\ lanterns \subseteq Allocated(first)
     THEN UpdateNow(
            [Hide(shown, lanterns) EXCEPT
               !.lantern = [n \in lanterns |->
                              (Cardinality(Subtree(n)) * MaxLantern) \div limit]],
            Undone(first, lanterns), rest \cup lanterns)
     ELSE Undefined

\* Switching the lanterns off; does not take the mutex.
UndoLanterns ==
  /\ flags.lantern # <<>>
  /\ Command
  /\ IF building \/ ~(flags.hidden \subseteq Allocated(layout)) THEN Undefined
     ELSE IF flags.hidden = {}
     THEN /\ flags' = [flags EXCEPT !.lantern = <<>>]
          /\ UNCHANGED <<layout, du, stale, main, fault>>
     ELSE /\ flags' = [Unhide(flags, flags.hidden) EXCEPT !.lantern = <<>>]
          /\ layout' = Undone(layout, flags.hidden)
          /\ du' = du \cup flags.hidden
          /\ main' = "compute"
          /\ UNCHANGED <<stale, fault>>

UserCommand ==
  \/ \E n \in Nodes :
       \/ ToggleHidden(n) \/ HideFailed(n) \/ ShowLabelsDown(n) \/ ShowLabelsUp(n)
       \/ UnhideNode(n) \/ UnhideAllAt(n) \/ RevealNode(n)
  \/ \E n \in Nodes \cup {NoNode} : CenterNode(n)
  \/ \E limit \in Limits : HideBySize(limit)
  \/ UndoLanterns

-----------------------------------------------------------------------------
(* The specification *)

Init ==
  /\ Tree!Init
  /\ flags = [hidden |-> {}, labelled |-> {}, lantern |-> <<>>]
  /\ layout = [dirty |-> {}, done |-> {}, shape |-> <<>>]
  /\ du = {}
  /\ stale = TRUE
  /\ posted = FALSE
  /\ building = FALSE
  /\ main = "idle"
  /\ commands = 0
  /\ fault = FALSE

Next ==
  \/ LockTree \/ Modify
  \/ SetLayoutOutdated \/ AutoUpdate \/ ComputeLayout \/ ClearStale
  \/ UserCommand

\* The builder thread lets go of the mutex it has taken, so updateLayout returns;
\* the event loop of the main thread handles what is queued and its timer.
Fairness ==
  /\ []<>~building /\ []<>(main = "idle")
  /\ WF_vars(SetLayoutOutdated) /\ WF_vars(AutoUpdate)

Spec == Init /\ [][Next]_vars /\ Fairness

-----------------------------------------------------------------------------
(* Properties *)

Looks ==
  [node : Nodes, hidden : BOOLEAN, lantern : -1 .. MaxLantern,
   label : {"none", "empty", "left", "right"}]

TypeOK ==
  /\ flags.hidden \subseteq {n \in Nodes : ~IsLeaf(n)} /\ flags.labelled \subseteq Nodes
  /\ DOMAIN flags.lantern \subseteq Nodes
  /\ Allocated(layout) \subseteq Nodes
  /\ layout.dirty \subseteq Allocated(layout) /\ layout.done \subseteq Allocated(layout)
  /\ \A n \in Allocated(layout) : layout.shape[n] \subseteq Looks
  /\ du \subseteq Nodes
  /\ stale \in BOOLEAN /\ posted \in BOOLEAN /\ building \in BOOLEAN /\ fault \in BOOLEAN
  /\ main \in {"idle", "compute", "clear"}
  /\ commands \in 0 .. MaxCommands

\* No update of the layout is under way or due.
Quiet == main = "idle" /\ ~stale /\ ~posted

Unlabelled(S) == {[l EXCEPT !.label = "none"] : l \in S}

\* The layout of the root is what laying out the visible nodes from scratch
\* would give, but for labels.
UpToDate ==
  /\ Root \in Allocated(layout)
  /\ Unlabelled(layout.shape[Root]) =
       Unlabelled({Look(flags, n) : n \in Visible(flags)})

\* When no update is due the layout agrees with the tree and the flags: of the
\* three ways a change is noted (du_node_set_, layout_stale_ and the queued
\* setLayoutOutdated, from two threads, with layout_stale_ cleared after the
\* mutexes are released) none is lost, and stopping at the first dirty node on
\* the way up, or at the first clean one on the way down, misses nothing.
QuietIsUpToDate == Quiet /\ nodeCount > 0 /\ ~fault => UpToDate

\* The drawing cursor, which goes by layout_done_, reaches every visible node
\* and no other once no update is due, although revealing nodes resets it.
DrawsWhatIsVisible == Quiet /\ nodeCount > 0 /\ ~fault => Drawn = Visible(flags)

\* At any time, also when the tree has outgrown the layout, a drawn node lies
\* within the shapes of all nodes above it (and so they have one): the cursor
\* dereferences the shape of every node it meets and clips by its bounding box.
DrawnWithinShapes ==
  main = "idle" => \A n \in Drawn : \A a \in Ancestors(n) :
    a \in Allocated(layout) /\ \E l \in layout.shape[a] : l.node = n

\* Undefined behaviour needs a tree that is empty or being built, or an update
\* that is due: in a view at rest every command is safe.
AtRestIsSafe == fault => nodeCount = 0 \/ building \/ ~Quiet

\* Drawing and commands find the layout they need: at any time no drawn node is
\* without a shape above it, at rest the drawn nodes are the visible ones, and a
\* command at rest touches nothing that is not there.
DrawnSafely == TypeOK /\ DrawsWhatIsVisible /\ DrawnWithinShapes /\ AtRestIsSafe

\* "Hide failed" leaves no failed subtree below the current node expanded and
\* hides no other: of what is still visible, every inner node has a solution or
\* something still to come below it, and what has been hidden has neither (but
\* for the dummy root of restarts, whose flags are out of date when extended).
HideFailedExact ==
  [][\A n \in Nodes : HideFailed(n) /\ ~fault' =>
       LET promising(d) ==
             \E e \in Subtree(d) : status[e] = "SOLVED" \/ Tree!Pending(e)
       IN  /\ \A d \in Subtree(n) \cap Visible(flags') :
                IsLeaf(d) \/ d \in flags'.hidden \/ promising(d)
           /\ \A d \in flags'.hidden \ flags.hidden :
                ~promising(d) \/ Tree!RestartRoot(d)]_vars

\* "Unhide all below" reveals everything below a node that is visible itself.
UnhideAllReveals ==
  [][\A n \in Visible(flags) : UnhideAllAt(n) /\ ~fault' =>
       Subtree(n) \subseteq Visible(flags')]_vars

\* Lanterns partition what they hide: every inner node of at most the limit is
\* hidden, in the one lantern above it, and no node of more is.
LanternsExact ==
  [][\A limit \in Limits : HideBySize(limit) /\ ~fault' =>
       \A n \in Nodes : ~IsLeaf(n) =>
         (Cardinality(Subtree(n)) > limit <=> n \in Visible(flags') \ flags'.hidden)]_vars

\* The commands that hide and reveal whole subtrees do so exactly, whatever was
\* hidden, revealed or put into lanterns before.
CommandsExact == HideFailedExact /\ LanternsExact /\ UnhideAllReveals

\* A picture that is out of date is brought up to date, whatever the builder
\* and the user do meanwhile, if nothing undefined happens.
CatchesUp == nodeCount > 0 /\ ~UpToDate ~> (nodeCount > 0 /\ UpToDate) \/ fault
=============================================================================
