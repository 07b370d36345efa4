----------------------------- MODULE MergeWindow -----------------------------
(***************************************************************************)
(* The window that shows a merged tree (src/src/cpprofiler/analysis/       *)
(* merge_window.cpp).  It opens in the main thread when finished() of the  *)
(* merger is delivered, after the mutexes were released: the trees may     *)
(* have grown by then.  It walks the three trees again to find where every *)
(* merged node comes from, lists the pentagons, hides failed subtrees and  *)
(* attributes the reduction of the search to nogoods.                      *)
(*                                                                         *)
(* That walk runs in a slot and may throw; nothing catches it, so the      *)
(* program ends there, and the model stops (fault).                        *)
(***************************************************************************)
EXTENDS TreeMerger

CONSTANTS
  Watched,         \* the mergers whose window the instance opens
  WithNogoods,     \* the executions that have nogoods
  Contributing     \* the nogoods a solver names for a node, by NodeID

\* a window belongs to a merger
ASSUME WatchedAssumption == Watched \subseteq Mergers

VARIABLES
  window,  \* [Mergers -> what the window shows], NoWindow before it opens
  fault    \* the opening of a window has thrown

windowVars == <<window, fault>>
vars == <<mergerVars, windowVars>>

NoWindow == [open |-> FALSE, locs |-> <<>>, hidden |-> {}, analysis |-> <<>>]

\* a place of memory the program reads although nothing was stored there
Unknown == -1000

ParentIn(t, n) == IF n = Root THEN NoNode ELSE At(t, Front(t.place[n]))
AlternativeIn(t, n) == Last(t.place[n])
AncestorsIn(t, n) == {a \in NodesOf(t) : IsPrefix(t.place[a], t.place[n])}

\* has_as_ancestor
HasAsAncestor(t, n, a) == a \in AncestorsIn(t, n)

\* under_pentagon: the node itself is not looked at
UnderAPentagon(t, n) ==
  \E a \in AncestorsIn(t, n) \ {n} : t.status[a] = "MERGED"

\* Node::getChild of a node with children, where alt need not be one of them: of
\* one child the second is a field nobody wrote, of two the last one is taken
\* for any other, of more the array is read behind its end.  A node without
\* children throws: see WalkThrows.
GetChild(t, n, alt) ==
  LET kids == ChildrenCount(t, n)
  IN IF alt <= kids THEN Child(t, n, alt) ELSE IF kids = 2 THEN Child(t, n, 2) ELSE Unknown

\* the nodes of both trees the walk has in hand at a merged node
Lockstep(t, l, r) ==
  LET Both[n \in NodesOf(t)] ==
        IF n = Root THEN <<Root, Root>>
        ELSE LET up == Both[ParentIn(t, n)]
             IN <<GetChild(l, up[1], AlternativeIn(t, n)), GetChild(r, up[2], AlternativeIn(t, n))>>
  IN Both

\* The merged nodes whose children the walk goes on to, asking both trees for
\* the children of the nodes in hand.
WalksOn(t) ==
  {n \in NodesOf(t) :
     t.status[n] # "MERGED" /\ ~UnderAPentagon(t, n) /\ ChildrenCount(t, n) > 0}

\* Node::getChild throws where one of them has none.
WalkThrows(t, l, r) ==
  \E n \in WalksOn(t) :
    LET both == Lockstep(t, l, r)[n]
    IN ChildrenCount(l, both[1]) = 0 \/ ChildrenCount(r, both[2]) = 0

\* Faulty OriginalLocations: both sides of a pentagon are linked to the left.
OriginalLocationsLeft(t, l, r) ==
  [n \in NodesOf(t) |->
     IF t.status[n] = "MERGED" THEN NoNode
     ELSE IF ~UnderAPentagon(t, n) THEN Lockstep(t, l, r)[n][1]
     ELSE IF t.status[ParentIn(t, n)] = "MERGED" THEN Lockstep(t, l, r)[ParentIn(t, n)][1]
     ELSE NoNode]

\* initOrigLocations and linkLocationsPentagon: above the pentagons a merged
\* node is linked to the node on the left, the two children of a pentagon to
\* the node of their side.  The loop below a pentagon stores that same link
\* again for every node it visits; the nodes below keep the default.
OriginalLocations(t, l, r) ==
  [n \in NodesOf(t) |->
     IF t.status[n] = "MERGED" THEN NoNode
     ELSE IF ~UnderAPentagon(t, n) THEN Lockstep(t, l, r)[n][1]
     ELSE IF t.status[ParentIn(t, n)] = "MERGED"
     THEN Lockstep(t, l, r)[ParentIn(t, n)][AlternativeIn(t, n)]
     ELSE NoNode]

OpenWindow(m) ==
  /\ thread[m] = "finished" /\ ~window[m].open /\ ~fault
  /\ fault' = WalkThrows(merged[m].tree, TreeL(m), TreeR(m))
  /\ window' =
       IF fault' THEN window
       ELSE [window EXCEPT ![m] =
              [NoWindow EXCEPT !.open = TRUE,
                               !.locs = OriginalLocations(merged[m].tree, TreeL(m), TreeR(m))]]
  /\ UNCHANGED mergerVars

-----------------------------------------------------------------------------
(* Hiding failed subtrees *)

Leaf(t, n) == ChildrenCount(t, n) = 0
HasSolved(t, n) == \E d \in Below(t, n) : t.status[d] = "SOLVED"
\* a node is closed when it is reported closed or all its children are closed
HasOpen(t, n) ==
  \E d \in Below(t, n) : Leaf(t, d) /\ t.status[d] \notin ClosingStatuses

ShouldHide(t, hidden, n) ==
  ~Leaf(t, n) /\ n \notin hidden /\ ~HasSolved(t, n) /\ ~HasOpen(t, n)

\* TraditionalView::hideFailedAt goes down through nodes that are neither
\* failed nor hidden
FailedAt(t, hidden, start) ==
  {n \in Below(t, start) :
     /\ ShouldHide(t, hidden, n)
     /\ \A a \in (AncestorsIn(t, n) \ {n}) \cap Below(t, start) :
          a \notin hidden /\ (HasSolved(t, a) \/ HasOpen(t, a))}

\* Faulty ToHide: the view's own command is used.
ToHideAll(t, pens, hidden, cur) == FailedAt(t, hidden, cur)

\* below a pentagon as usual; above, at the children of the pentagons below
ToHide(t, pens, hidden, cur) ==
  IF UnderAPentagon(t, cur) THEN FailedAt(t, hidden, cur)
  ELSE UNION {FailedAt(t, hidden, kid) :
                kid \in {n \in NodesOf(t) \ {Root} :
                         ParentIn(t, n) \in pens /\ HasAsAncestor(t, ParentIn(t, n), cur)}}

PentagonsOf(m) == {pentagons[m][i].pen : i \in DOMAIN pentagons[m]}

HideFailed(m, cur) ==
  /\ window[m].open /\ ~fault
  /\ window' = [window EXCEPT ![m].hidden =
                  @ \cup ToHide(merged[m].tree, PentagonsOf(m), @, cur)]
  /\ UNCHANGED <<mergerVars, fault>>

-----------------------------------------------------------------------------
(* Nogood analysis *)

\* the left execution, unless only the right one has nogoods
NogoodsOnLeft(m) == LeftOf[m] \in WithNogoods \/ RightOf[m] \notin WithNogoods

Abs(x) == IF x < 0 THEN -x ELSE x
CeilDiv(a, b) == (a + b - 1) \div b

\* Faulty Attributed: the reduction is not divided.
AttributedWhole(res, nogoods, red) ==
  [g \in DOMAIN res \cup nogoods |->
     LET old == IF g \in DOMAIN res THEN res[g] ELSE [total |-> 0, count |-> 0]
     IN IF g \in nogoods THEN [total |-> old.total + red, count |-> old.count + 1] ELSE old]

\* ResultBuilder::addPentagonData
Attributed(res, nogoods, red) ==
  [g \in DOMAIN res \cup nogoods |->
     LET old == IF g \in DOMAIN res THEN res[g] ELSE [total |-> 0, count |-> 0]
     IN IF g \in nogoods
        THEN [total |-> old.total + CeilDiv(red, Cardinality(nogoods)), count |-> old.count + 1]
        ELSE old]

\* Only pentagons where the tree with nogoods has a single node count: the
\* nogoods named for it have saved what the other tree has there.
Analysis(m) ==
  LET left == NogoodsOnLeft(m)
      Add(res, item) ==
        LET kid == Child(merged[m].tree, item.pen, IF left THEN 1 ELSE 2)
            orig == window[m].locs[kid]
        IN IF (IF left THEN item.left ELSE item.right) # 1 \/ orig \notin DOMAIN Contributing
           THEN res
           ELSE Attributed(res, Contributing[orig], Abs(item.right - item.left))
  IN FoldLeft(Add, <<>>, pentagons[m])

RunNogoodAnalysis(m) ==
  /\ window[m].open /\ ~fault
  /\ window' = [window EXCEPT ![m].analysis = Analysis(m)]
  /\ UNCHANGED <<mergerVars, fault>>

-----------------------------------------------------------------------------

Init == MergerInit /\ window = [m \in Mergers |-> NoWindow] /\ fault = FALSE

Next ==
  \/ MergerNext /\ ~fault /\ UNCHANGED windowVars
  \/ \E m \in Watched :
       \/ OpenWindow(m) \/ RunNogoodAnalysis(m)
       \/ \E cur \in NodesOf(merged[m].tree) : HideFailed(m, cur)

\* A merger thread that can go on goes on, while the program runs:
\* WF_vars(RunMerger(m)), with its enabling condition written out (evaluating
\* ENABLED would repeat the merge).
CanRun(m) ==
  /\ ~fault
  /\ \/ thread[m] = "started" /\ mutex[LeftOf[m]] = Free
     \/ thread[m] = "hasLeft" /\ mutex[RightOf[m]] = Free
     \/ thread[m] = "merging"
Runs(m) == <<thread[m], stack[m]>>' # <<thread[m], stack[m]>>

Fairness == \A m \in Mergers : []<>~CanRun(m) \/ []<><<Runs(m)>>_vars

Spec == Init /\ [][Next]_vars /\ Fairness

-----------------------------------------------------------------------------
(* Properties *)

TypeOK ==
  /\ MergerTypeOK /\ fault \in BOOLEAN
  /\ \A m \in Mergers :
       /\ window[m].open => thread[m] = "finished"
       /\ window[m].hidden \subseteq NodesOf(merged[m].tree)

\* The place a merged node stands for: above the pentagons its own place, below
\* one the place without the step into the side.
PentagonsAbove(t, n) == {a \in AncestorsIn(t, n) \ {n} : t.status[a] = "MERGED"}
DepthOfPentagon(t, n) == Len(t.place[CHOOSE a \in PentagonsAbove(t, n) : TRUE])
OnRight(t, n) ==
  PentagonsAbove(t, n) # {} /\ t.place[n][DepthOfPentagon(t, n) + 1] = 2
PlaceOf(t, n) ==
  IF PentagonsAbove(t, n) = {} THEN t.place[n] ELSE RemoveAt(t.place[n], DepthOfPentagon(t, n) + 1)

Origin(m, n) ==
  LET src == IF OnRight(merged[m].tree, n) THEN TreeR(m) ELSE TreeL(m)
  IN At(src, PlaceOf(merged[m].tree, n))

\* Above the pentagons and directly below them the window knows where a node
\* comes from, also when the trees grew after the merger had let go of them: the
\* nodes it reads are still in their places.  Explored nodes only: an
\* undetermined one may have no original (merge_window.cpp:162-239).
LocationsExact ==
  \A m \in Mergers : window[m].open =>
    LET t == merged[m].tree
    IN \A n \in NodesOf(t) :
         t.status[n] \notin {"MERGED", "UNDETERMINED"}
           /\ (~UnderAPentagon(t, n) \/ t.status[ParentIn(t, n)] = "MERGED")
         => window[m].locs[n] = Origin(m, n)

\* Two nodes at p, of which one has children and the other has none.
Barren(l, r, p) == (ChildrenCount(l, At(l, p)) = 0) # (ChildrenCount(r, At(r, p)) = 0)

\* "The tree above merged nodes must have the same structure"
\* (merge_window.cpp:230), but a merger compares statuses: of two branches that
\* it takes for the same one may have no children.  Such a pair, where the trees
\* agree all the way from the root, is what ends the program when the window is to
\* open, and nothing else does; in front of an open window there is none, though
\* the trees have grown (tree_merger.cpp:196-227, node.cpp:126-135).
OpensInStep ==
  /\ fault => \E m \in Watched :
                /\ thread[m] = "finished" /\ ~window[m].open
                /\ \E p \in Agreed(TreeL(m), TreeR(m)) : Barren(TreeL(m), TreeR(m), p)
  /\ \A m \in Mergers : window[m].open =>
       \A n \in WalksOn(merged[m].tree) :
         LET p == merged[m].tree.place[n]
         IN p \in Agreed(TreeL(m), TreeR(m)) /\ ~Barren(TreeL(m), TreeR(m), p)

\* A window opens where it can, and holds what belongs to its merged tree and to
\* the two trees as they are by now.
LocationsSound == TypeOK /\ OpensInStep /\ LocationsExact

\* "Hide failed subtrees in a way that does not hide pentagon nodes"
\* (merge_window.cpp:415): whatever the user hides from wherever, no pentagon is
\* hidden or below a hidden node.
PentagonsStayVisible ==
  \A m \in Mergers : \A p \in PentagonsOf(m) :
    AncestorsIn(merged[m].tree, p) \cap window[m].hidden = {}

\* A nogood gets the credit for exactly the pentagons at whose single node on
\* the side with nogoods it was named; and no reduction is lost: what all
\* nogoods get is what the pentagons with a nogood saved, up to the rounding of
\* each share (merge_window.cpp:258-351).
CreditWhereDue ==
  \A m \in Mergers : window[m].analysis # <<>> =>
    LET res == window[m].analysis
        side(i) == IF NogoodsOnLeft(m) THEN pentagons[m][i].left ELSE pentagons[m][i].right
        single == {i \in DOMAIN pentagons[m] : side(i) = 1}
        origin(i) == Origin(m, Child(merged[m].tree, pentagons[m][i].pen,
                                  IF NogoodsOnLeft(m) THEN 1 ELSE 2))
        credited == {i \in single : origin(i) \in DOMAIN Contributing
                                      /\ Contributing[origin(i)] # {}}
        share(i) == {g \in DOMAIN res : i \in credited /\ g \in Contributing[origin(i)]}
    IN /\ \A g \in DOMAIN res : res[g].count = Cardinality({i \in credited : g \in share(i)})
       /\ LET saved == SumFunction([i \in credited |->
                                   Abs(pentagons[m][i].right - pentagons[m][i].left)])
              given == SumFunction([g \in DOMAIN res |-> res[g].total])
              rounding == SumFunction([i \in credited |-> Cardinality(Contributing[origin(i)]) - 1])
          IN saved <= given /\ given <= saved + rounding

\* A merger always ends, except when two of them have the trees in opposite
\* order: "It is quite unlikely, but this can dead-lock" (tree_merger.cpp:161),
\* and when the window of another merger ends the program.  Needs that the
\* operating system goes on running the threads.
MergesEnd ==
  \A m \in Mergers : thread[m] = "started" ~> (thread[m] = "finished" \/ Crossed \/ fault)
=============================================================================
