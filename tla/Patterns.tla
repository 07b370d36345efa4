------------------------------- MODULE Patterns -------------------------------
(***************************************************************************)
(* The window that looks for similar subtrees: SimilarSubtreeWindow, the   *)
(* two analyses it runs (similar_subtree_analysis.cpp), the histogram the  *)
(* patterns are chosen in (histogram_scene.cpp), the labels by which two   *)
(* paths differ (path_comp.cpp) and what a chosen pattern does to the      *)
(* traditional view (TraditionalView::highlightSubtrees).                  *)
(*                                                                         *)
(* All of it runs in the main thread.  The tree is that of Outline, with   *)
(* a status for every leaf from the moment the window opens; the window    *)
(* is opened once, on a finished tree ("TODO: make sure building is        *)
(* finished", similar_subtree_window.cpp:356).                             *)
(***************************************************************************)
EXTENDS Outline, Subsequences

CONSTANTS
  MaxSolved,      \* bound on the leaves that are solutions; the others failed
  LabelOf(_),     \* the label of a node, NoLabel if it has none
  NoLabel,
  Mins,           \* the values of the two filters
  MaxChanges,     \* bound on the changes of the settings
  MaxSearched     \* bound on the nodes of a tree the window is opened on

ASSUME PatternBounds ==
  /\ MaxSolved \in Nat /\ MaxChanges \in Nat /\ MaxSearched \in Nat
  /\ Mins \subseteq Nat /\ 2 \in Mins

VARIABLES
  status,    \* the status of every leaf
  window,    \* the settings: m_sim_type, filters_, settings_; Closed before
  contours,  \* the groups of equal shape, by layout_, a layout of the window's own
  result,    \* result_: the patterns found
  shown,     \* the patterns in the histogram, from the top
  selected,  \* selected_idx_, counted from 1; 0 for none
  chosen,    \* the nodes of the pattern announced last, in the order of their ids
  changes    \* the number of changes of the settings

windowVars == <<window, contours, result, shown, selected, chosen, changes>>
patternVars == <<outlineVars, status, windowVars>>

Closed == [type |-> "closed"]
IsOpen == window.type # "closed"

-----------------------------------------------------------------------------
(* The tree as the analyses see it *)

Alternative(n) == Last(n)
Parent(n) == Front(n)
IsLeaf(n) == KidsIn(places, n) = {}
Below(n) == BelowIn(places, n)

\* NodeIDs are given out in the order in which a solver that searches depth
\* first reports the nodes: the children of a node at once.
Sooner(p, q) ==
  \/ IsStrictPrefix(p, q)
  \/ \E i \in DOMAIN p \cap DOMAIN q :
       p[i] < q[i] /\ \A j \in 1 .. i - 1 : p[j] = q[j]
IdBefore(m, n) ==
  IF m = Root \/ n = Root THEN m = Root /\ n # Root
  ELSE IF Parent(m) = Parent(n) THEN Alternative(m) < Alternative(n)
  ELSE Sooner(Parent(m), Parent(n))
First(g) == CHOOSE n \in g : \A m \in g \ {n} : IdBefore(n, m)
\* The nodes of g in the order of their ids: the i-th has i - 1 before it.
ById(g) ==
  [i \in 1 .. Cardinality(g) |->
     CHOOSE n \in g : Cardinality({m \in g : IdBefore(m, n)}) = i - 1]

\* calculateHeightOf, calc_subtree_sizes
HeightOf(n) == 1 + GreatestOf({Len(m) - Len(n) : m \in Below(n)})
SizeOf(n) == Cardinality(Below(n))

-----------------------------------------------------------------------------
(* Identical subtrees: partition refinement by height *)

\* Leaves of other statuses than these would be in no group.
InitialPartition ==
  LET leaves(st) == {n \in DOMAIN status : status[n] = st}
  IN [processed |-> {leaves("FAILED"), leaves("SOLVED")} \ {{}},
      remaining |-> {{n \in places : ~IsLeaf(n)}} \ {{}}]

\* Faulty Marked: the parents, whatever the alternative.
MarkedAnyhow(groups) == {{Parent(n) : n \in g \ {Root}} : g \in groups}

\* for every group and alternative, the parents of its nodes at that alternative
Marked(groups) ==
  {{Parent(n) : n \in {m \in g \ {Root} : Alternative(m) = alt}} :
     g \in groups, alt \in 1 .. MaxKids}

\* separate_marked, for one set of marked nodes after the other
Separated(groups, marked) ==
  UNION {{{m \in g : \A set \in marked : m \in set <=> n \in set} : n \in g} : g \in groups}

OfHeight(groups, h) == {g \in groups : HeightOf(First(g)) = h}

\* partition_step and set_as_processed
PartitionStep(p, h) ==
  LET remaining == Separated(p.remaining, Marked(OfHeight(p.processed, h)))
      done == OfHeight(remaining, h + 1)
  IN [processed |-> p.processed \cup done, remaining |-> remaining \ done]

IdenticalSubtrees ==
  LET At[h \in 1 .. HeightOf(Root)] ==
        IF h = 1 THEN InitialPartition ELSE PartitionStep(At[h - 1], h - 1)
  IN At[HeightOf(Root)].processed

(* Similar shapes: a multiset ordered by CompareShapes *)

ShapeBefore(s1, s2) ==
  \/ Len(s1) < Len(s2)
  \/ /\ Len(s1) = Len(s2)
     /\ \E i \in DOMAIN s1 :
          /\ \A j \in 1 .. i - 1 : s1[j] = s2[j]
          /\ \/ s1[i].l > s2[i].l
             \/ s1[i].l = s2[i].l /\ s1[i].r < s2[i].r

\* runs of the multiset whose members are not before one another
SimilarShapes(shapes) ==
  LET Alike(m, n) == /\ ~ShapeBefore(shapes[m].ext, shapes[n].ext)
                     /\ ~ShapeBefore(shapes[n].ext, shapes[m].ext)
  IN {{m \in places : Alike(m, n)} : n \in places}

-----------------------------------------------------------------------------
(* The window *)

\* the height of a pattern of shapes is that of the shape, which is the same
PatternOf(g) == [nodes |-> g, height |-> HeightOf(First(g)), size |-> SizeOf(First(g))]
Count(p) == Cardinality(p.nodes)

\* SimilarSubtreeWindow::analyse, for a type and the contours of the layout
Analyse(type, groups) ==
  {p \in {PatternOf(g) : g \in IF type = "subtree" THEN IdenticalSubtrees ELSE groups} :
     Count(p) >= 2 /\ p.height >= 2}

KidsOf(patterns) == UNION {UNION {KidsIn(places, n) : n \in p.nodes} : p \in patterns}

\* Faulty EliminateSubsumed: one subsumed node is enough.
EliminateTouched(patterns) == {p \in patterns : p.nodes \cap KidsOf(patterns) = {}}

\* a pattern goes when all its nodes are children of nodes of patterns
EliminateSubsumed(patterns) == {p \in patterns : ~(p.nodes \subseteq KidsOf(patterns))}

Kept(patterns, w) ==
  LET filtered == {p \in patterns : Count(p) >= w.minCount /\ p.height >= w.minHeight}
  IN IF w.subsumed THEN filtered ELSE EliminateSubsumed(filtered)

Property(p, sort) ==
  CASE sort = "count" -> Count(p) [] sort = "size" -> p.size [] sort = "height" -> p.height

\* std::sort, largest first: the order of equals is left open
Sorted(patterns, sort) ==
  {s \in SetToSeqs(patterns) :
     \A i, j \in DOMAIN s : i < j => Property(s[i], sort) >= Property(s[j], sort)}

\* Faulty DisplayPatterns: the histogram keeps the selection.
DisplayKeepingSelection(found, w) ==
  /\ shown' \in Sorted(Kept(found, w), w.sort)
  /\ UNCHANGED selected

\* displayPatterns, HistogramScene::reset, setPatterns and drawPatterns
DisplayPatterns(found, w) ==
  /\ shown' \in Sorted(Kept(found, w), w.sort)
  /\ selected' = 0

\* The constructor analyses by shape and displays.  computeShapes has a layout
\* and visual flags of its own: what the traditional view hides and labels does
\* not matter.
OpenWindow ==
  /\ ~IsOpen /\ Cardinality(places) <= MaxSearched
  /\ \E solved \in {S \in SUBSET {n \in places : IsLeaf(n)} : Cardinality(S) <= MaxSolved} :
       status' = [n \in {m \in places : IsLeaf(m)} |->
                    IF n \in solved THEN "SOLVED" ELSE "FAILED"]
  /\ window' = [type |-> "contour", minHeight |-> 2, minCount |-> 2,
                subsumed |-> FALSE, hideRest |-> FALSE, sort |-> "size"]
  /\ contours' = SimilarShapes(ShapesWith(NoFlags))
  /\ result' = Analyse("contour", contours')
  /\ DisplayPatterns(result', window')
  /\ UNCHANGED <<outlineVars, chosen, changes>>

Changed(w) ==
  /\ changes < MaxChanges
  /\ changes' = changes + 1
  /\ window' = w
  /\ UNCHANGED <<outlineVars, status, contours, chosen>>

Redisplay(w) == Changed(w) /\ DisplayPatterns(result, w) /\ UNCHANGED result

\* The similarity criterion: analyses, and displays nothing.
ChooseType(type) ==
  /\ window.type # type
  /\ Changed([window EXCEPT !.type = type])
  /\ result' = Analyse(type, contours)
  /\ UNCHANGED <<shown, selected>>

KeepSubsumed == Redisplay([window EXCEPT !.subsumed = ~@])

FilterHeight(v) ==
  v # window.minHeight /\ Redisplay([window EXCEPT !.minHeight = v])

FilterCount(v) == v # window.minCount /\ Redisplay([window EXCEPT !.minCount = v])
SortBy(sort) == sort # window.sort /\ Redisplay([window EXCEPT !.sort = sort])

\* what the bars of the histogram show; it is drawn again
HistogramBy == Redisplay(window)

\* takes effect with the next pattern that is announced
HideNotSelected ==
  /\ Changed([window EXCEPT !.hideRest = ~@])
  /\ UNCHANGED <<result, shown, selected>>

Settings ==
  \/ \E type \in {"contour", "subtree"} : ChooseType(type)
  \/ \E v \in Mins : FilterHeight(v) \/ FilterCount(v)
  \/ \E sort \in {"size", "count", "height"} : SortBy(sort)
  \/ KeepSubsumed \/ HistogramBy \/ HideNotSelected

-----------------------------------------------------------------------------
(* Choosing a pattern *)

\* Faulty HideRest: only the highlighted nodes keep their parents.
HideRestShallow(nodes) ==
  [n \in {m \in places : /\ \A h \in nodes : ~IsStrictPrefix(h, m)
                         /\ m \notin nodes
                         /\ KidsIn(places, m) \cap nodes = {}} |-> Triangle]

\* unhideAll, then HideNotHighlightedCursor in postorder: it does not enter a
\* highlighted subtree, notes the nodes on a path to one and hides the others,
\* leaves too
HideRest(nodes) ==
  LET Visited == {n \in places : \A h \in nodes : ~IsStrictPrefix(h, n)}
      OnHighlightPath[n \in places] ==
        n \in nodes \/ \E kid \in KidsIn(places, n) \cap Visited : OnHighlightPath[kid]
  IN [n \in {m \in Visited : ~OnHighlightPath[m]} |-> Triangle]

\* emit pattern_selected(first) and should_be_highlighted(nodes)
Announce(p) ==
  /\ chosen' = ById(p.nodes)
  /\ hidden' = IF window.hideRest THEN HideRest(p.nodes) ELSE hidden
  /\ UNCHANGED <<places, labelled>>

\* changeSelectedPattern: the one that is selected is not any more, but it is
\* announced all the same
ChangeSelectedPattern(idx) ==
  /\ idx \in DOMAIN shown
  /\ Announce(shown[idx])
  /\ selected' = IF idx = selected THEN 0 ELSE idx
  /\ UNCHANGED <<status, window, contours, result, shown, changes>>

NextPattern == selected + 1 <= Len(shown) /\ ChangeSelectedPattern(selected + 1)
PrevPattern == selected - 1 >= 1 /\ ChangeSelectedPattern(selected - 1)
FindAndSelect == \E idx \in DOMAIN shown : ChangeSelectedPattern(idx)

\* labelPath, from the node up to the root
LabelPath(n) ==
  LET up == [i \in 1 .. Len(n) + 1 |-> LabelOf(SubSeq(n, 1, Len(n) + 1 - i))]
  IN Those(up, ToSet(up) \ {NoLabel})
Copies(path, l) == Cardinality({i \in DOMAIN path : path[i] = l})

\* getLabelDiff: multisets, the intersection of a path with the symmetric
\* difference of the two
UniqueLabels(path1, path2) ==
  LET Differ(l) == Copies(path1, l) - Copies(path2, l)
      InDiff(l) == IF Differ(l) >= 0 THEN Differ(l) ELSE -Differ(l)
  IN [l \in {k \in ToSet(path1) : InDiff(k) > 0} |-> Smaller(Copies(path1, l), InDiff(l))]

\* what updatePathDiff writes
PathLines ==
  LET left == LabelPath(chosen[1])
      right == LabelPath(chosen[2])
  IN <<UniqueLabels(left, right), UniqueLabels(right, left)>>

-----------------------------------------------------------------------------

PatternsInit ==
  /\ OutlineInit
  /\ status = <<>> /\ window = Closed /\ contours = {} /\ result = {}
  /\ shown = <<>> /\ selected = 0 /\ chosen = <<>> /\ changes = 0

EditTree == ~IsOpen /\ OutlineNext /\ UNCHANGED <<status, windowVars>>
UseWindow == IsOpen /\ (Settings \/ NextPattern \/ PrevPattern \/ FindAndSelect)

PatternsNext == EditTree \/ OpenWindow \/ UseWindow

-----------------------------------------------------------------------------
(* Properties *)

TypeOK ==
  /\ \A n \in DOMAIN status : status[n] \in {"FAILED", "SOLVED"}
  /\ DOMAIN status \subseteq places
  /\ IsOpen => window \in [type : {"contour", "subtree"}, minHeight : Mins, minCount : Mins,
                           subsumed : BOOLEAN, hideRest : BOOLEAN,
                           sort : {"size", "count", "height"}]
  /\ \A p \in result : p.nodes \subseteq places /\ p.nodes # {}
  /\ ToSet(chosen) \subseteq places
  /\ selected \in 0 .. Len(shown)
  /\ changes \in 0 .. MaxChanges

\* The properties of Outline while the tree is edited, and when the window has
\* hidden all but a pattern: a tree is drawn within its outlines, and these are
\* apart as far as the code compares them, also where leaves are hidden; in a
\* tree of at most two children per node that means no overlaps
\* (layout_cursor.cpp:344-439).
Redrawn == ~IsOpen \/ (hidden # <<>> /\ changes = 1)
LayoutExact ==
  Redrawn =>
    LET Exact(shapes, x) == WellLaidOut(shapes, x, ReachOf(shapes, x, Flags))
        Of(shapes) == Exact(shapes, Drawn(shapes))
    IN Of(Shapes)

Seen(n) == {<<SubSeq(m, Len(n) + 1, Len(m)), IF IsLeaf(m) THEN status[m] ELSE "BRANCH">> :
              m \in Below(n)}

\* In a finished tree, all of whose branches have equally many children, the
\* refinement finds exactly the subtrees that are equal
\* in structure and leaves: two inner nodes are in one pattern if and only if
\* nothing below tells them apart.  Where they do not, groups of several heights
\* arise ("TODO: this does not work correctly for n-ary trees yet")
\* (similar_subtree_analysis.cpp:116-156, 243-297).
Uniform == \E k \in 1 .. MaxKids : UniformWith(k)
IdenticalExact ==
  (IsOpen /\ Uniform /\ window.type = "subtree") =>
    result = {p \in {PatternOf({m \in places : Seen(m) = Seen(n)}) :
                       n \in {k \in places : ~IsLeaf(k)}} : Count(p) >= 2}

\* The two criteria are ordered: what is identical is of the same contour, so
\* each pattern of subtrees is within a pattern of contours, whatever is hidden
\* or labelled in the view (similar_subtree_analysis.cpp:30-57, 301-338).
IdenticalWithinContour ==
  (IsOpen /\ Uniform /\ window.type = "subtree") =>
    \A p \in result : \E g \in contours : p.nodes \subseteq g

\* how far the subtree of each node reaches from it on each of its levels
Outermost(x, reach) ==
  [n \in places |-> Table(
     [d \in 1 .. HeightOf(n) |->
        LET there == {r.at : r \in {q \in reach : q.level = Len(n) + d /\ IsAbove(n, q.nid)}}
        IN [l |-> LeastOf({e.l : e \in there}) - x[n],
            r |-> GreatestOf({e.r : e \in there}) - x[n]]])]
LeftSide(side) == [d \in DOMAIN side |-> side[d].l]

\* Two nodes are of one contour if and only if their subtrees, drawn with
\* nothing hidden or labelled, reach equally far on every level, whatever the
\* view hides and labels when the window opens.  In a tree with a node of three
\* or more children only equal outlines are claimed, and an equal reach to the
\* left (CompareShapes decides it by two negated comparisons,
\* similar_subtree_analysis.cpp:30-57; similar_subtree_window.cpp:344-351).
ContoursAlike ==
  (IsOpen /\ changes = 0 /\ chosen = <<>>) =>
    LET binary == AtMostTwo
        Alike(shapes, outer) ==
          \A m, n \in places :
            LET together == \E g \in contours : {m, n} \subseteq g
            IN /\ together <=> shapes[m].ext = shapes[n].ext
               /\ together => LeftSide(outer[m]) = LeftSide(outer[n])
               /\ binary => (together <=> outer[m] = outer[n])
        Of(shapes, x) == Alike(shapes, Table(Outermost(x, ReachOf(shapes, x, NoFlags))))
        From(shapes) == Of(shapes, Drawn(shapes))
    IN From(ShapesWith(NoFlags))

\* Both analyses find what is alike, and agree with one another.
PatternsExact == IdenticalExact /\ IdenticalWithinContour /\ ContoursAlike

\* A pattern that is left out as subsumed is still to be seen: each of its
\* nodes lies below a node of a pattern that is shown, though patterns are
\* compared with patterns that are left out themselves
\* (similar_subtree_window.cpp:296-342).
SubsumedCovered ==
  (IsOpen /\ ~window.subsumed) =>
    LET filtered == {p \in result : Count(p) >= window.minCount /\ p.height >= window.minHeight}
        kept == Kept(result, window)
    IN \A p \in filtered \ kept : \A n \in p.nodes :
         \E q \in kept : \E m \in q.nodes : IsStrictPrefix(m, n)

\* The histogram shows what the settings ask for, unless the criterion has been
\* changed: nothing is redrawn then, and what is shown is of the other criterion
\* until the next change of another setting (similar_subtree_window.cpp:100-110).
Other(type) == IF type = "contour" THEN "subtree" ELSE "contour"
ShownAsSet ==
  IsOpen => \/ ToSet(shown) = Kept(result, window)
            \/ ToSet(shown) = Kept(Analyse(Other(window.type), contours), window)

\* The histogram leaves out nothing that the settings ask for.
HistogramExact == TypeOK /\ SubsumedCovered /\ ShownAsSet

\* The marked bar is that of the pattern announced last: the highlighted
\* subtrees, the subtree view and the path lines all belong to it, whatever was
\* clicked, filtered or sorted between (histogram_scene.cpp:158-210).
SelectionIsAnnounced ==
  selected # 0 => /\ selected \in DOMAIN shown
                  /\ ToSet(chosen) = shown[selected].nodes

\* Hiding the rest leaves the pattern to be seen: all its nodes are drawn and
\* no subtree is left open that leads to none of them, whatever was hidden for
\* the pattern before (hide_not_highlighted_cursor.cpp:21-57,
\* traditional_view.cpp:687-719).
LeadsTo(nodes) ==
  /\ nodes \subseteq Visible \ DOMAIN hidden
  /\ \A n \in Visible \ DOMAIN hidden : \E h \in nodes : IsAbove(n, h) \/ IsAbove(h, n)
PatternVisible ==
  [][window.type # "closed" /\ window.hideRest /\ chosen' # chosen
       => LeadsTo(ToSet(chosen))']_patternVars

\* A label that is on one of the two paths only is written on its line, as
\* often as the path has it; one that both have equally often is not
\* (path_comp.cpp:46-58).
PathDiffExact ==
  chosen # <<>> =>
    LET paths == <<LabelPath(chosen[1]), LabelPath(chosen[2])>>
    IN \A i \in 1 .. 2 : \A l \in ToSet(paths[i]) :
         LET own == Copies(paths[i], l)
             other == Copies(paths[3 - i], l)
         IN /\ other = 0 => l \in DOMAIN PathLines[i] /\ PathLines[i][l] = own
            /\ other = own => l \notin DOMAIN PathLines[i]
\* What the marked bar stands for is what the other parts of the window are
\* about, down to the labels of the two paths.
SelectionExact == SelectionIsAnnounced /\ PathDiffExact
=============================================================================
