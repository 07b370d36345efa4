------------------------------- MODULE Outline -------------------------------
(***************************************************************************)
(* The geometry of the traditional view: how LayoutCursor turns a tree     *)
(* into shapes and offsets (src/src/cpprofiler/tree/cursors/               *)
(* layout_cursor.cpp, tree/shape.hh).                                      *)
(*                                                                         *)
(* A shape gives for every level of a subtree how far it reaches to the    *)
(* left and to the right of its root; the distance between siblings is     *)
(* computed from their shapes.  A node is named by its place, the path of  *)
(* alternatives from the root.  Shapes depend on nothing but the tree and  *)
(* the VisualFlags they are computed with, what is hidden and labelled, so *)
(* they are functions of the two; when they are recomputed is the subject  *)
(* of View.                                                                *)
(***************************************************************************)
EXTENDS Integers, Sequences, FiniteSets, SequencesExt

CONSTANTS
  MaxNodes,     \* bound on the nodes of the tree
  MaxUniform,   \* the same, where all inner nodes have equally many children
  MaxKids,      \* bound on the children of a node
  LabelWidth,   \* the width of a label: nine pixels per character
  LanternSizes, \* the sizes of lanterns in the instance
  MaxMarks      \* bound on the hidden and labelled nodes

ASSUME OutlineBounds ==
  /\ MaxNodes \in Nat /\ MaxUniform \in Nat
  /\ MaxKids \in Nat /\ MaxMarks \in Nat
  /\ LabelWidth \in Nat /\ LanternSizes \subseteq 0 .. 127

\* config.hh
MinDistX == 16
DistY == 36
HalfMaxNodeW == 11
HalfCollapsedWidth == 18
Lantern == [base |-> 14, half |-> 20, precision |-> 127, levels |-> 5]

Root == <<>>
Triangle == -1   \* a hidden node that is not a lantern

VARIABLES
  places,   \* the nodes of the tree
  hidden,   \* the hidden nodes, with their lanternSize
  labelled  \* the nodes whose label is shown

outlineVars == <<places, hidden, labelled>>

-----------------------------------------------------------------------------
(* The tree *)

KidsIn(tree, n) == {p \in tree : p # Root /\ Front(p) = n}
KidCount(n) == Cardinality(KidsIn(places, n))
Kid(n, i) == Append(n, i)
IsAbove(a, n) == IsPrefix(a, n)
BelowIn(tree, n) == {m \in tree : IsPrefix(n, m)}
IsRightMostChild(n) == n # Root /\ Last(n) = KidCount(Front(n))

\* VisualFlags: those of the traditional view, and new ones
Flags == [hidden |-> hidden, labelled |-> labelled]
NoFlags == [hidden |-> <<>>, labelled |-> {}]
IsHidden(vf, n) == n \in DOMAIN vf.hidden
IsLabelShown(vf, n) == n \in vf.labelled

\* what the layout cursor reaches
VisibleWith(vf) == {n \in places : \A h \in DOMAIN vf.hidden : ~IsStrictPrefix(h, n)}
Visible == VisibleWith(Flags)

-----------------------------------------------------------------------------
(* Shapes: a sequence of extents [l, r] from the top, and a bounding box *)

Smaller(a, b) == IF a <= b THEN a ELSE b
Larger(a, b) == IF a >= b THEN a ELSE b
LeastOf(S) == CHOOSE x \in S : \A y \in S : x <= y
GreatestOf(S) == CHOOSE x \in S : \A y \in S : x >= y

Height(s) == Len(s.ext)
Symmetric(w) == [l |-> -w, r |-> w]
Shifted(e, d) == [l |-> e.l + d, r |-> e.r + d]
Around(e1, e2) == [l |-> Smaller(e1.l, e2.l), r |-> Larger(e1.r, e2.r)]

LeafShape == [ext |-> <<Symmetric(HalfMaxNodeW)>>, box |-> Symmetric(HalfMaxNodeW)]
HiddenShape == [ext |-> <<Symmetric(HalfMaxNodeW), Symmetric(2 * HalfMaxNodeW)>>,
                box |-> Symmetric(2 * HalfMaxNodeW)]

DistanceBetween(s1, s2) ==
  GreatestOf({s1.ext[i].r - s2.ext[i].l : i \in 1 .. Smaller(Height(s1), Height(s2))}) + MinDistX

\* calculateForSingleNode: a label is drawn on the left of every node but the
\* right-most child
SingleNode(vf, n) ==
  LET e == Symmetric(IF IsHidden(vf, n) THEN HalfCollapsedWidth ELSE HalfMaxNodeW)
  IN IF ~IsLabelShown(vf, n) THEN e
     ELSE IF IsRightMostChild(n) THEN [l |-> e.l, r |-> e.r + LabelWidth]
     ELSE [l |-> e.l - LabelWidth, r |-> e.r]

\* Faulty CombineShapes: the right extents are those of the left subtree.
CombineShapesLeft(s1, s2) ==
  LET half == DistanceBetween(s1, s2) \div 2
      common == Smaller(Height(s1), Height(s2))
      longer == IF Height(s1) > Height(s2) THEN s1 ELSE s2
      offset == IF Height(s1) > Height(s2) THEN -half ELSE half
  IN [ext |-> [i \in 1 .. Larger(Height(s1), Height(s2)) |->
                 IF i <= common THEN [l |-> s1.ext[i].l - half, r |-> s1.ext[i].r + half]
                 ELSE Shifted(longer.ext[i], offset)],
      box |-> Around(Shifted(s1.box, -half), Shifted(s2.box, half)),
      offsets |-> <<-half, half>>]

\* combine_shapes, below the new root
CombineShapes(s1, s2) ==
  LET half == DistanceBetween(s1, s2) \div 2
      common == Smaller(Height(s1), Height(s2))
      longer == IF Height(s1) > Height(s2) THEN s1 ELSE s2
      offset == IF Height(s1) > Height(s2) THEN -half ELSE half
  IN [ext |-> [i \in 1 .. Larger(Height(s1), Height(s2)) |->
                 IF i <= common THEN [l |-> s1.ext[i].l - half, r |-> s2.ext[i].r + half]
                 ELSE Shifted(longer.ext[i], offset)],
      box |-> Around(Shifted(s1.box, -half), Shifted(s2.box, half)),
      offsets |-> <<-half, half>>]

\* computeForNodeBinary
Binary(vf, n, s1, s2) ==
  LET c == CombineShapes(s1, s2)
      top == SingleNode(vf, n)
  IN [ext |-> <<top>> \o c.ext, box |-> Around(c.box, top), offsets |-> c.offsets]

\* the first child is half the width to the left, each distance is the one to
\* the sibling before
NaryOffsets(shapes) ==
  LET At[i \in DOMAIN shapes] ==
        IF i = 1 THEN 0 ELSE At[i - 1] + DistanceBetween(shapes[i - 1], shapes[i])
  IN [i \in DOMAIN shapes |-> At[i] - At[Len(shapes)] \div 2]

\* computeForNodeNary: no room for a label of the node; on a level the right
\* extent is the larger of the left one and that of the last child that
\* reaches there
Nary(shapes) ==
  LET x == NaryOffsets(shapes)
      depth == GreatestOf({Height(shapes[i]) : i \in DOMAIN shapes})
      reaching(d) == {i \in DOMAIN shapes : Height(shapes[i]) >= d}
      Level(d) ==
        LET l == LeastOf({shapes[i].ext[d].l + x[i] : i \in reaching(d)})
            last == GreatestOf(reaching(d))
        IN [l |-> l, r |-> Larger(l, shapes[last].ext[d].r + x[last])]
      ext == <<Symmetric(HalfMaxNodeW)>> \o [d \in 1 .. depth |-> Level(d)]
  IN [ext |-> ext,
      box |-> [l |-> LeastOf({ext[i].l : i \in DOMAIN ext}),
               r |-> GreatestOf({ext[i].r : i \in DOMAIN ext})],
      offsets |-> x]

\* calc_for_sized_rect: enough levels for the height of the lantern
LanternLevels(size) ==
  LET perUnit == DistY * (Lantern.levels - 1) - Lantern.base
      height == size * perUnit + Lantern.base * Lantern.precision
      dist == DistY * Lantern.precision
  IN (height + dist - 1) \div dist + 1

WithoutChildren(ext, box) == [ext |-> ext, box |-> box, offsets |-> <<>>]

HiddenNode(vf, n) ==
  LET top == SingleNode(vf, n)
      Rect(first) == [i \in 1 .. LanternLevels(vf.hidden[n]) |->
                        IF i = 1 THEN first ELSE Symmetric(Lantern.half)]
  IN IF vf.hidden[n] # Triangle
     THEN IF IsLabelShown(vf, n) THEN WithoutChildren(Rect(top), top)
          ELSE WithoutChildren(Rect(Symmetric(Lantern.half)), Symmetric(Lantern.half))
     ELSE IF IsLabelShown(vf, n) THEN WithoutChildren(<<top, top>>, top)
     ELSE WithoutChildren(HiddenShape.ext, HiddenShape.box)

\* computeForNode, given the shapes of the children
ComputeForNode(vf, n, kids) ==
  LET top == SingleNode(vf, n)
  IN IF IsHidden(vf, n) THEN HiddenNode(vf, n)
     ELSE IF Len(kids) = 0
     THEN IF IsLabelShown(vf, n) THEN WithoutChildren(<<top>>, top)
          ELSE WithoutChildren(LeafShape.ext, LeafShape.box)
     ELSE IF Len(kids) = 1
     THEN [ext |-> <<top>> \o kids[1].ext, box |-> kids[1].box, offsets |-> <<0>>]
     ELSE IF Len(kids) = 2 THEN Binary(vf, n, kids[1], kids[2])
     ELSE Nary(kids)

\* f itself, which TLC evaluates once and not at each of its uses
Table(f) == f @@ <<>>

\* the cursor processes the children of a node before the node
ShapesWith(vf) ==
  LET Shape[n \in places] ==
        ComputeForNode(vf, n, IF IsHidden(vf, n) THEN <<>>
                              ELSE Table([i \in 1 .. KidCount(n) |-> Shape[Kid(n, i)]]))
  IN Table([n \in VisibleWith(vf) |-> Shape[n]])
Shapes == ShapesWith(Flags)

-----------------------------------------------------------------------------

OutlineInit == places = {Root} /\ hidden = <<>> /\ labelled = {}

UniformWith(k) == \A n \in places : KidCount(n) \in {0, k}

AddKids(n, k) ==
  /\ n \in places /\ KidsIn(places, n) = {}
  /\ Cardinality(places) + k <= IF UniformWith(k) THEN MaxUniform ELSE MaxNodes
  /\ places' = places \cup {Kid(n, i) : i \in 1 .. k}
  /\ UNCHANGED <<hidden, labelled>>

Marks == Cardinality(DOMAIN hidden) + Cardinality(labelled)

Hide(n, size) ==
  /\ Marks < MaxMarks
  /\ n \in places \ DOMAIN hidden /\ KidsIn(places, n) # {}
  /\ hidden' = [m \in DOMAIN hidden \cup {n} |-> IF m = n THEN size ELSE hidden[m]]
  /\ UNCHANGED <<places, labelled>>

ShowLabel(n) ==
  /\ Marks < MaxMarks
  /\ n \in places \ labelled
  /\ labelled' = labelled \cup {n}
  /\ UNCHANGED <<places, hidden>>

OutlineNext ==
  \E n \in places :
    \/ \E k \in 1 .. MaxKids : AddKids(n, k)
    \/ \E size \in LanternSizes \cup {Triangle} : Hide(n, size)
    \/ ShowLabel(n)

-----------------------------------------------------------------------------
(* Properties *)

\* where the nodes are drawn
Drawn(shapes) ==
  LET X[n \in DOMAIN shapes] ==
        IF n = Root THEN 0 ELSE X[Front(n)] + shapes[Front(n)].offsets[Last(n)]
  IN Table([n \in DOMAIN shapes |-> X[n]])

\* what a visible node takes up on the level i below it: a hidden one is drawn
\* over several levels
Own(shapes, vf, n, i) == IF IsHidden(vf, n) THEN shapes[n].ext[i] ELSE SingleNode(vf, n)
OwnLevels(shapes, vf, n) == IF IsHidden(vf, n) THEN DOMAIN shapes[n].ext ELSE {1}

\* everything that is drawn, with its level and how far it reaches
ReachOf(shapes, x, vf) ==
  UNION {{[nid |-> n, level |-> Len(n) + j, at |-> Shifted(Own(shapes, vf, n, j), x[n])] :
            j \in OwnLevels(shapes, vf, n)} : n \in DOMAIN shapes}

AtMostTwo == \A n \in places : KidCount(n) <= 2

\* A shape is the outline of its subtree: on every level it reaches exactly as
\* far as the outermost of the nodes drawn there, labels included, whatever is
\* hidden.  A node of three or more children has no room for its label, and
\* its right side follows the last child that reaches a level, which need not
\* be the one that reaches farthest ("rightmost_x = max(leftmost_x, ...)"), so
\* for those only the left side is stated, without labels
\* (layout_cursor.cpp:66-113, 287-308, "Subtree's shape (outline) represented by extents
\* on each depth level", shape.hh:39).
OutlineExact(shapes, x, reach) ==
  LET binary == AtMostTwo
  IN \A a \in DOMAIN shapes : \A i \in DOMAIN shapes[a].ext :
       LET there == {r.at : r \in {q \in reach : q.level = Len(a) + i /\ IsAbove(a, q.nid)}}
       IN /\ binary \/ labelled = {} =>
               shapes[a].ext[i].l + x[a] = LeastOf({e.l : e \in there})
          /\ binary => shapes[a].ext[i].r + x[a] = GreatestOf({e.r : e \in there})

\* The outlines of two siblings are apart on the levels that both of them and
\* all the siblings between them reach: "how far apart should the corresponding
\* root nodes be along X axis to avoid overlap, additionally allowing for some
\* margin".  A node with two children loses at most one pixel of the margin
\* when it halves the distance.  Only neighbours are compared, so below a
\* shorter sibling the outlines of those on its two sides may overlap: the
\* first and the third child of the root do when they have three leaves each
\* and the second is a leaf (layout_cursor.cpp:48-64, 93-113, 230-285).
SiblingsApart(shapes) ==
  \A n \in DOMAIN shapes :
    LET x == shapes[n].offsets
        s(i) == shapes[Kid(n, i)]
    IN \A i, j \in DOMAIN x : i < j =>
         \A d \in 1 .. LeastOf({Height(s(k)) : k \in i .. j}) :
           s(i).ext[d].r + x[i] + MinDistX - (IF Len(x) = 2 THEN 1 ELSE 0)
             <= s(j).ext[d].l + x[j]

\* In a tree of at most two children per node nothing overlaps: any two nodes
\* that take up room on one level, however far apart in the tree, are drawn
\* with the margin between them, labels, triangles and lanterns included
\* (layout_cursor.cpp:66-113, 200-222).
NodesApart(reach) ==
  AtMostTwo =>
    LET Left(p, q) == p.at.r + MinDistX - 1 <= q.at.l
    IN \A p, q \in reach : p.level = q.level /\ p.nid # q.nid => Left(p, q) \/ Left(q, p)

\* The bounding box is the outermost reach of all levels, as long as no label is
\* shown, for any number of children; the middle of the outermost children is
\* above them, to a pixel (layout_cursor.cpp:82-91, 216-222, 278-319).
BoxExact(shapes) ==
  \A n \in DOMAIN shapes :
    LET s == shapes[n]
    IN /\ labelled = {} =>
            s.box = [l |-> LeastOf({s.ext[i].l : i \in DOMAIN s.ext}),
                     r |-> GreatestOf({s.ext[i].r : i \in DOMAIN s.ext})]
       /\ s.offsets # <<>> => s.offsets[1] + s.offsets[Len(s.offsets)] \in {0, 1}

\* The four, for the shapes of a view and what its flags let be drawn.
WellLaidOut(shapes, x, reach) ==
  OutlineExact(shapes, x, reach) /\ SiblingsApart(shapes) /\ NodesApart(reach) /\ BoxExact(shapes)
=============================================================================
