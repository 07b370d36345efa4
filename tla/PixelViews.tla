------------------------------ MODULE PixelViews ------------------------------
(***************************************************************************)
(* The pixel tree and the icicle tree (src/src/cpprofiler/pixel_views),    *)
(* beside the window of similar subtrees on the same tree: how each view   *)
(* lays the tree out in columns, what it draws at a position of its scroll *)
(* bar, and what a click on a column selects.  With them the throttle that *)
(* scrolling the icicle tree and the lantern slider go through             *)
(* (utils/maybe_caller.cpp).                                               *)
(*                                                                         *)
(* All of it runs in the main thread.  One view is opened, on a tree that  *)
(* is finished ("Can only show pixel tree when the tree is fully built",   *)
(* execution_window.cpp:410).  A column is one slice of the pixel tree or  *)
(* one unit of the icicle tree; colours are left out, except which slices  *)
(* are selected.  A read outside the pixel sequence is undefined: the      *)
(* model stops there (fault).                                              *)
(***************************************************************************)
EXTENDS Patterns

CONSTANTS
  Viewports,   \* the widths of the viewport, less ten pixels
  MaxZoom,     \* how far the size of a pixel goes from its default
  Limits,      \* the values of the lantern slider
  MaxSteps     \* bound on the operations on a view

ASSUME PixelBounds ==
  /\ Viewports \subseteq Nat \ {0} /\ Limits \subseteq Nat
  /\ MaxZoom \in 0 .. 3 /\ MaxSteps \in Nat

VARIABLES
  pt,       \* PtCanvas
  icicle,   \* IcicleCanvas
  saved,    \* what savePixelTree has written
  lantern,  \* the slider, the limit hideBySize had last, the throttle between
  fault,    \* the kind of a read outside the pixel sequence
  steps     \* the number of operations

pixelVars == <<pt, icicle, saved, lantern, fault, steps>>
vars == <<patternVars, pixelVars>>

NotShown == [shown |-> FALSE]
NothingSaved == [compression |-> 0]

-----------------------------------------------------------------------------
(* Columns and the scroll bar, common to both views *)

CeilDiv(a, b) == (a + b - 1) \div b

\* PixelWidget::width: how many columns fit in one page
PageWidth(v) == CeilDiv(v.viewport, v.pixelSize)

\* Faulty ScrollMax: up to the last column, whatever the width of the page.
ScrollMaxGenerous(v, total) == total

\* QScrollBar::setRange(0, total - (page - 1)); a range that is not one is empty
ScrollMax(v, total) == Larger(0, total - (PageWidth(v) - 1))

\* setRange moves the value into the range
Clamped(v, total) ==
  [v EXCEPT !.max = ScrollMax(v, total), !.scroll = Smaller(v.scroll, ScrollMax(v, total))]

Zoomed(v, default) ==
  {[v EXCEPT !.pixelSize = size] :
     size \in {v.pixelSize - 1, v.pixelSize + 1} \cap (default - MaxZoom .. default + MaxZoom)}

-----------------------------------------------------------------------------
(* The throttle: MaybeCaller *)

\* Called when enough time has gone by since the last call that was carried
\* out at once: the timer of an earlier call that waits is not stopped.
CallNow(c) == c
\* Called sooner: the function waits for the timer, in place of the one before.
CallLater(c, fn) == [timer |-> TRUE, fn |-> fn]
CallViaTimer(c) == [c EXCEPT !.timer = FALSE]

Idle == [timer |-> FALSE, fn |-> 0]

-----------------------------------------------------------------------------
(* The pixel tree *)

\* Faulty PixelTree: the children are pushed from the first to the last.
PixelTreeBackwards ==
  LET At[k \in 0 .. Cardinality(places)] ==
        IF k = 0 THEN [seq |-> <<>>, stack |-> <<Root>>]
        ELSE LET before == At[k - 1]
                 top == Last(before.stack)
                 kids == [i \in 1 .. KidCount(top) |-> Kid(top, i)]
             IN [seq |-> Append(before.seq, [nid |-> top, depth |-> Len(top) + 1]),
                 stack |-> Front(before.stack) \o kids]
  IN At[Cardinality(places)].seq

\* constructPixelTree: a stack from which the next node is taken, its children
\* pushed from the last to the first; the root is at depth 1
PixelTree ==
  LET At[k \in 0 .. Cardinality(places)] ==
        IF k = 0 THEN [seq |-> <<>>, stack |-> <<Root>>]
        ELSE LET before == At[k - 1]
                 top == Last(before.stack)
                 kids == [i \in 1 .. KidCount(top) |-> Kid(top, KidCount(top) + 1 - i)]
             IN [seq |-> Append(before.seq, [nid |-> top, depth |-> Len(top) + 1]),
                 stack |-> Front(before.stack) \o kids]
  IN At[Cardinality(places)].seq

TotalSlices(p) == CeilDiv(Len(p.seq), p.compression)

\* the positions in the sequence that a slice stands for, counted from 0
Positions(p, slice) == slice * p.compression .. (slice + 1) * p.compression - 1
\* the loops over a slice stop where idx is the size of the sequence
Within(p, slice) == {idx \in Positions(p, slice) : idx < Len(p.seq)}
ItemsOf(p, slice) == {p.seq[idx + 1] : idx \in Within(p, slice)}

\* A loop that begins behind the size, or before 0, runs outside.
RunsOutside(p, slice) ==
  slice < 0 \/ slice * p.compression > Len(p.seq)

\* drawPixelTree: from the column at x = 0 until the end is reached; the last
\* one drawn holds the end
DrawnSlices(p) ==
  {slice \in p.scroll .. p.scroll + PageWidth(p) - 1 : slice * p.compression <= Len(p.seq)}

\* PtCanvas::redrawAll: draws, then sets the range; a scroll bar that moves
\* has it all drawn again
RedrawPixels(p) ==
  IF RunsOutside(p, p.scroll)
  THEN pt' = p /\ fault' = "draw"
  ELSE pt' = Clamped(p, TotalSlices(p)) /\ fault' = fault

Step ==
  /\ fault = "none" /\ steps < MaxSteps
  /\ steps' = steps + 1

UsePixels ==
  /\ Step /\ pt.shown
  /\ UNCHANGED <<places, labelled, status, windowVars, icicle, saved, lantern>>

\* showPixelTree, PtCanvas::PtCanvas
ShowPixelTree(viewport) ==
  /\ ~pt.shown /\ ~icicle.shown /\ ~IsOpen /\ hidden = <<>> /\ labelled = {}
  /\ RedrawPixels([shown |-> TRUE, seq |-> PixelTree, compression |-> 2, pixelSize |-> 4,
                   viewport |-> viewport, scroll |-> 0, max |-> 0, selected |-> {},
                   reducible |-> FALSE])
  /\ UNCHANGED <<patternVars, icicle, saved, lantern, steps>>

AddCompression ==
  /\ UsePixels /\ RedrawPixels([pt EXCEPT !.compression = @ + 10, !.reducible = TRUE])
  /\ UNCHANGED hidden

\* The button is disabled at first and at compression 1.
ReduceCompression ==
  /\ UsePixels /\ pt.reducible
  /\ LET c == Larger(1, pt.compression - 10)
     IN RedrawPixels([pt EXCEPT !.compression = c, !.reducible = c # 1])
  /\ UNCHANGED hidden

ZoomPixels ==
  /\ UsePixels /\ \E p \in Zoomed(pt, 4) : RedrawPixels(p)
  /\ UNCHANGED hidden

ResizePixels ==
  /\ UsePixels /\ \E w \in Viewports \ {pt.viewport} : RedrawPixels([pt EXCEPT !.viewport = w])
  /\ UNCHANGED hidden

ScrollPixels ==
  /\ UsePixels /\ \E v \in 0 .. pt.max : RedrawPixels([pt EXCEPT !.scroll = v])
  /\ UNCHANGED hidden

\* only the end is moved into the tree
SelectedSlices(p, vbegin, vend) == vbegin .. Smaller(TotalSlices(p) - 1, vend)

SelectedNodes(p, slices) == {item.nid : item \in UNION {ItemsOf(p, slice) : slice \in slices}}

\* selectNodes: the nodes are announced to the traditional view, which hides
\* the rest, then all is redrawn
SelectNodes(vbegin, vend) ==
  LET slices == SelectedSlices(pt, vbegin, vend)
  IN /\ UsePixels /\ vbegin <= vend
     /\ IF \E slice \in slices : RunsOutside(pt, slice)
        THEN fault' = "select" /\ UNCHANGED <<pt, hidden>>
        ELSE /\ hidden' = HideRest(SelectedNodes(pt, slices))
             /\ RedrawPixels([pt EXCEPT !.selected = slices])

\* A press selects its column, the release the range from there.  Where the
\* padding of five pixels on the left is as wide as a column it counts as the
\* column before the first.  These are the columns at the edges of the page.
Columns(p) ==
  {p.scroll, p.scroll + PageWidth(p) - 1, p.scroll + PageWidth(p)}
    \cup (IF p.pixelSize <= 5 THEN {p.scroll - 1} ELSE {})
Drag == pt.shown /\ \E x, y \in Columns(pt) : SelectNodes(x, y)

\* PixelImage: ten pixels are lost both ways; what begins outside is left out
Resized(size) == size - 10
Inside(x, y, width, height) == 4 * x < width /\ 4 * y < height

\* Conductor::savePixelTree: a canvas of its own, an image of the size of the
\* tree; the buffer takes no negative size
SavePixelTree(compression) ==
  LET p == [seq |-> PixelTree, compression |-> compression]
      maxDepth == GreatestOf({Len(n) + 1 : n \in places})
      width == Resized(4 * TotalSlices(p))
      height == Resized(4 * maxDepth)
  IN /\ Step /\ ~pt.shown /\ ~icicle.shown /\ ~IsOpen
     /\ saved' = [compression |-> compression,
                  throws |-> width * height < 0,
                  nodes |-> {p.seq[i].nid : i \in {j \in DOMAIN p.seq :
                               Inside((j - 1) \div compression, p.seq[j].depth, width, height)}}]
     /\ UNCHANGED <<patternVars, pt, icicle, lantern, fault>>

-----------------------------------------------------------------------------
(* The icicle tree *)

\* utils::post_order: a preorder, from the right, turned round
PostOrder ==
  LET At[k \in 0 .. Cardinality(places)] ==
        IF k = 0 THEN [seq |-> <<>>, stack |-> <<Root>>]
        ELSE LET before == At[k - 1]
                 top == Last(before.stack)
             IN [seq |-> Append(before.seq, top),
                 stack |-> Front(before.stack) \o [i \in 1 .. KidCount(top) |-> Kid(top, i)]]
  IN Reverse(At[Cardinality(places)].seq)

\* the generation of a node, for a function that has those of its children
Generation(before, n) ==
  IF IsLeaf(n) THEN 1 ELSE 1 + GreatestOf({before[k] : k \in KidsIn(places, n)})

WidthFrom(before, generation, compression, n) ==
  IF generation = compression THEN 1
  ELSE IF generation < compression THEN 0
  ELSE FoldSet(LAMBDA k, sum : before[k] + sum, 0, KidsIn(places, n))

\* computeLayout: in postorder, first the generations, then the widths; what is
\* not written yet is 0
ComputeIcicle(compression) ==
  LET order == PostOrder
      Zero == [n \in places |-> 0]
      Gen[i \in 0 .. Len(order)] ==
        IF i = 0 THEN Zero
        ELSE LET before == Gen[i - 1]
             IN [before EXCEPT ![order[i]] = Generation(before, order[i])]
      gen == Gen[Len(order)]
      Width[i \in 0 .. Len(order)] ==
        IF i = 0 THEN Zero
        ELSE LET before == Width[i - 1]
             IN [before EXCEPT ![order[i]] =
                   WidthFrom(before, gen[order[i]], compression, order[i])]
  IN Width[Len(order)]

\* the nodes on the way from the root to a node
Path(n) == {SubSeq(n, 1, i) : i \in 0 .. Len(n)}

\* where the nodes begin, for a root that begins at x: a child begins where its
\* parent does and the children before it take their widths
Begins(width, x) ==
  LET Earlier(n) == UNION {{Kid(Front(p), j) : j \in 1 .. Last(p) - 1} : p \in Path(n) \ {Root}}
  IN [n \in places |-> FoldSet(LAMBDA m, sum : width[m] + sum, x, Earlier(n))]

Culled(x, width, page) == x > page \/ x + width <= 0 \/ width = 0

\* drawRect: what is left of the image is cut off
CutOff(r) == IF r.x < 0 THEN [r EXCEPT !.x = 0, !.width = @ + r.x] ELSE r

\* drawIcicleSubtree: the rectangles drawn, [nid, x, y, width], where the image
\* begins at a position of the scroll bar
DrawIcicle(ic, scroll) ==
  LET X == Begins(ic.width, -scroll)
      Out(n) == Culled(X[n], ic.width[n], PageWidth(ic))
  IN {[nid |-> n, x |-> X[n], y |-> Len(n), width |-> ic.width[n]] :
        n \in {m \in places : \A p \in Path(m) : ~Out(p)}}

\* Faulty FindNode: the columns are those of the page.
FindNodeUnscrolled(ic, x, y) ==
  LET X == Begins(ic.width, ic.scroll)
      Holds(n) == X[n] <= x /\ x < X[n] + ic.width[n]
  IN {n \in places : Len(n) = y /\ \A p \in Path(n) : Holds(p)}

\* findNode, from the root down through the nodes that hold the column: the
\* node found, or none
FindNode(ic, x, y) ==
  LET X == Begins(ic.width, 0)
      Holds(n) == X[n] <= x /\ x < X[n] + ic.width[n]
  IN {n \in places : Len(n) = y /\ \A p \in Path(n) : Holds(p)}

\* IcicleCanvas::redrawAll.  A scroll bar that is moved into its range calls
\* the throttle, which draws again at once or later.
RedrawIcicle(ic) ==
  LET done == [Clamped(ic, ic.width[Root]) EXCEPT !.drawnAt = ic.scroll]
  IN \/ icicle' = [done EXCEPT !.drawnAt = done.scroll, !.throttle = CallNow(@)]
     \/ /\ done.scroll # ic.scroll
        /\ icicle' = [done EXCEPT !.throttle = CallLater(@, 0)]

UseIcicle ==
  /\ Step /\ icicle.shown
  /\ UNCHANGED <<patternVars, pt, saved, lantern, fault>>

ShowIcicle(viewport) ==
  /\ ~pt.shown /\ ~icicle.shown /\ ~IsOpen /\ hidden = <<>> /\ labelled = {}
  /\ RedrawIcicle([shown |-> TRUE, compression |-> 1, width |-> ComputeIcicle(1),
                   pixelSize |-> 10, viewport |-> viewport, scroll |-> 0, max |-> 0,
                   drawnAt |-> 0, selected |-> {}, throttle |-> Idle])
  /\ UNCHANGED <<patternVars, pt, saved, lantern, fault, steps>>

\* the button that is labelled "-", and the one labelled "+"
Compress ==
  /\ UseIcicle
  /\ \E c \in {icicle.compression + 1, Larger(1, icicle.compression - 1)} \ {icicle.compression} :
       RedrawIcicle([icicle EXCEPT !.compression = c, !.width = ComputeIcicle(c)])

ZoomIcicle == UseIcicle /\ \E ic \in Zoomed(icicle, 10) : RedrawIcicle(ic)

ResizeIcicle ==
  /\ UseIcicle
  /\ \E w \in Viewports \ {icicle.viewport} : RedrawIcicle([icicle EXCEPT !.viewport = w])

\* valueChanged calls the throttle, which draws at once or later.
ScrollIcicle ==
  /\ UseIcicle
  /\ \E v \in (0 .. icicle.max) \ {icicle.scroll} :
       \/ RedrawIcicle([icicle EXCEPT !.scroll = v])
       \/ icicle' = [icicle EXCEPT !.scroll = v, !.throttle = CallLater(@, 0)]

RedrawLater ==
  /\ icicle.shown /\ icicle.throttle.timer
  /\ RedrawIcicle([icicle EXCEPT !.throttle = CallViaTimer(@)])
  /\ UNCHANGED <<patternVars, pt, saved, lantern, fault, steps>>

\* A click announces the node, which comes back as the selected one; a click on
\* the first or the last column of the page.
ClickIcicle ==
  /\ UseIcicle
  /\ \E x \in {icicle.scroll, icicle.scroll + PageWidth(icicle) - 1}, y \in 0 .. 3 :
       LET found == FindNode(icicle, x, y)
       IN found # {} /\ RedrawIcicle([icicle EXCEPT !.selected = found])

-----------------------------------------------------------------------------
(* The lantern slider *)

\* LanternMenu::limit_changed: hideBySize with this limit, at once or later.  The
\* tree does not matter here.
SlideLantern ==
  /\ Step /\ places = {Root} /\ ~pt.shown /\ ~icicle.shown /\ ~IsOpen
  /\ \E limit \in Limits \ {lantern.asked} :
       lantern' \in
         {[asked |-> limit, applied |-> limit, throttle |-> CallNow(lantern.throttle),
           overtaken |-> lantern.throttle.timer],
          [lantern EXCEPT !.asked = limit, !.throttle = CallLater(@, limit),
                          !.overtaken = FALSE]}
  /\ UNCHANGED <<patternVars, pt, icicle, saved, fault>>

\* Faulty LanternLater: the timer calls nothing.
LanternLaterLost ==
  /\ lantern.throttle.timer
  /\ lantern' = [lantern EXCEPT !.throttle = CallViaTimer(@)]
  /\ UNCHANGED <<patternVars, pt, icicle, saved, fault, steps>>

LanternLater ==
  /\ lantern.throttle.timer
  /\ lantern' = [lantern EXCEPT !.applied = lantern.throttle.fn, !.throttle = CallViaTimer(@)]
  /\ UNCHANGED <<patternVars, pt, icicle, saved, fault, steps>>

-----------------------------------------------------------------------------

Init ==
  /\ PatternsInit
  /\ pt = NotShown /\ icicle = NotShown /\ saved = NothingSaved
  /\ lantern = [asked |-> 0, applied |-> 0, throttle |-> Idle, overtaken |-> FALSE]
  /\ fault = "none" /\ steps = 0

Next ==
  \/ ~pt.shown /\ ~icicle.shown /\ steps = 0 /\ PatternsNext /\ UNCHANGED pixelVars
  \/ \E viewport \in Viewports : ShowPixelTree(viewport) \/ ShowIcicle(viewport)
  \/ AddCompression \/ ReduceCompression \/ ZoomPixels \/ ResizePixels \/ ScrollPixels \/ Drag
  \/ \E compression \in {1, 2} : SavePixelTree(compression)
  \/ Compress \/ ZoomIcicle \/ ResizeIcicle \/ ScrollIcicle \/ RedrawLater \/ ClickIcicle
  \/ SlideLantern \/ LanternLater

Spec == Init /\ [][Next]_vars

-----------------------------------------------------------------------------
(* Properties *)

PixelsTypeOK ==
  /\ pt.shown => /\ pt.compression \in {c + 10 * k : c \in {1, 2}, k \in 0 .. MaxSteps}
                 /\ pt.scroll \in 0 .. pt.max /\ pt.pixelSize \in 1 .. 7
                 /\ pt.selected \subseteq 0 .. Len(pt.seq) - 1
  /\ icicle.shown => /\ icicle.compression \in 1 .. MaxSteps + 1
                     /\ icicle.scroll \in 0 .. icicle.max
                     /\ icicle.width \in [places -> Nat]
  /\ lantern.applied \in Limits \cup {0}
  /\ fault \in {"none", "draw", "select"}
  /\ steps \in 0 .. MaxSteps

\* The pixel tree is the tree from left to right: every node once, a node
\* before those below it, those below a child before the next child, at its
\* depth (pt_canvas.cpp:120-160).
PixelTreeExact ==
  pt.shown =>
    /\ {item.nid : item \in ToSet(pt.seq)} = places /\ Len(pt.seq) = Cardinality(places)
    /\ \A i, j \in DOMAIN pt.seq : i < j => Sooner(pt.seq[i].nid, pt.seq[j].nid)
    /\ \A item \in ToSet(pt.seq) : item.depth = Len(item.nid) + 1

\* Whatever the compression, every node is in one slice, no slice is empty, and
\* the scroll bar gets to every slice (pt_canvas.cpp:115-118, 162-256).
SlicesCover ==
  (pt.shown /\ fault = "none") =>
    /\ \A i \in DOMAIN pt.seq :
         Cardinality({slice \in 0 .. TotalSlices(pt) - 1 : i - 1 \in Within(pt, slice)}) = 1
    /\ \A slice \in 0 .. TotalSlices(pt) - 1 : Within(pt, slice) # {}
    /\ 0 .. TotalSlices(pt) - 1 \subseteq
         UNION {DrawnSlices([pt EXCEPT !.scroll = v]) : v \in 0 .. pt.max}

\* Drawing stays within the sequence, whatever is zoomed, resized, scrolled or
\* selected, but for two cases in which it may begin behind the end, where the
\* loops that stop at the size do not stop: the compression is raised and the
\* scroll bar is still where it was, or the page holds one column only and the
\* range of the scroll bar goes one too far (pt_canvas.cpp:162-256).
DrawsOutsideRarely ==
  [][fault' = "draw" /\ fault = "none" =>
       \/ pt'.compression > pt.compression /\ pt.scroll > 0
       \/ PageWidth(pt') = 1]_vars

\* Selecting slices leaves their nodes to be seen in the traditional view, and
\* what leads to none of them is closed, for nodes above one another too
\* (pt_canvas.cpp:258-293, execution_window.cpp:423-425).
SlicesVisible ==
  [][(pt.shown /\ pt'.selected # pt.selected /\ SelectedNodes(pt, pt'.selected) # {}) =>
       LeadsTo(SelectedNodes(pt, pt.selected))']_vars

\* Hiding the rest does the same for a pattern and for slices.
RestHidden == PatternVisible /\ SlicesVisible

\* "Select nodes based on vertical slices (may be out of bounds)"
\* (pt_canvas.hh:76), "indexes may refer to non-existing slices"
\* (pixel_widget.hh:58): a selection reads no item outside the sequence.
SelectMayBeOutOfBounds == fault # "select"

\* A saved picture lacks nodes only at its edges, in the last two slices and on
\* the last three levels, and there is a picture unless just one of its sides
\* has less than ten pixels (conductor.cpp:385-395, pixel_image.cpp:42-53).
SavedButForEdges ==
  saved.compression # 0 =>
    LET p == [seq |-> PixelTree, compression |-> saved.compression]
        levels == GreatestOf({Len(n) + 1 : n \in places})
    IN /\ saved.throws <=> (TotalSlices(p) <= 2) # (levels <= 2)
       /\ (~saved.throws /\ levels > 2) =>
            \A i \in DOMAIN p.seq :
              p.seq[i].nid \in saved.nodes \/ p.seq[i].depth >= levels - 2
                \/ (i - 1) \div saved.compression >= TotalSlices(p) - 2

\* The pixel tree shows, and saves, the whole tree at its places, whatever is
\* compressed, scrolled and selected.
PixelsExact == PixelsTypeOK /\ PixelTreeExact /\ SlicesCover /\ SavedButForEdges

\* A unit of the icicle tree stands for one subtree of the height of the
\* compression: every node is as wide as there are such subtrees below it
\* (icicle_canvas.cpp:51-125).
WidthCountsUnits ==
  icicle.shown =>
    \A n \in places :
      icicle.width[n] = Cardinality({m \in Below(n) : HeightOf(m) = icicle.compression})

\* A click finds what is drawn where it is: the walk from the root that finds a
\* node and the one that draws, which leaves out what is outside the page,
\* agree on every column and level (icicle_canvas.cpp:127-172, 338-368).
ClickHitsDrawn ==
  (icicle.shown /\ icicle.drawnAt = icicle.scroll) =>
    LET drawn == {CutOff(r) : r \in DrawIcicle(icicle, icicle.drawnAt)}
    IN \A x \in 0 .. PageWidth(icicle) - 1 : \A y \in {Len(n) : n \in places} :
         FindNode(icicle, icicle.scroll + x, y) =
           {r.nid : r \in {q \in drawn : q.y = y /\ q.x <= x /\ x < q.x + q.width}}

\* Every rectangle that is drawn passes the assertions of the image, also where
\* it is cut off on the left (pixel_image.cpp:26, 84-98).
RectanglesDrawable ==
  icicle.shown =>
    \A r \in DrawIcicle(icicle, icicle.drawnAt) : r.width > 0 /\ CutOff(r).width > 0

\* The icicle tree is as wide as what it stands for, every part of it can be drawn
\* and a click finds the part it is on.
IcicleExact == WidthCountsUnits /\ ClickHitsDrawn /\ RectanglesDrawable

\* When the throttle waits for nothing, what is drawn is where the scroll bar
\* is, though drawing may move the scroll bar and be called again meanwhile
\* (icicle_canvas.cpp:253-294, maybe_caller.cpp:16-36).
IcicleCatchesUp ==
  (icicle.shown /\ ~icicle.throttle.timer) => icicle.drawnAt = icicle.scroll

\* When the throttle waits for nothing, the lanterns are those of the limit
\* chosen last, unless it was applied at once while an earlier limit waited:
\* then that one is applied after it (maybe_caller.cpp:16-36,
\* execution_window.cpp:126-130).
LanternAsAsked ==
  ~lantern.throttle.timer =>
    lantern.applied = lantern.asked \/ lantern.overtaken
\* A throttled call is late, but it is made, and it is the last one asked for,
\* but for a value that was applied at once and overtaken by an older one.
ThrottleCatchesUp == IcicleCatchesUp /\ LanternAsAsked
=============================================================================
