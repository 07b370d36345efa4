----------------------------- MODULE WindowProofs -----------------------------
(***************************************************************************)
(* What is proved of the windows on a finished tree: the window of similar *)
(* subtrees, the pixel and the icicle tree and the lantern slider.         *)
(***************************************************************************)
EXTENDS PixelViews, Induction

-----------------------------------------------------------------------------
(* The throttle *)

IcicleFields == {"shown", "compression", "width", "pixelSize", "viewport", "scroll", "max",
                 "drawnAt", "selected", "throttle"}
LanternLimits == Limits \cup {0}

\* The scroll bar has been drawn where it is, or the throttle waits to draw it.
IcicleInv ==
  \/ icicle = NotShown
  \/ /\ DOMAIN icicle = IcicleFields /\ icicle.shown
     /\ icicle.drawnAt = icicle.scroll \/ icicle.throttle.timer

\* A limit that waits is the one asked for last, unless that one was applied at
\* once meanwhile.
LanternInv ==
  /\ lantern \in [asked : LanternLimits, applied : LanternLimits,
                  throttle : [timer : BOOLEAN, fn : LanternLimits], overtaken : BOOLEAN]
  /\ lantern.overtaken \/ lantern.asked = IF lantern.throttle.timer THEN lantern.throttle.fn
                                          ELSE lantern.applied

LEMMA RedrawCatchesUp ==
  ASSUME NEW ic, DOMAIN ic = IcicleFields, ic.shown, RedrawIcicle(ic)
  PROVE  IcicleInv'
<1> DEFINE done == [Clamped(ic, ic.width[Root]) EXCEPT !.drawnAt = ic.scroll]
<1>1. DOMAIN done = IcicleFields /\ done.shown
  BY DEF Clamped, IcicleFields
<1>2. \/ icicle' = [done EXCEPT !.drawnAt = done.scroll, !.throttle = CallNow(@)]
      \/ icicle' = [done EXCEPT !.throttle = CallLater(@, 0)]
  BY DEF RedrawIcicle
<1> HIDE DEF done
<1>3. CASE icicle' = [done EXCEPT !.drawnAt = done.scroll, !.throttle = CallNow(@)]
  BY <1>1, <1>3 DEF IcicleInv, IcicleFields
<1>4. CASE icicle' = [done EXCEPT !.throttle = CallLater(@, 0)]
  BY <1>1, <1>4 DEF IcicleInv, IcicleFields, CallLater
<1> QED BY <1>2, <1>3, <1>4

LEMMA IcicleStep ==
  ASSUME IcicleInv, [Next]_vars
  PROVE  IcicleInv'
<1>1. CASE UNCHANGED icicle
  BY <1>1 DEF IcicleInv
<1>2. ASSUME NEW viewport \in Viewports, ShowIcicle(viewport) PROVE IcicleInv'
  <2>1. PICK w : w = ComputeIcicle(1)
    OBVIOUS
  <2> DEFINE ic == [shown |-> TRUE, compression |-> 1, width |-> w,
                    pixelSize |-> 10, viewport |-> viewport, scroll |-> 0, max |-> 0,
                    drawnAt |-> 0, selected |-> {}, throttle |-> Idle]
  <2>2. RedrawIcicle(ic)
    BY <1>2, <2>1 DEF ShowIcicle
  <2>3. DOMAIN ic = IcicleFields /\ ic.shown
    BY DEF IcicleFields
  <2> HIDE DEF ic
  <2> QED BY <2>2, <2>3, RedrawCatchesUp
<1>3. ASSUME icicle.shown PROVE DOMAIN icicle = IcicleFields
  BY <1>3 DEF IcicleInv, NotShown
<1>4. CASE Compress
  <2>1. PICK c, w : RedrawIcicle([icicle EXCEPT !.compression = c, !.width = w])
    BY <1>4 DEF Compress
  <2> DEFINE ic == [icicle EXCEPT !.compression = c, !.width = w]
  <2>2. DOMAIN ic = IcicleFields /\ ic.shown
    BY <1>3, <1>4 DEF IcicleFields, Compress, UseIcicle
  <2> HIDE DEF ic
  <2> QED BY <2>1, <2>2, RedrawCatchesUp DEF ic
<1>5. CASE ZoomIcicle
  <2>1. PICK size : RedrawIcicle([icicle EXCEPT !.pixelSize = size])
    BY <1>5 DEF ZoomIcicle, Zoomed
  <2> DEFINE ic == [icicle EXCEPT !.pixelSize = size]
  <2>2. DOMAIN ic = IcicleFields /\ ic.shown
    BY <1>3, <1>5 DEF IcicleFields, ZoomIcicle, UseIcicle
  <2> HIDE DEF ic
  <2> QED BY <2>1, <2>2, RedrawCatchesUp DEF ic
<1>6. CASE ResizeIcicle
  <2>1. PICK w : RedrawIcicle([icicle EXCEPT !.viewport = w])
    BY <1>6 DEF ResizeIcicle
  <2> DEFINE ic == [icicle EXCEPT !.viewport = w]
  <2>2. DOMAIN ic = IcicleFields /\ ic.shown
    BY <1>3, <1>6 DEF IcicleFields, ResizeIcicle, UseIcicle
  <2> HIDE DEF ic
  <2> QED BY <2>1, <2>2, RedrawCatchesUp DEF ic
<1>7. CASE ScrollIcicle
  <2>1. icicle.shown /\ DOMAIN icicle = IcicleFields
    BY <1>3, <1>7 DEF ScrollIcicle, UseIcicle
  <2>2. PICK v : \/ RedrawIcicle([icicle EXCEPT !.scroll = v])
                 \/ icicle' = [icicle EXCEPT !.scroll = v, !.throttle = CallLater(@, 0)]
    BY <1>7 DEF ScrollIcicle
  <2>3. CASE RedrawIcicle([icicle EXCEPT !.scroll = v])
    <3> DEFINE ic == [icicle EXCEPT !.scroll = v]
    <3>1. DOMAIN ic = IcicleFields /\ ic.shown
      BY <2>1 DEF IcicleFields
    <3> HIDE DEF ic
    <3> QED BY <2>3, <3>1, RedrawCatchesUp DEF ic
  <2>4. CASE icicle' = [icicle EXCEPT !.scroll = v, !.throttle = CallLater(@, 0)]
    BY <2>1, <2>4 DEF IcicleInv, IcicleFields, CallLater
  <2> QED BY <2>2, <2>3, <2>4
<1>8. CASE RedrawLater
  <2>1. RedrawIcicle([icicle EXCEPT !.throttle = CallViaTimer(@)])
    BY <1>8 DEF RedrawLater
  <2> DEFINE ic == [icicle EXCEPT !.throttle = CallViaTimer(@)]
  <2>2. DOMAIN ic = IcicleFields /\ ic.shown
    BY <1>3, <1>8 DEF IcicleFields, RedrawLater
  <2> HIDE DEF ic
  <2> QED BY <2>1, <2>2, RedrawCatchesUp DEF ic
<1>9. CASE ClickIcicle
  <2>1. PICK found : RedrawIcicle([icicle EXCEPT !.selected = found])
    BY <1>9 DEF ClickIcicle
  <2> DEFINE ic == [icicle EXCEPT !.selected = found]
  <2>2. DOMAIN ic = IcicleFields /\ ic.shown
    BY <1>3, <1>9 DEF IcicleFields, ClickIcicle, UseIcicle
  <2> HIDE DEF ic
  <2> QED BY <2>1, <2>2, RedrawCatchesUp DEF ic
<1>10. \/ UNCHANGED icicle \/ Compress \/ ZoomIcicle \/ ResizeIcicle \/ ScrollIcicle
       \/ RedrawLater \/ ClickIcicle \/ \E viewport \in Viewports : ShowIcicle(viewport)
  BY DEF Next, vars, pixelVars, ShowPixelTree, AddCompression, ReduceCompression, ZoomPixels,
         ResizePixels, ScrollPixels, Drag, SelectNodes, UsePixels, SavePixelTree, SlideLantern,
         LanternLater
<1> QED BY <1>1, <1>2, <1>4, <1>5, <1>6, <1>7, <1>8, <1>9, <1>10

LEMMA LanternStep ==
  ASSUME LanternInv, [Next]_vars
  PROVE  LanternInv'
<1>1. CASE UNCHANGED lantern
  BY <1>1 DEF LanternInv
<1>2. CASE SlideLantern
  <2>1. PICK limit \in Limits :
          \/ lantern' = [asked |-> limit, applied |-> limit, throttle |-> lantern.throttle,
                         overtaken |-> lantern.throttle.timer]
          \/ lantern' = [lantern EXCEPT !.asked = limit,
                                        !.throttle = [timer |-> TRUE, fn |-> limit],
                                        !.overtaken = FALSE]
    BY <1>2 DEF SlideLantern, CallNow, CallLater
  <2>2. CASE lantern' = [asked |-> limit, applied |-> limit, throttle |-> lantern.throttle,
                         overtaken |-> lantern.throttle.timer]
    BY <2>2 DEF LanternInv, LanternLimits
  <2>3. CASE lantern' = [lantern EXCEPT !.asked = limit,
                                        !.throttle = [timer |-> TRUE, fn |-> limit],
                                        !.overtaken = FALSE]
    BY <2>3 DEF LanternInv, LanternLimits
  <2> QED BY <2>1, <2>2, <2>3
<1>3. CASE LanternLater
  BY <1>3 DEF LanternLater, LanternInv, LanternLimits, CallViaTimer
<1>4. UNCHANGED lantern \/ SlideLantern \/ LanternLater
  BY DEF Next, vars, pixelVars, ShowPixelTree, AddCompression, ReduceCompression, ZoomPixels,
         ResizePixels, ScrollPixels, Drag, SelectNodes, UsePixels, SavePixelTree, Compress,
         ZoomIcicle, ResizeIcicle, ScrollIcicle, RedrawLater, ClickIcicle, UseIcicle, ShowIcicle
<1> QED BY <1>1, <1>2, <1>3, <1>4

\* A throttled call is late, but it is made, and it is the last one asked for:
\* MaybeCaller, for the icicle tree and for the lantern slider.
THEOREM ThrottleHolds == Spec => []ThrottleCatchesUp
<1>1. Init => IcicleInv /\ LanternInv
  BY DEF Init, IcicleInv, LanternInv, LanternLimits, Idle
<1>2. IcicleInv /\ LanternInv /\ [Next]_vars => (IcicleInv /\ LanternInv)'
  BY IcicleStep, LanternStep
<1>3. IcicleInv /\ LanternInv => ThrottleCatchesUp
  BY DEF IcicleInv, LanternInv, ThrottleCatchesUp, IcicleCatchesUp, LanternAsAsked, NotShown
<1> QED BY <1>1, <1>2, <1>3, PTL DEF Spec

-----------------------------------------------------------------------------
(* The tree of the views *)

\* The children of n are at its first k alternatives.
Has(n, k) == k \in Nat /\ \A a \in Alternatives : Append(n, a) \in places <=> a <= k

TreeInv ==
  /\ IsFiniteSet(places) /\ places \subseteq PlaceSet /\ Root \in places
  /\ \A n \in places : n # Root => Front(n) \in places
  /\ \A n \in places : \E k : Has(n, k)

LEMMA KidsAre ==
  ASSUME TreeInv, NEW n \in places
  PROVE  /\ Has(n, KidCount(n))
         /\ KidsIn(places, n) = {Kid(n, a) : a \in 1 .. KidCount(n)}
         /\ KidsIn(places, n) \subseteq places /\ IsFiniteSet(KidsIn(places, n))
<1>1. PICK k : Has(n, k)
  BY DEF TreeInv
<1> DEFINE K == KidsIn(places, n)
           f == [a \in 1 .. k |-> Append(n, a)]
<1>2. n \in PlaceSet /\ k \in Nat
  BY <1>1 DEF TreeInv, Has
<1>3. ASSUME NEW a \in 1 .. k PROVE a \in Alternatives /\ Append(n, a) \in K
  <2>1. a \in Alternatives
    BY DEF Alternatives
  <2>2. Append(n, a) \in places
    BY <1>1, <2>1 DEF Has
  <2> QED BY <1>2, <2>1, <2>2, AppendIs DEF KidsIn, Root
<1>4. ASSUME NEW q \in K PROVE \E a \in 1 .. k : q = Append(n, a)
  <2>1. q \in PlaceSet /\ q # <<>> /\ Front(q) = n /\ q \in places
    BY DEF KidsIn, Root, TreeInv
  <2>2. Last(q) \in Alternatives /\ q = Append(n, Last(q))
    BY <2>1, FrontIs
  <2>3. Last(q) <= k
    BY <1>1, <2>1, <2>2 DEF Has
  <2> QED BY <1>2, <2>2, <2>3 DEF Alternatives
<1>5. f \in Bijection(1 .. k, K)
  <2>1. f \in [1 .. k -> K]
    BY <1>3
  <2>2. \A a, b \in 1 .. k : f[a] = f[b] => a = b
    BY <1>2, <1>3, AppendSame
  <2>3. \A q \in K : \E a \in 1 .. k : f[a] = q
    BY <1>4
  <2> HIDE DEF f, K
  <2> QED BY <2>1, <2>2, <2>3 DEF Bijection, Injection, Surjection, IsInjective
<1>6. IsFiniteSet(K) /\ Cardinality(K) = k
  <2> HIDE DEF f, K
  <2> QED BY <1>2, <1>5, FS_CountingElements, FS_NatBijection DEF ExistsBijection
<1>7. K = {Kid(n, a) : a \in 1 .. k}
  BY <1>3, <1>4 DEF Kid
<1>8. KidCount(n) = k
  BY <1>6 DEF KidCount
<1> QED BY <1>1, <1>6, <1>7, <1>8 DEF KidsIn

LEMMA NoKids ==
  ASSUME TreeInv, NEW n \in places, KidsIn(places, n) = {}
  PROVE  \A a \in Alternatives : Append(n, a) \notin places
BY AppendIs DEF KidsIn, Root, TreeInv

LEMMA AddKidsKeepsTree ==
  ASSUME TreeInv, NEW n, NEW k \in 1 .. MaxKids, AddKids(n, k)
  PROVE  TreeInv'
<1> DEFINE New == {Kid(n, i) : i \in 1 .. k}
<1>1. n \in places /\ n \in PlaceSet /\ places' = places \cup New /\ k \in Nat
  BY OutlineBounds DEF AddKids, TreeInv
<1>2. \A a \in Alternatives : Append(n, a) \notin places
  BY <1>1, NoKids DEF AddKids
<1>3. \A i \in 1 .. k : i \in Alternatives
  BY DEF Alternatives
<1>4. ASSUME NEW q \in New
      PROVE  /\ q \in PlaceSet /\ q # Root /\ Front(q) = n /\ q # n /\ q \notin places
             /\ \A a \in Alternatives : Append(q, a) \notin New
             /\ \A a \in Alternatives : Append(q, a) \notin places
  <2>1. PICK i \in 1 .. k : q = Append(n, i)
    BY DEF Kid
  <2>2. /\ q \in PlaceSet /\ q # Root /\ Front(q) = n /\ q # n /\ q \notin places
    BY <1>1, <1>2, <1>3, <2>1, AppendIs DEF Root
  <2>3. ASSUME NEW a \in Alternatives PROVE Append(q, a) \notin New /\ Append(q, a) \notin places
    <3>1. Front(Append(q, a)) = q /\ Append(q, a) # Root
      BY <2>2, AppendIs DEF Root
    <3>2. \A j \in 1 .. k : Front(Kid(n, j)) = n
      BY <1>1, <1>3, AppendIs DEF Kid
    <3> QED BY <2>2, <3>1, <3>2 DEF TreeInv
  <2> QED BY <2>2, <2>3
<1>5. IsFiniteSet(places')
  <2>1. IsFiniteSet(1 .. k)
    BY <1>1, FS_Interval
  <2>2. IsFiniteSet(New)
    <3> DEFINE f == [i \in 1 .. k |-> Kid(n, i)]
    <3>1. f \in Surjection(1 .. k, New)
      BY DEF Surjection
    <3> HIDE DEF f, New
    <3> QED BY <2>1, <3>1, FS_Surjection
  <2> HIDE DEF New
  <2> QED BY <1>1, <2>2, FS_Union DEF TreeInv
<1>6. places' \subseteq PlaceSet /\ Root \in places' /\ \A m \in places' : m # Root => Front(m) \in places'
  <2> HIDE DEF New
  <2> QED BY <1>1, <1>4 DEF TreeInv
<1>7. ASSUME NEW m \in places' PROVE \E j : Has(m, j)'
  <2>1. CASE m = n
    <3>1. \A a \in Alternatives : Append(m, a) \in New <=> a <= k
      <4>1. \A a \in Alternatives : a <= k => Append(n, a) \in New
        BY <1>1 DEF Kid, Alternatives
      <4>2. ASSUME NEW a \in Alternatives, Append(n, a) \in New PROVE a <= k
        <5>1. PICK i \in 1 .. k : Append(n, a) = Append(n, i)
          BY <4>2 DEF Kid
        <5>2. a = i
          BY <1>1, <1>3, <5>1, AppendSame
        <5> QED BY <1>1, <5>2
      <4> QED BY <2>1, <4>1, <4>2
    <3> HIDE DEF New
    <3>2. Has(m, k)'
      BY <1>1, <1>2, <2>1, <3>1 DEF Has
    <3> QED BY <3>2
  <2>2. CASE m \in New
    <3> HIDE DEF New
    <3>1. Has(m, 0)'
      BY <1>1, <1>4, <2>2 DEF Has, Alternatives
    <3> QED BY <3>1
  <2>3. CASE m \in places /\ m # n
    <3>1. PICK j : Has(m, j)
      BY <2>3 DEF TreeInv
    <3>2. ASSUME NEW a \in Alternatives PROVE Append(m, a) \notin New
      <4>1. m \in PlaceSet
        BY <2>3 DEF TreeInv
      <4>2. Front(Append(m, a)) = m
        BY <4>1, AppendIs
      <4> HIDE DEF New
      <4> QED BY <1>4, <2>3, <4>2
    <3> HIDE DEF New
    <3>3. Has(m, j)'
      BY <1>1, <3>1, <3>2 DEF Has
    <3> QED BY <3>3
  <2> HIDE DEF New
  <2> QED BY <1>1, <2>1, <2>2, <2>3
<1> QED BY <1>5, <1>6, <1>7 DEF TreeInv

LEMMA TreeStep ==
  ASSUME TreeInv, [Next]_vars
  PROVE  TreeInv'
<1>1. CASE UNCHANGED places
  BY <1>1 DEF TreeInv, Has
<1>2. UNCHANGED places \/ \E n, k : k \in 1 .. MaxKids /\ AddKids(n, k)
  <2>1. CASE PatternsNext
    <3>1. CASE EditTree
      BY <3>1 DEF EditTree, OutlineNext, Hide, ShowLabel
    <3>2. CASE OpenWindow
      BY <3>2 DEF OpenWindow, outlineVars
    <3>3. CASE UseWindow
      BY <3>3 DEF UseWindow, Settings, ChooseType, FilterHeight, FilterCount, SortBy, KeepSubsumed,
         HistogramBy, HideNotSelected, Redisplay, Changed, NextPattern, PrevPattern, FindAndSelect,
         ChangeSelectedPattern, Announce, outlineVars
    <3> QED BY <2>1, <3>1, <3>2, <3>3 DEF PatternsNext
  <2>2. CASE UNCHANGED vars
    BY <2>2 DEF vars, patternVars, outlineVars
  <2>3. CASE Next /\ ~PatternsNext
    BY <2>3 DEF Next, ShowPixelTree, AddCompression, ReduceCompression, ZoomPixels,
         ResizePixels, ScrollPixels, Drag, SelectNodes, UsePixels, SavePixelTree, Compress,
         ZoomIcicle, ResizeIcicle, ScrollIcicle, RedrawLater, ClickIcicle, UseIcicle, ShowIcicle,
         SlideLantern, LanternLater, patternVars, outlineVars
  <2> QED BY <2>1, <2>2, <2>3
<1>3. CASE \E n, k : k \in 1 .. MaxKids /\ AddKids(n, k)
  BY <1>3, AddKidsKeepsTree
<1> QED BY <1>1, <1>2, <1>3

LEMMA TreeBegins ==
  ASSUME OutlineInit
  PROVE  TreeInv
<1>1. places = {Root} /\ <<>> \in PlaceSet
  BY EmptySeq DEF OutlineInit, PlaceSet
<1>2. IsFiniteSet(places)
  BY <1>1, FS_Singleton
<1>3. \A a \in Alternatives : Append(Root, a) \notin places
  BY <1>1, AppendIs DEF Root
<1>4. Has(Root, 0)
  BY <1>3 DEF Has, Alternatives
<1> QED BY <1>1, <1>2, <1>4 DEF TreeInv, Root

-----------------------------------------------------------------------------
(* A walk over the tree with a stack *)

\* In R, a node is before what is below it, and what is below a child is before
\* what is below the children that are pushed sooner.
WalkOrder(kids, R) ==
  /\ \A x \in places : <<x, x>> \notin R
  /\ \A x, y \in places : IsStrictPrefix(x, y) => <<x, y>> \in R
  /\ \A n \in places : \A i, j \in 1 .. Len(kids[n]) : i < j =>
       \A x, y \in places : IsPrefix(kids[n][j], x) /\ IsPrefix(kids[n][i], y) => <<x, y>> \in R

\* stacks[k] is the stack after k nodes, v[k] the node taken from the one before.
Walk(stacks, v, kids) ==
  /\ stacks[0] = <<Root>>
  /\ \A n \in places : Once(kids[n], KidsIn(places, n))
  /\ \A k \in 1 .. Cardinality(places) :
       /\ v[k] = Last(stacks[k - 1])
       /\ v[k] \in places => stacks[k] = Front(stacks[k - 1]) \o kids[v[k]]

\* After k nodes, the others are below what is on the stack, and all is in order.
WalkedTo(stack, v, k, R) ==
  /\ stack \in Seq(places)
  /\ \A i \in 1 .. k : v[i] \in places
  /\ \A i, j \in 1 .. k : i < j => <<v[i], v[j]>> \in R
  /\ \A p \in places : \/ \E i \in 1 .. k : v[i] = p
                       \/ \E a \in 1 .. Len(stack) : IsPrefix(stack[a], p)
  /\ \A p \in places, i \in 1 .. k, a \in 1 .. Len(stack) :
       IsPrefix(stack[a], p) => <<v[i], p>> \in R
  /\ \A a, b \in 1 .. Len(stack) : a < b =>
       \A x, y \in places : IsPrefix(stack[b], x) /\ IsPrefix(stack[a], y) => <<x, y>> \in R

\* The stack is not empty before all nodes have been visited.
LEMMA WalkNotOver ==
  ASSUME TreeInv, NEW stack, NEW v, NEW k \in Nat, NEW R, WalkedTo(stack, v, k, R),
         k < Cardinality(places)
  PROVE  Len(stack) \in Nat /\ Len(stack) > 0
<1>1. Len(stack) \in Nat
  BY LenProperties DEF WalkedTo
<1> SUFFICES ASSUME Len(stack) = 0 PROVE FALSE
  BY <1>1
<1>2. \A p \in places : \E i \in 1 .. k : v[i] = p
  BY DEF WalkedTo
<1> DEFINE f == [i \in 1 .. k |-> v[i]]
<1>3. f \in Surjection(1 .. k, places)
  <2>1. f \in [1 .. k -> places]
    BY DEF WalkedTo
  <2>2. \A p \in places : \E i \in 1 .. k : f[i] = p
    BY <1>2
  <2> HIDE DEF f
  <2> QED BY <2>1, <2>2 DEF Surjection
<1>4. Cardinality(places) <= k
  <2> HIDE DEF f
  <2> QED BY <1>3, FS_SurjCardinalityBound DEF ExistsSurjection
<1>5. Cardinality(places) \in Nat
  BY FS_CardinalityType DEF TreeInv
<1> QED BY <1>4, <1>5

\* What is above a node is a node.
LEMMA PlaceAbove ==
  ASSUME TreeInv, NEW q \in places, NEW p \in PlaceSet, IsPrefix(p, q)
  PROVE  p \in places
<1> DEFINE X == {s \in PlaceSet : s \in places /\ IsPrefix(p, s) => p \in places}
<1>1. <<>> \in X
  <2>1. <<>> \in PlaceSet
    BY EmptySeq DEF PlaceSet
  <2>2. IsPrefix(p, <<>>) => p = <<>>
    BY <2>1, PrefixOrder
  <2> QED BY <2>1, <2>2
<1>2. ASSUME NEW s \in Seq(Alternatives), NEW e \in Alternatives, s \in X
      PROVE  Append(s, e) \in X
  <2>1. s \in PlaceSet
    BY DEF PlaceSet
  <2>2. /\ Append(s, e) \in PlaceSet /\ Append(s, e) # Root /\ Front(Append(s, e)) = s
        /\ IsPrefix(p, Append(s, e)) => p = Append(s, e) \/ IsPrefix(p, s)
    BY <2>1, AppendIs DEF Root
  <2>3. Append(s, e) \in places => s \in places
    BY <2>2 DEF TreeInv
  <2> QED BY <1>2, <2>2, <2>3
<1>3. \A s \in Seq(Alternatives) : s \in X
  <2> HIDE DEF X
  <2> QED BY <1>1, <1>2, SeqInduction
<1> QED BY <1>3 DEF PlaceSet, TreeInv

\* What is below a node is the node and what is below its children.
LEMMA BelowIs ==
  ASSUME TreeInv, NEW n \in places, NEW p \in places, IsPrefix(n, p), p # n
  PROVE  /\ \E a \in 1 .. KidCount(n) : IsPrefix(Kid(n, a), p)
         /\ \E m \in KidsIn(places, n) : IsPrefix(m, p)
<1>1. n \in PlaceSet /\ p \in PlaceSet
  BY DEF TreeInv
<1>2. PICK a : a = p[Len(n) + 1]
  OBVIOUS
<1>3. a \in Alternatives /\ IsPrefix(Append(n, a), p)
  BY <1>1, <1>2, StepDown
<1>4. Append(n, a) \in PlaceSet
  BY <1>1, <1>3, AppendIs
<1>5. Append(n, a) \in places
  BY <1>3, <1>4, PlaceAbove
<1>6. a <= KidCount(n) /\ KidCount(n) \in Nat
  BY <1>3, <1>5, KidsAre DEF Has
<1>7. a \in 1 .. KidCount(n)
  BY <1>3, <1>6 DEF Alternatives
<1> QED BY <1>3, <1>7, KidsAre DEF Kid

LEMMA WalkStep ==
  ASSUME TreeInv, NEW kids, NEW R, WalkOrder(kids, R),
         NEW stack, NEW v, NEW k \in Nat, WalkedTo(stack, v, k, R),
         Len(stack) > 0, v[k + 1] = Last(stack),
         Once(kids[v[k + 1]], KidsIn(places, v[k + 1])),
         NEW next, next = Front(stack) \o kids[v[k + 1]]
  PROVE  WalkedTo(next, v, k + 1, R)
<1>1. PICK top, m, here : top = v[k + 1] /\ m = Len(stack) /\ here = kids[top]
  OBVIOUS
<1>2. /\ m \in Nat \ {0} /\ stack \in Seq(places) /\ top = stack[m] /\ top \in places
      /\ \A a \in 1 .. m : stack[a] \in places
  <2>1. stack \in Seq(places) /\ m \in Nat
    BY <1>1, LenProperties DEF WalkedTo
  <2>2. top = stack[m] /\ m \in Nat \ {0}
    BY <1>1, <2>1 DEF Last
  <2> QED BY <1>1, <2>1, <2>2, ElementOfSeq
<1>3. /\ here \in Seq(places) /\ Len(here) \in Nat
      /\ \A x \in KidsIn(places, top) : \E i \in 1 .. Len(here) : here[i] = x
      /\ \A i \in 1 .. Len(here) : here[i] \in KidsIn(places, top) /\ here[i] \in places
  <2>1. here \in Seq(KidsIn(places, top)) /\ KidsIn(places, top) \subseteq places
    BY <1>1, <1>2, KidsAre DEF Once
  <2>2. here \in Seq(places) /\ Len(here) \in Nat
    BY <2>1, SeqMonotonic, LenProperties
  <2>3. \A i \in 1 .. Len(here) : here[i] \in KidsIn(places, top)
    BY <2>1, ElementOfSeq
  <2> QED BY <1>1, <2>1, <2>2, <2>3 DEF Once
<1>4. ASSUME NEW x \in KidsIn(places, top), NEW p \in places, IsPrefix(x, p)
      PROVE  IsPrefix(top, p) /\ IsStrictPrefix(top, p)
  <2>1. x \in PlaceSet /\ top \in PlaceSet /\ p \in PlaceSet /\ x # <<>> /\ Front(x) = top
    BY <1>2 DEF KidsIn, Root, TreeInv
  <2>2. PICK l \in Alternatives : x = Append(top, l)
    BY <2>1, FrontIs
  <2>3. IsPrefix(top, x) /\ ~IsPrefix(x, top)
    BY <2>1, <2>2, AppendIs
  <2>4. IsPrefix(top, p) /\ top # p
    BY <1>4, <2>1, <2>3, PrefixOrder
  <2> QED BY <2>4 DEF IsStrictPrefix
<1>5. /\ next \in Seq(places) /\ Len(next) = m - 1 + Len(here)
      /\ \A a \in 1 .. m - 1 : next[a] = stack[a]
      /\ \A i \in 1 .. Len(here) : m - 1 + i \in 1 .. Len(next) /\ next[m - 1 + i] = here[i]
  <2>1. /\ Front(stack) \in Seq(places) /\ Len(Front(stack)) = m - 1
        /\ \A a \in 1 .. m - 1 : Front(stack)[a] = stack[a]
    <3>1. \A a \in 1 .. m - 1 : stack[a] \in places
      BY <1>2
    <3>2. /\ SubSeq(stack, 1, m - 1) \in Seq(places)
          /\ Len(SubSeq(stack, 1, m - 1)) = IF 1 <= m - 1 THEN m - 1 - 1 + 1 ELSE 0
          /\ \A i \in 1 .. m - 1 - 1 + 1 : SubSeq(stack, 1, m - 1)[i] = stack[1 + i - 1]
      BY <1>2, <3>1, SubSeqProperties
    <3>3. Front(stack) = SubSeq(stack, 1, m - 1)
      BY <1>1 DEF Front
    <3> QED BY <1>2, <3>2, <3>3
  <2>2. PICK f : f = Front(stack)
    OBVIOUS
  <2>3. next = f \o here
    BY <1>1, <2>2
  <2>4. f \in Seq(places) /\ Len(f) = m - 1
    BY <2>1, <2>2
  <2>5. /\ next \in Seq(places) /\ Len(next) = Len(f) + Len(here)
        /\ \A a \in 1 .. Len(f) + Len(here) :
             next[a] = IF a <= Len(f) THEN f[a] ELSE here[a - Len(f)]
    BY <1>3, <2>3, <2>4, ConcatProperties
  <2>6. /\ next \in Seq(places) /\ Len(next) = m - 1 + Len(here)
        /\ \A a \in 1 .. m - 1 : next[a] = stack[a]
    <3>1. \A a \in 1 .. m - 1 : a \in 1 .. Len(f) + Len(here) /\ a <= Len(f)
      BY <1>2, <1>3, <2>4
    <3>2. \A a \in 1 .. m - 1 : next[a] = f[a]
      BY <2>5, <3>1
    <3> QED BY <2>1, <2>2, <2>4, <2>5, <3>2
  <2>7. ASSUME NEW i \in 1 .. Len(here)
        PROVE  m - 1 + i \in 1 .. Len(next) /\ next[m - 1 + i] = here[i]
    <3>1. PICK a : a = m - 1 + i
      OBVIOUS
    <3>2. /\ a \in 1 .. Len(f) + Len(here) /\ ~(a <= Len(f)) /\ a - Len(f) = i
      BY <1>2, <1>3, <2>4, <3>1
    <3>3. a \in 1 .. Len(next) /\ next[a] = here[i]
      BY <2>5, <3>2
    <3> QED BY <3>1, <3>3
  <2> QED BY <2>6, <2>7
<1>6. \A a \in 1 .. Len(next) : \/ a \in 1 .. m - 1 /\ next[a] = stack[a]
                                \/ \E i \in 1 .. Len(here) : a = m - 1 + i /\ next[a] = here[i]
  <2> SUFFICES ASSUME NEW a \in 1 .. Len(next), a \notin 1 .. m - 1
               PROVE  \E i \in 1 .. Len(here) : a = m - 1 + i /\ next[a] = here[i]
    BY <1>5
  <2>1. a - (m - 1) \in 1 .. Len(here) /\ a = m - 1 + (a - (m - 1))
    BY <1>2, <1>3, <1>5
  <2> QED BY <1>5, <2>1
<1>7. ASSUME NEW a \in 1 .. Len(next), NEW p \in places, IsPrefix(next[a], p)
      PROVE  \E b \in 1 .. m : IsPrefix(stack[b], p) /\ (b = m => IsStrictPrefix(top, p))
                               /\ (b = m <=> a >= m) /\ (b # m => b = a)
  <2>1. CASE a \in 1 .. m - 1 /\ next[a] = stack[a]
    BY <1>2, <1>7, <2>1
  <2>2. ASSUME NEW i \in 1 .. Len(here), a = m - 1 + i, next[a] = here[i]
        PROVE  IsPrefix(stack[m], p) /\ IsStrictPrefix(top, p) /\ a >= m
    BY <1>2, <1>3, <1>4, <1>7, <2>2
  <2> QED BY <1>2, <1>6, <2>1, <2>2
<1>8. /\ \A i \in 1 .. k + 1 : i \in 1 .. k \/ i = k + 1
      /\ \A i \in 1 .. k : i # k + 1 /\ i < k + 1
  OBVIOUS
<1>9. IsPrefix(top, top)
  BY <1>2, PrefixOrder DEF TreeInv
<1>10. \A i \in 1 .. k : <<v[i], top>> \in R
  <2>1. /\ \A p \in places, i \in 1 .. k, b \in 1 .. Len(stack) :
               IsPrefix(stack[b], p) => <<v[i], p>> \in R
        /\ m \in 1 .. Len(stack) /\ stack[m] = top /\ top \in places
    BY <1>1, <1>2 DEF WalkedTo
  <2> QED BY <1>9, <2>1
<1>11. \A i \in 1 .. k + 1 : v[i] \in places
  BY <1>1, <1>2, <1>8 DEF WalkedTo
<1>12. ASSUME NEW i \in 1 .. k + 1, NEW j \in 1 .. k + 1, i < j PROVE <<v[i], v[j]>> \in R
  <2>1. i \in 1 .. k /\ (j \in 1 .. k \/ j = k + 1)
    BY <1>8, <1>12
  <2> QED BY <1>1, <1>10, <1>12, <2>1 DEF WalkedTo
<1>13. ASSUME NEW p \in places
       PROVE  (\E i \in 1 .. k + 1 : v[i] = p) \/ \E a \in 1 .. Len(next) : IsPrefix(next[a], p)
  <2>1. CASE \E i \in 1 .. k : v[i] = p
    BY <1>8, <2>1
  <2>2. ASSUME NEW b \in 1 .. m - 1, IsPrefix(stack[b], p)
        PROVE  \E a \in 1 .. Len(next) : IsPrefix(next[a], p)
    <3>1. b \in 1 .. Len(next) /\ next[b] = stack[b]
      BY <1>2, <1>3, <1>5
    <3> QED BY <2>2, <3>1
  <2>3. CASE IsPrefix(stack[m], p)
    <3>1. CASE p = top
      BY <1>1, <3>1
    <3>2. CASE p # top
      <4>1. PICK x \in KidsIn(places, top) : IsPrefix(x, p)
        BY <1>2, <2>3, <3>2, BelowIs
      <4>2. PICK i \in 1 .. Len(here) : here[i] = x
        BY <1>3
      <4>3. m - 1 + i \in 1 .. Len(next) /\ next[m - 1 + i] = x
        BY <1>5, <4>2
      <4> QED BY <4>1, <4>3
    <3> QED BY <3>1, <3>2
  <2>4. (\E i \in 1 .. k : v[i] = p) \/ \E a \in 1 .. m : IsPrefix(stack[a], p)
    BY <1>1 DEF WalkedTo
  <2>5. \A a \in 1 .. m : a \in 1 .. m - 1 \/ a = m
    BY <1>2
  <2> QED BY <2>1, <2>2, <2>3, <2>4, <2>5
<1>14. ASSUME NEW p \in places, NEW i \in 1 .. k + 1, NEW a \in 1 .. Len(next),
              IsPrefix(next[a], p)
       PROVE  <<v[i], p>> \in R
  <2>1. PICK b \in 1 .. m : IsPrefix(stack[b], p) /\ (b = m => IsStrictPrefix(top, p))
                            /\ (b = m <=> a >= m) /\ (b # m => b = a)
    BY <1>7, <1>14
  <2>2. CASE i \in 1 .. k
    BY <1>1, <2>1, <2>2 DEF WalkedTo
  <2>3. CASE i = k + 1
    <3>1. CASE b = m
      BY <1>1, <1>2, <2>1, <2>3, <3>1 DEF WalkOrder
    <3>2. CASE b # m
      <4>1. b < m
        BY <1>2, <3>2
      <4> QED BY <1>1, <1>2, <1>9, <2>1, <2>3, <4>1 DEF WalkedTo
    <3> QED BY <3>1, <3>2
  <2> QED BY <1>8, <2>2, <2>3
<1>15. ASSUME NEW a \in 1 .. Len(next), NEW b \in 1 .. Len(next), a < b,
              NEW x \in places, NEW y \in places, IsPrefix(next[b], x), IsPrefix(next[a], y)
       PROVE  <<x, y>> \in R
  <2>1. PICK c \in 1 .. m : IsPrefix(stack[c], x) /\ (c = m <=> b >= m) /\ (c # m => c = b)
    BY <1>7, <1>15
  <2>2. PICK d \in 1 .. m : IsPrefix(stack[d], y) /\ (d = m <=> a >= m) /\ (d # m => d = a)
    BY <1>7, <1>15
  <2>3. CASE a < m
    <3>1. d = a /\ d < c
      BY <1>2, <1>15, <2>1, <2>2, <2>3
    <3> QED BY <1>1, <2>1, <2>2, <3>1 DEF WalkedTo
  <2>4. CASE a >= m
    <3>1. PICK i \in 1 .. Len(here) : a = m - 1 + i /\ next[a] = here[i]
      <4>1. a \notin 1 .. m - 1
        BY <1>2, <2>4
      <4> QED BY <1>6, <4>1
    <3>2. PICK j \in 1 .. Len(here) : b = m - 1 + j /\ next[b] = here[j]
      <4>1. b \notin 1 .. m - 1
        BY <1>2, <1>15, <2>4
      <4> QED BY <1>6, <4>1
    <3>3. i < j
      BY <1>2, <1>15, <3>1, <3>2
    <3> QED BY <1>1, <1>2, <1>15, <3>1, <3>2, <3>3 DEF WalkOrder
  <2> QED BY <1>2, <2>3, <2>4
<1>16. v[k + 1] \in places /\ next \in Seq(places)
  BY <1>1, <1>2, <1>5
<1> QED BY <1>11, <1>12, <1>13, <1>14, <1>15, <1>16 DEF WalkedTo

\* A walk comes by all nodes, each once, in the order of R.
LEMMA WalkIs ==
  ASSUME TreeInv, NEW kids, NEW R, WalkOrder(kids, R), NEW stacks, NEW v, Walk(stacks, v, kids),
         NEW c, c = Cardinality(places)
  PROVE  /\ c \in Nat \ {0}
         /\ \A i \in 1 .. c : v[i] \in places
         /\ \A p \in places : \E i \in 1 .. c : v[i] = p
         /\ \A i, j \in 1 .. c : i < j => <<v[i], v[j]>> \in R
         /\ \A i, j \in 1 .. c : v[i] = v[j] => i = j
<1>1. c \in Nat \ {0}
  <2>1. places # {} /\ IsFiniteSet(places)
    BY DEF TreeInv
  <2>2. c \in Nat /\ c # 0
    BY <2>1, FS_CardinalityType, FS_EmptySet
  <2> QED BY <2>2
<1> DEFINE X == {k \in Nat : k <= c => WalkedTo(stacks[k], v, k, R)}
<1>2. 0 \in X
  <2>1. PICK stack : stack = stacks[0]
    OBVIOUS
  <2>2. /\ stack \in Seq(places) /\ Len(stack) = 1 /\ stack[1] = Root
    <3>1. stack = <<Root>> /\ Root \in places
      BY <2>1 DEF Walk, TreeInv
    <3>2. <<Root>> \in Seq(places) /\ Len(<<Root>>) = 1 /\ <<Root>>[1] = Root
      BY <3>1
    <3> QED BY <3>1, <3>2
  <2>3. \A p \in places : IsPrefix(stack[1], p)
    BY <2>2, PrefixOrder DEF TreeInv, Root
  <2>4. 1 .. 0 = {} /\ 1 .. Len(stack) = {1}
    BY <2>2
  <2>5. WalkedTo(stack, v, 0, R)
    BY <2>2, <2>3, <2>4 DEF WalkedTo
  <2> QED BY <2>1, <2>5
<1>3. ASSUME NEW k \in Nat, k \in X PROVE k + 1 \in X
  <2> SUFFICES ASSUME k + 1 <= c PROVE WalkedTo(stacks[k + 1], v, k + 1, R)
    OBVIOUS
  <2>1. PICK stack, next : stack = stacks[k] /\ next = stacks[k + 1]
    OBVIOUS
  <2>2. k + 1 \in 1 .. c /\ k + 1 - 1 = k /\ k < c
    BY <1>1
  <2>3. /\ v[k + 1] = Last(stack)
        /\ v[k + 1] \in places => next = Front(stack) \o kids[v[k + 1]]
    <3>1. PICK j : j = k + 1
      OBVIOUS
    <3>2. j \in 1 .. Cardinality(places) /\ j - 1 = k
      BY <2>2, <3>1
    <3>3. /\ v[j] = Last(stacks[j - 1])
          /\ v[j] \in places => stacks[j] = Front(stacks[j - 1]) \o kids[v[j]]
      BY <3>2 DEF Walk
    <3> QED BY <2>1, <3>1, <3>2, <3>3
  <2>4. WalkedTo(stack, v, k, R)
    BY <1>1, <1>3, <2>1
  <2>5. Len(stack) \in Nat /\ Len(stack) > 0
    BY <2>2, <2>4, WalkNotOver
  <2>6. v[k + 1] \in places
    <3>1. stack \in Seq(places)
      BY <2>4 DEF WalkedTo
    <3> QED BY <2>3, <2>5, <3>1, ElementOfSeq DEF Last
  <2>7. Once(kids[v[k + 1]], KidsIn(places, v[k + 1]))
    BY <2>6 DEF Walk
  <2>8. WalkedTo(next, v, k + 1, R)
    BY <2>3, <2>4, <2>5, <2>6, <2>7, WalkStep
  <2> QED BY <2>1, <2>8
<1>4. \A k \in Nat : k \in X
  <2> HIDE DEF X
  <2> QED BY <1>2, <1>3, SetInduction
<1>5. WalkedTo(stacks[c], v, c, R)
  BY <1>1, <1>4
<1>6. /\ \A i \in 1 .. c : v[i] \in places
      /\ \A i, j \in 1 .. c : i < j => <<v[i], v[j]>> \in R
  BY <1>5 DEF WalkedTo
<1>7. \A i, j \in 1 .. c : v[i] = v[j] => i = j
  <2> SUFFICES ASSUME NEW i \in 1 .. c, NEW j \in 1 .. c, i # j, v[i] = v[j] PROVE FALSE
    OBVIOUS
  <2>1. i < j \/ j < i
    BY <1>1
  <2>2. <<v[i], v[i]>> \in R /\ v[i] \in places
    BY <1>6, <2>1
  <2> QED BY <2>2 DEF WalkOrder
<1> DEFINE f == [i \in 1 .. c |-> v[i]]
<1>8. f \in Injection(1 .. c, places)
  <2>1. f \in [1 .. c -> places]
    BY <1>6
  <2>2. \A i, j \in 1 .. c : f[i] = f[j] => i = j
    BY <1>7
  <2> HIDE DEF f
  <2> QED BY <2>1, <2>2 DEF Injection, IsInjective
<1>9. f \in Surjection(1 .. c, places)
  <2>1. IsFiniteSet(1 .. c) /\ Cardinality(1 .. c) = c
    <3>1. 1 \in Int /\ c \in Int
      BY <1>1
    <3>2. IsFiniteSet(1 .. c) /\ Cardinality(1 .. c) = IF 1 > c THEN 0 ELSE c - 1 + 1
      BY <3>1, FS_Interval
    <3>3. (IF 1 > c THEN 0 ELSE c - 1 + 1) = c
      BY <1>1
    <3> QED BY <3>2, <3>3
  <2> HIDE DEF f
  <2>2. IsFiniteSet(places)
    BY DEF TreeInv
  <2> QED BY <1>8, <2>1, <2>2, FS_Injection
<1>10. \A p \in places : \E i \in 1 .. c : v[i] = p
  <2>1. \A p \in places : \E i \in 1 .. c : f[i] = p
    <3> HIDE DEF f
    <3> QED BY <1>9 DEF Surjection
  <2> QED BY <2>1
<1> QED BY <1>1, <1>6, <1>7, <1>10

-----------------------------------------------------------------------------
(* The sequence of the pixel tree *)

\* What is below a child is sooner than what is below a child further to the
\* right.
LEMMA SoonerBelow ==
  ASSUME NEW n \in PlaceSet, NEW a \in Alternatives, NEW b \in Alternatives, a < b,
         NEW x \in PlaceSet, NEW y \in PlaceSet, IsPrefix(Append(n, a), x), IsPrefix(Append(n, b), y)
  PROVE  Sooner(x, y)
<1>1. PICK p, q, l : p = Append(n, a) /\ q = Append(n, b) /\ l = Len(n) + 1
  OBVIOUS
<1>2. /\ p \in PlaceSet /\ q \in PlaceSet /\ Len(p) = l /\ Len(q) = l /\ Len(n) \in Nat
      /\ p[l] = a /\ q[l] = b
      /\ \A i \in 1 .. Len(n) : p[i] = n[i] /\ q[i] = n[i]
  <2>1. Len(n) \in Nat
    BY LenProperties DEF PlaceSet
  <2>2. \A i \in 1 .. Len(n) : p[i] = n[i] /\ q[i] = n[i]
    BY <1>1, <2>1, AppendProperties DEF PlaceSet
  <2> QED BY <1>1, <2>1, <2>2, AppendIs
<1>3. /\ Len(x) \in Nat /\ l <= Len(x) /\ \A i \in 1 .. l : x[i] = p[i]
      /\ Len(y) \in Nat /\ l <= Len(y) /\ \A i \in 1 .. l : y[i] = q[i]
  <2>1. IsPrefix(p, x) /\ IsPrefix(q, y)
    BY <1>1
  <2> QED BY <1>2, <2>1, PrefixIs
<1>4. l \in 1 .. Len(x) /\ l \in 1 .. Len(y) /\ l \in 1 .. l
  BY <1>1, <1>2, <1>3
<1>5. DOMAIN x = 1 .. Len(x) /\ DOMAIN y = 1 .. Len(y)
  BY LenProperties DEF PlaceSet
<1>6. x[l] = a /\ y[l] = b
  BY <1>2, <1>3, <1>4
<1>7. \A j \in 1 .. l - 1 : x[j] = y[j]
  BY <1>1, <1>2, <1>3
<1> QED BY <1>4, <1>5, <1>6, <1>7 DEF Sooner

LEMMA NotSoonerThanItself ==
  ASSUME NEW x \in PlaceSet
  PROVE  ~Sooner(x, x)
<1>1. \A i \in DOMAIN x : x[i] \in Nat
  BY ElementOfSeq, LenProperties DEF PlaceSet, Alternatives
<1> QED BY <1>1 DEF Sooner, IsStrictPrefix

PixelKids(n) == [i \in 1 .. KidCount(n) |-> Kid(n, KidCount(n) + 1 - i)]

LEMMA PixelKidsOnce ==
  ASSUME TreeInv, NEW n \in places
  PROVE  Once(PixelKids(n), KidsIn(places, n)) /\ Len(PixelKids(n)) = KidCount(n)
<1>1. PICK c, s : c = KidCount(n) /\ s = PixelKids(n)
  OBVIOUS
<1>2. /\ c \in Nat /\ n \in PlaceSet
      /\ KidsIn(places, n) = {Append(n, a) : a \in 1 .. c}
      /\ \A a \in 1 .. c : a \in Alternatives
  BY <1>1, KidsAre DEF Has, Kid, TreeInv, Alternatives
<1>3. s = [i \in 1 .. c |-> Append(n, c + 1 - i)]
  BY <1>1 DEF PixelKids, Kid
<1>4. \A i \in 1 .. c : c + 1 - i \in 1 .. c /\ s[i] = Append(n, c + 1 - i)
  BY <1>2, <1>3
<1>5. \A i \in 1 .. c : s[i] \in KidsIn(places, n)
  BY <1>2, <1>4
<1>6. s \in Seq(KidsIn(places, n)) /\ Len(s) = c
  BY <1>2, <1>3, <1>5
<1>7. ASSUME NEW x \in KidsIn(places, n) PROVE \E i \in 1 .. Len(s) : s[i] = x
  <2>1. PICK a \in 1 .. c : x = Append(n, a)
    BY <1>2
  <2>2. c + 1 - a \in 1 .. c /\ c + 1 - (c + 1 - a) = a
    BY <1>2
  <2> QED BY <1>4, <1>6, <2>1, <2>2
<1>8. ASSUME NEW i \in 1 .. Len(s), NEW j \in 1 .. Len(s), s[i] = s[j] PROVE i = j
  <2>1. c + 1 - i = c + 1 - j
    <3>1. Append(n, c + 1 - i) = Append(n, c + 1 - j)
      BY <1>4, <1>6, <1>8
    <3>2. c + 1 - i \in Alternatives /\ c + 1 - j \in Alternatives
      BY <1>2, <1>4, <1>6
    <3> QED BY <1>2, <3>1, <3>2, AppendSame
  <2> QED BY <1>2, <1>6, <2>1
<1> QED BY <1>1, <1>6, <1>7, <1>8 DEF Once

Soon == {r \in places \X places : Sooner(r[1], r[2])}

LEMMA PixelOrder ==
  ASSUME TreeInv
  PROVE  WalkOrder([n \in places |-> PixelKids(n)], Soon)
<1>1. \A x, y \in places : <<x, y>> \in Soon <=> Sooner(x, y)
  BY DEF Soon
<1>2. ASSUME NEW n \in places, NEW i \in 1 .. Len(PixelKids(n)), NEW j \in 1 .. Len(PixelKids(n)),
             i < j, NEW x \in places, NEW y \in places,
             IsPrefix(PixelKids(n)[j], x), IsPrefix(PixelKids(n)[i], y)
      PROVE  Sooner(x, y)
  <2>1. PICK c : c = KidCount(n)
    OBVIOUS
  <2>2. c \in Nat /\ n \in PlaceSet /\ i \in 1 .. c /\ j \in 1 .. c
    BY <2>1, KidsAre, PixelKidsOnce DEF Has, TreeInv
  <2>3. PixelKids(n)[i] = Append(n, c + 1 - i) /\ PixelKids(n)[j] = Append(n, c + 1 - j)
    BY <2>1, <2>2 DEF PixelKids, Kid
  <2>4. PICK a, b : a = c + 1 - j /\ b = c + 1 - i
    OBVIOUS
  <2>5. a \in Alternatives /\ b \in Alternatives /\ a < b
    BY <1>2, <2>2, <2>4 DEF Alternatives
  <2>6. IsPrefix(Append(n, a), x) /\ IsPrefix(Append(n, b), y)
    BY <1>2, <2>3, <2>4
  <2>7. x \in PlaceSet /\ y \in PlaceSet
    BY DEF TreeInv
  <2> QED BY <2>2, <2>5, <2>6, <2>7, SoonerBelow
<1>3. \A x \in places : ~Sooner(x, x)
  BY NotSoonerThanItself DEF TreeInv
<1>4. \A x, y \in places : IsStrictPrefix(x, y) => Sooner(x, y)
  BY DEF Sooner
<1> QED BY <1>1, <1>2, <1>3, <1>4 DEF WalkOrder

PixelStep(before) ==
  LET top == Last(before.stack)
      kids == [i \in 1 .. KidCount(top) |-> Kid(top, KidCount(top) + 1 - i)]
  IN [seq |-> Append(before.seq, [nid |-> top, depth |-> Len(top) + 1]),
      stack |-> Front(before.stack) \o kids]

PixelWalk(c, f) ==
  f = [k \in 0 .. c |-> IF k = 0 THEN [seq |-> <<>>, stack |-> <<Root>>] ELSE PixelStep(f[k - 1])]

\* The function PixelTree recurses with exists.
LEMMA PixelWalkExists ==
  ASSUME NEW c \in Nat
  PROVE  \E f : PixelWalk(c, f)
<1> DEFINE none == [seq |-> <<>>, stack |-> <<Root>>]
           S == {i \in Nat : \E f : PixelWalk(i, f)}
<1>1. 0 \in S
  <2> DEFINE f == [i \in 0 .. 0 |-> none]
  <2>1. f = [i \in 0 .. 0 |-> IF i = 0 THEN none ELSE PixelStep(f[i - 1])]
    OBVIOUS
  <2>2. PixelWalk(0, f)
    <3> HIDE DEF f
    <3> QED BY <2>1 DEF PixelWalk
  <2> QED BY <2>2
<1>2. ASSUME NEW i \in Nat, i \in S PROVE i + 1 \in S
  <2>1. PICK f : PixelWalk(i, f)
    BY <1>2
  <2> DEFINE new == PixelStep(f[i])
             g == [j \in 0 .. i + 1 |-> IF j = i + 1 THEN new ELSE f[j]]
  <2> HIDE DEF none
  <2>2. \A j \in 0 .. i : f[j] = IF j = 0 THEN none ELSE PixelStep(f[j - 1])
    BY <2>1 DEF PixelWalk, none
  <2>3. \A j \in 0 .. i : g[j] = f[j]
    OBVIOUS
  <2>4. \A j \in 0 .. i + 1 : g[j] = IF j = 0 THEN none ELSE PixelStep(g[j - 1])
    <3> SUFFICES ASSUME NEW j \in 0 .. i + 1
                 PROVE  g[j] = IF j = 0 THEN none ELSE PixelStep(g[j - 1])
      OBVIOUS
    <3>1. CASE j = i + 1
      <4>1. g[j] = new /\ j - 1 = i /\ g[i] = f[i] /\ j # 0
        BY <2>3, <3>1
      <4> QED BY <3>1, <4>1
    <3>2. CASE j # i + 1
      <4>1. j \in 0 .. i /\ g[j] = f[j] /\ (j # 0 => j - 1 \in 0 .. i)
        BY <2>3, <3>2
      <4>2. j # 0 => g[j - 1] = f[j - 1]
        BY <2>3, <4>1
      <4> HIDE DEF g
      <4> QED BY <2>2, <4>1, <4>2
    <3> QED BY <3>1, <3>2
  <2>5. g = [j \in 0 .. i + 1 |-> IF j = 0 THEN none ELSE PixelStep(g[j - 1])]
    <3>1. g = [j \in 0 .. i + 1 |-> g[j]]
      OBVIOUS
    <3> HIDE DEF g
    <3> QED BY <2>4, <3>1
  <2>6. PixelWalk(i + 1, g)
    <3> HIDE DEF g
    <3> QED BY <2>5 DEF PixelWalk, none
  <2> QED BY <2>6
<1>3. \A i \in Nat : i \in S
  <2> HIDE DEF S
  <2> QED BY <1>1, <1>2, SetInduction
<1> QED BY <1>3

PixelWalkOf == CHOOSE f : PixelWalk(Cardinality(places), f)

LEMMA PixelTreeIs ==
  ASSUME NEW c \in Nat, c = Cardinality(places)
  PROVE  /\ PixelTree = PixelWalkOf[c].seq
         /\ PixelWalkOf[0].seq = <<>> /\ PixelWalkOf[0].stack = <<Root>>
         /\ \A k \in 1 .. c : PixelWalkOf[k] = PixelStep(PixelWalkOf[k - 1])
<1>1. PixelWalk(c, PixelWalkOf)
  BY PixelWalkExists DEF PixelWalkOf
<1>2. PixelTree = PixelWalkOf[c].seq
  BY DEF PixelTree, PixelWalkOf, PixelWalk, PixelStep
<1>3. \A k \in 0 .. c : PixelWalkOf[k] = IF k = 0 THEN [seq |-> <<>>, stack |-> <<Root>>]
                                         ELSE PixelStep(PixelWalkOf[k - 1])
  BY <1>1 DEF PixelWalk
<1> QED BY <1>2, <1>3

Item(n) == [nid |-> n, depth |-> Len(n) + 1]

\* s holds every node once, the sooner ones first.
PixelsOf(s) ==
  /\ s \in Seq({Item(n) : n \in places}) /\ Len(s) = Cardinality(places)
  /\ Cardinality(places) \in Nat \ {0}
  /\ \A i \in 1 .. Len(s) : s[i].nid \in places /\ s[i] = Item(s[i].nid)
  /\ \A n \in places : \E i \in 1 .. Len(s) : s[i].nid = n
  /\ \A i, j \in 1 .. Len(s) : i < j => Sooner(s[i].nid, s[j].nid)

LEMMA PixelTreeOrdered ==
  ASSUME TreeInv
  PROVE  PixelsOf(PixelTree)
<1>1. PICK c : c = Cardinality(places)
  OBVIOUS
<1>2. c \in Nat
  BY <1>1, FS_CardinalityType DEF TreeInv
<1>3. PICK f : f = PixelWalkOf
  OBVIOUS
<1>4. /\ PixelTree = f[c].seq /\ f[0].seq = <<>> /\ f[0].stack = <<Root>>
      /\ \A k \in 1 .. c : f[k] = PixelStep(f[k - 1])
  BY <1>1, <1>2, <1>3, PixelTreeIs
<1> DEFINE stacks == [k \in 0 .. c |-> f[k].stack]
           v == [k \in 1 .. c |-> Last(f[k - 1].stack)]
           kids == [n \in places |-> PixelKids(n)]
<1>5. \A k \in 1 .. c : /\ f[k].seq = Append(f[k - 1].seq, Item(v[k]))
                        /\ f[k].stack = Front(f[k - 1].stack) \o PixelKids(v[k])
  <2> SUFFICES ASSUME NEW k \in 1 .. c
               PROVE  /\ f[k].seq = Append(f[k - 1].seq, Item(v[k]))
                      /\ f[k].stack = Front(f[k - 1].stack) \o PixelKids(v[k])
    OBVIOUS
  <2>1. v[k] = Last(f[k - 1].stack)
    OBVIOUS
  <2> HIDE DEF v
  <2>2. f[k] = PixelStep(f[k - 1])
    BY <1>4
  <2>3. PixelStep(f[k - 1]) = [seq |-> Append(f[k - 1].seq, Item(v[k])),
                               stack |-> Front(f[k - 1].stack) \o PixelKids(v[k])]
    BY <2>1 DEF PixelStep, Item, PixelKids
  <2> QED BY <2>2, <2>3
<1>6. WalkOrder(kids, Soon)
  BY PixelOrder
<1>7. \A n \in places : kids[n] = PixelKids(n) /\ Once(kids[n], KidsIn(places, n))
  BY PixelKidsOnce
<1> HIDE DEF kids
<1>8. Walk(stacks, v, kids)
  <2>1. stacks[0] = <<Root>>
    BY <1>2, <1>4
  <2>2. ASSUME NEW k \in 1 .. c
        PROVE  /\ v[k] = Last(stacks[k - 1])
               /\ v[k] \in places => stacks[k] = Front(stacks[k - 1]) \o kids[v[k]]
    <3>1. /\ v[k] = Last(f[k - 1].stack) /\ stacks[k - 1] = f[k - 1].stack
          /\ stacks[k] = f[k].stack
      BY <1>2
    <3> HIDE DEF stacks, v
    <3>2. f[k].stack = Front(f[k - 1].stack) \o PixelKids(v[k])
      BY <1>5
    <3> QED BY <1>7, <3>1, <3>2
  <2> HIDE DEF stacks, v
  <2> QED BY <1>1, <1>7, <2>1, <2>2 DEF Walk
<1> HIDE DEF stacks, v
<1>9. /\ c \in Nat \ {0}
      /\ \A i \in 1 .. c : v[i] \in places
      /\ \A p \in places : \E i \in 1 .. c : v[i] = p
      /\ \A i, j \in 1 .. c : i < j => <<v[i], v[j]>> \in Soon
  BY <1>1, <1>6, <1>8, WalkIs
<1> DEFINE Items == {Item(n) : n \in places}
           Upto(k) == /\ f[k].seq \in Seq(Items) /\ Len(f[k].seq) = k
                      /\ \A i \in 1 .. k : f[k].seq[i] = Item(v[i])
           X == {k \in Nat : k <= c => Upto(k)}
<1>10. 0 \in X
  <2>1. f[0].seq = <<>> /\ 1 .. 0 = {}
    BY <1>4
  <2> QED BY <2>1, EmptySeq
<1>11. ASSUME NEW k \in Nat, k \in X PROVE k + 1 \in X
  <2> SUFFICES ASSUME k + 1 <= c PROVE Upto(k + 1)
    OBVIOUS
  <2>1. k + 1 \in 1 .. c /\ k + 1 - 1 = k /\ k <= c
    BY <1>2
  <2>2. PICK s, t, e : s = f[k].seq /\ t = f[k + 1].seq /\ e = Item(v[k + 1])
    OBVIOUS
  <2>3. e \in Items
    BY <1>9, <2>1, <2>2
  <2>4. s \in Seq(Items) /\ Len(s) = k /\ \A i \in 1 .. k : s[i] = Item(v[i])
    BY <1>11, <2>1, <2>2
  <2>5. t = Append(s, e)
    <3>1. PICK j : j = k + 1
      OBVIOUS
    <3>2. f[j].seq = Append(f[j - 1].seq, Item(v[j])) /\ j - 1 = k
      BY <1>5, <2>1, <3>1
    <3> QED BY <2>2, <3>1, <3>2
  <2> HIDE DEF Items
  <2>6. /\ t \in Seq(Items) /\ Len(t) = k + 1 /\ t[k + 1] = e
        /\ \A i \in 1 .. k : t[i] = s[i]
    BY <2>3, <2>4, <2>5, AppendProperties
  <2>7. \A i \in 1 .. k + 1 : t[i] = Item(v[i])
    <3>1. \A i \in 1 .. k + 1 : i \in 1 .. k \/ i = k + 1
      OBVIOUS
    <3> QED BY <2>2, <2>4, <2>6, <3>1
  <2> QED BY <2>2, <2>6, <2>7
<1>12. \A k \in Nat : k \in X
  <2> HIDE DEF X
  <2> QED BY <1>10, <1>11, SetInduction
<1>13. Upto(c)
  <2> HIDE DEF Upto
  <2>1. c \in X /\ c <= c
    BY <1>2, <1>12
  <2> QED BY <2>1
<1>14. PICK s : s = PixelTree
  OBVIOUS
<1>15. s \in Seq(Items) /\ Len(s) = c /\ \A i \in 1 .. c : s[i] = Item(v[i]) /\ s[i].nid = v[i]
  <2>1. s \in Seq(Items) /\ Len(s) = c /\ \A i \in 1 .. c : s[i] = Item(v[i])
    BY <1>4, <1>13, <1>14
  <2> QED BY <2>1 DEF Item
<1>16. \A i, j \in 1 .. c : i < j => Sooner(v[i], v[j])
  BY <1>9 DEF Soon
<1>17. \A i \in 1 .. c : s[i].nid \in places /\ s[i] = Item(s[i].nid)
  BY <1>9, <1>15
<1>18. \A n \in places : \E i \in 1 .. c : s[i].nid = n
  BY <1>9, <1>15
<1>19. \A i, j \in 1 .. c : i < j => Sooner(s[i].nid, s[j].nid)
  BY <1>15, <1>16
<1>20. Len(s) = c /\ s \in Seq(Items)
  BY <1>15
<1> QED BY <1>1, <1>9, <1>14, <1>17, <1>18, <1>19, <1>20 DEF PixelsOf

-----------------------------------------------------------------------------
(* Columns *)

LEMMA Quotient ==
  ASSUME NEW a \in Nat, NEW b \in Nat \ {0}, NEW q, q = a \div b
  PROVE  q \in Nat /\ q * b <= a /\ a < (q + 1) * b
OBVIOUS

LEMMA Products ==
  ASSUME NEW a \in Nat, NEW b \in Nat, NEW c \in Nat
  PROVE  /\ a * c \in Nat /\ b * c \in Nat
         /\ a <= b => a * c <= b * c
         /\ c # 0 /\ a * c < b * c => a < b
         /\ c # 0 => a <= a * c
OBVIOUS

\* As many columns of b as hold a.
LEMMA ColumnsOf ==
  ASSUME NEW a \in Nat, NEW b \in Nat \ {0}, NEW q, q = CeilDiv(a, b)
  PROVE  /\ q \in Nat /\ a <= q * b /\ (q - 1) * b < a /\ q <= a
         /\ a # 0 => q # 0
<1>1. q \in Nat /\ a <= q * b /\ (q - 1) * b < a
  BY Quotient DEF CeilDiv
<1>2. a # 0 => q # 0
  BY <1>1
<1>3. q <= a
  <2>1. CASE q = 0
    BY <2>1
  <2>2. CASE q # 0
    <3>1. q - 1 \in Nat
      BY <1>1, <2>2
    <3>2. q - 1 <= (q - 1) * b /\ (q - 1) * b \in Nat
      BY <3>1, Products
    <3> QED BY <1>1, <3>2
  <2> QED BY <2>1, <2>2
<1> QED BY <1>1, <1>2, <1>3

-----------------------------------------------------------------------------
(* The pixel tree is used *)

PixelFields == {"shown", "seq", "compression", "pixelSize", "viewport", "scroll", "max",
                "selected", "reducible"}

PixelSettings(p, s) ==
  /\ DOMAIN p = PixelFields /\ p.shown
  /\ PixelsOf(p.seq)
  /\ p.compression \in Nat \ {0} /\ \E c \in {1, 2}, k \in 0 .. s : p.compression = c + 10 * k
  /\ p.pixelSize \in 1 .. 7 /\ p.viewport \in Viewports
  /\ p.max \in Nat /\ p.scroll \in 0 .. p.max
  /\ p.selected \subseteq 0 .. Len(p.seq) - 1

\* The scroll bar has its range and the page begins within the sequence.
InRange(p) ==
  /\ p.scroll * p.compression <= Len(p.seq)
  /\ p.max = ScrollMax(p, TotalSlices(p))

PixelInv ==
  \/ pt = NotShown /\ fault = "none"
  \/ /\ PixelSettings(pt, steps) /\ (fault = "none" => InRange(pt))
     /\ fault \in {"none", "draw", "select"}

LEMMA PageIs ==
  ASSUME NEW p, NEW s, PixelSettings(p, s)
  PROVE  /\ PageWidth(p) \in Nat \ {0}
         /\ Len(p.seq) \in Nat \ {0} /\ DOMAIN p.seq = 1 .. Len(p.seq)
         /\ TotalSlices(p) \in 1 .. Len(p.seq)
         /\ Len(p.seq) <= TotalSlices(p) * p.compression
         /\ (TotalSlices(p) - 1) * p.compression < Len(p.seq)
<1>1. /\ p.viewport \in Nat \ {0} /\ p.pixelSize \in Nat \ {0}
      /\ p.compression \in Nat \ {0}
  <2>1. p.compression \in Nat \ {0} /\ p.pixelSize \in 1 .. 7 /\ p.viewport \in Viewports
    BY DEF PixelSettings
  <2>2. Viewports \subseteq Nat \ {0}
    BY PixelBounds
  <2>3. p.viewport \in Nat \ {0}
    BY <2>1, <2>2
  <2>4. p.pixelSize \in Nat \ {0}
    BY <2>1
  <2> QED BY <2>1, <2>3, <2>4
<1>2. PageWidth(p) \in Nat \ {0}
  BY <1>1, ColumnsOf DEF PageWidth
<1>3. Len(p.seq) \in Nat \ {0} /\ DOMAIN p.seq = 1 .. Len(p.seq)
  <2>1. p.seq \in Seq({Item(n) : n \in places}) /\ Len(p.seq) \in Nat \ {0}
    BY DEF PixelSettings, PixelsOf
  <2> QED BY <2>1, LenProperties
<1>4. PICK a, b, q : a = Len(p.seq) /\ b = p.compression /\ q = TotalSlices(p)
  OBVIOUS
<1>5. q = CeilDiv(a, b) /\ a \in Nat \ {0} /\ b \in Nat \ {0}
  BY <1>1, <1>3, <1>4 DEF TotalSlices
<1>6. q \in Nat /\ a <= q * b /\ (q - 1) * b < a /\ q <= a /\ q # 0
  BY <1>5, ColumnsOf
<1>7. q \in 1 .. a
  BY <1>5, <1>6
<1> QED BY <1>2, <1>3, <1>4, <1>6, <1>7

LEMMA RunsOutsideIs ==
  ASSUME NEW p, NEW s, PixelSettings(p, s)
  PROVE  /\ RunsOutside(p, p.scroll) <=> ~(p.scroll * p.compression <= Len(p.seq))
         /\ p.scroll \in Nat /\ p.scroll * p.compression \in Nat
<1>1. p.scroll \in Nat /\ p.compression \in Nat /\ Len(p.seq) \in Nat
  BY PageIs DEF PixelSettings
<1>2. p.scroll * p.compression \in Nat
  BY <1>1, Products
<1> QED BY <1>1, <1>2 DEF RunsOutside

\* The scroll bar is moved into its range.
LEMMA ClampedIs ==
  ASSUME NEW p, NEW s, PixelSettings(p, s), ~RunsOutside(p, p.scroll),
         NEW q, q = Clamped(p, TotalSlices(p))
  PROVE  PixelSettings(q, s) /\ InRange(q)
<1>1. PICK m, x : m = ScrollMax(p, TotalSlices(p)) /\ x = Smaller(p.scroll, m)
  OBVIOUS
<1>2. /\ m \in Nat /\ x \in 0 .. m /\ x \in Nat /\ x <= p.scroll /\ p.scroll \in Nat
  <2>1. TotalSlices(p) \in Nat /\ PageWidth(p) \in Nat /\ p.scroll \in Nat
    <3>1. p.max \in Nat /\ p.scroll \in 0 .. p.max
      BY DEF PixelSettings
    <3>2. TotalSlices(p) \in 1 .. Len(p.seq) /\ PageWidth(p) \in Nat \ {0} /\ Len(p.seq) \in Nat
      BY PageIs
    <3> QED BY <3>1, <3>2
  <2> QED BY <1>1, <2>1 DEF ScrollMax, Smaller, Larger
<1>3. /\ DOMAIN q = PixelFields /\ q.shown = p.shown /\ q.seq = p.seq /\ q.compression = p.compression
      /\ q.pixelSize = p.pixelSize /\ q.viewport = p.viewport /\ q.selected = p.selected
      /\ q.max = m /\ q.scroll = x
  BY <1>1 DEF Clamped, PixelSettings, PixelFields
<1>4. PixelSettings(q, s)
  BY <1>2, <1>3 DEF PixelSettings
<1>5. ScrollMax(q, TotalSlices(q)) = m
  BY <1>1, <1>3 DEF ScrollMax, TotalSlices, PageWidth
<1>6. x * p.compression <= Len(p.seq)
  <2>1. p.compression \in Nat /\ Len(p.seq) \in Nat
    BY PageIs DEF PixelSettings
  <2>2. x * p.compression <= p.scroll * p.compression /\ x * p.compression \in Nat
        /\ p.scroll * p.compression \in Nat
    BY <1>2, <2>1, Products
  <2>3. p.scroll * p.compression <= Len(p.seq)
    BY RunsOutsideIs
  <2> QED BY <2>1, <2>2, <2>3
<1> QED BY <1>3, <1>4, <1>5, <1>6 DEF InRange

\* It is drawn from p on, in range or where drawing begins outside.
DrawnFrom(p) ==
  /\ PixelSettings(p, steps') /\ RedrawPixels(p) /\ UNCHANGED places
  /\ RunsOutside(p, p.scroll) =>
       pt.shown /\ ((p.compression > pt.compression /\ pt.scroll > 0) \/ PageWidth(p) = 1)

LEMMA DrawnFromIs ==
  ASSUME NEW p, DrawnFrom(p), fault = "none"
  PROVE  /\ PixelInv'
         /\ fault' = "draw" =>
              pt.shown /\ ((pt'.compression > pt.compression /\ pt.scroll > 0) \/ PageWidth(pt') = 1)
<1>1. PixelSettings(p, steps') /\ RedrawPixels(p) /\ places' = places
  BY DEF DrawnFrom
<1>2. ASSUME NEW q, PixelSettings(q, steps'), pt' = q
      PROVE  PixelSettings(pt, steps)'
  <2>1. PixelsOf(q.seq)'
    BY <1>1, <1>2 DEF PixelSettings, PixelsOf
  <2> QED BY <1>2, <2>1 DEF PixelSettings
<1>3. CASE RunsOutside(p, p.scroll)
  <2>1. pt' = p /\ fault' = "draw"
    BY <1>1, <1>3 DEF RedrawPixels
  <2>2. PixelInv'
    BY <1>1, <1>2, <2>1 DEF PixelInv
  <2> QED BY <1>3, <2>1, <2>2 DEF DrawnFrom
<1>4. CASE ~RunsOutside(p, p.scroll)
  <2>1. PICK q : q = Clamped(p, TotalSlices(p))
    OBVIOUS
  <2>2. pt' = q /\ fault' = "none"
    BY <1>1, <1>4, <2>1 DEF RedrawPixels
  <2>3. PixelSettings(q, steps') /\ InRange(q)
    BY <1>1, <1>4, <2>1, ClampedIs
  <2>4. InRange(pt)'
    BY <2>2, <2>3 DEF InRange, ScrollMax, TotalSlices, PageWidth
  <2> QED BY <1>2, <2>2, <2>3, <2>4 DEF PixelInv
<1> QED BY <1>3, <1>4

UsedFrom(p) ==
  /\ PixelSettings(p, steps + 1)
  /\ RunsOutside(p, p.scroll) =>
       (p.compression > pt.compression /\ pt.scroll > 0) \/ PageWidth(p) = 1

LEMMA PixelsUsed ==
  ASSUME PixelInv, steps \in Nat, UsePixels
  PROVE  /\ fault = "none" /\ pt.shown /\ steps' = steps + 1 /\ UNCHANGED places
         /\ PixelSettings(pt, steps) /\ InRange(pt) /\ ~RunsOutside(pt, pt.scroll)
         /\ \A p : UsedFrom(p) /\ RedrawPixels(p) => DrawnFrom(p)
<1>1. fault = "none" /\ pt.shown /\ steps' = steps + 1 /\ UNCHANGED places
  BY DEF UsePixels, Step
<1>2. PixelSettings(pt, steps) /\ InRange(pt)
  BY <1>1 DEF PixelInv, NotShown
<1>3. ~RunsOutside(pt, pt.scroll)
  BY <1>2, RunsOutsideIs DEF InRange
<1>4. \A p : UsedFrom(p) /\ RedrawPixels(p) => DrawnFrom(p)
  BY <1>1 DEF UsedFrom, DrawnFrom
<1> QED BY <1>1, <1>2, <1>3, <1>4

\* A setting other than the compression and the scroll bar leaves it in range.
LEMMA StaysInside ==
  ASSUME steps \in Nat, PixelSettings(pt, steps), ~RunsOutside(pt, pt.scroll),
         NEW p, DOMAIN p = PixelFields, p.shown, p.seq = pt.seq, p.compression = pt.compression,
         p.max = pt.max, p.scroll = pt.scroll, p.pixelSize \in 1 .. 7, p.viewport \in Viewports,
         p.selected \subseteq 0 .. Len(p.seq) - 1
  PROVE  UsedFrom(p)
<1>1. \A k \in 0 .. steps : k \in 0 .. steps + 1
  OBVIOUS
<1>2. PixelSettings(p, steps + 1)
  BY <1>1 DEF PixelSettings
<1>3. ~RunsOutside(p, p.scroll)
  BY DEF RunsOutside
<1> QED BY <1>2, <1>3 DEF UsedFrom

LEMMA CompressionAdded ==
  ASSUME PixelInv, steps \in Nat, AddCompression
  PROVE  \E p : UsedFrom(p) /\ RedrawPixels(p)
<1>1. UsePixels /\ RedrawPixels([pt EXCEPT !.compression = @ + 10, !.reducible = TRUE])
  BY DEF AddCompression
<1>2. PICK p : p = [pt EXCEPT !.compression = @ + 10, !.reducible = TRUE]
  OBVIOUS
<1>3. PixelSettings(pt, steps) /\ InRange(pt) /\ ~RunsOutside(pt, pt.scroll)
  BY <1>1, PixelsUsed
<1>4. /\ DOMAIN p = PixelFields /\ p.shown = pt.shown /\ p.seq = pt.seq
      /\ p.compression = pt.compression + 10
      /\ p.max = pt.max /\ p.scroll = pt.scroll /\ p.pixelSize = pt.pixelSize
      /\ p.viewport = pt.viewport /\ p.selected = pt.selected
  BY <1>2, <1>3 DEF PixelSettings, PixelFields
<1>5. PICK c \in {1, 2}, k \in 0 .. steps : pt.compression = c + 10 * k
  BY <1>3 DEF PixelSettings
<1>6. k + 1 \in 0 .. steps + 1 /\ p.compression = c + 10 * (k + 1) /\ p.compression \in Nat \ {0}
  BY <1>4, <1>5
<1>7. PixelSettings(p, steps + 1)
  BY <1>3, <1>4, <1>6 DEF PixelSettings
<1>8. RunsOutside(p, p.scroll) => p.compression > pt.compression /\ pt.scroll > 0
  <2>1. /\ RunsOutside(p, p.scroll) <=> ~(p.scroll * p.compression <= Len(p.seq))
        /\ p.scroll \in Nat /\ Len(p.seq) \in Nat
    BY <1>7, RunsOutsideIs, PageIs
  <2>2. p.scroll = 0 => p.scroll * p.compression = 0
    BY <1>6
  <2>3. p.scroll # 0 => pt.scroll > 0
    BY <1>4, <2>1
  <2> QED BY <1>4, <1>5, <2>1, <2>2, <2>3
<1> QED BY <1>1, <1>2, <1>7, <1>8 DEF UsedFrom

LEMMA CompressionReduced ==
  ASSUME PixelInv, steps \in Nat, ReduceCompression
  PROVE  \E p : UsedFrom(p) /\ RedrawPixels(p)
<1>1. UsePixels /\ \E e : e = Larger(1, pt.compression - 10)
                          /\ RedrawPixels([pt EXCEPT !.compression = e, !.reducible = e # 1])
  BY DEF ReduceCompression
<1>2. PICK e : e = Larger(1, pt.compression - 10)
               /\ RedrawPixels([pt EXCEPT !.compression = e, !.reducible = e # 1])
  BY <1>1
<1>3. PICK p : p = [pt EXCEPT !.compression = e, !.reducible = e # 1]
  OBVIOUS
<1>4. PixelSettings(pt, steps) /\ InRange(pt) /\ ~RunsOutside(pt, pt.scroll)
  BY <1>1, PixelsUsed
<1>5. /\ DOMAIN p = PixelFields /\ p.shown = pt.shown /\ p.seq = pt.seq /\ p.compression = e
      /\ p.max = pt.max /\ p.scroll = pt.scroll /\ p.pixelSize = pt.pixelSize
      /\ p.viewport = pt.viewport /\ p.selected = pt.selected
  BY <1>3, <1>4 DEF PixelSettings, PixelFields
<1>6. PICK c \in {1, 2}, k \in 0 .. steps : pt.compression = c + 10 * k
  BY <1>4 DEF PixelSettings
<1>7. e \in Nat \ {0} /\ e <= pt.compression
      /\ \E d \in {1, 2}, j \in 0 .. steps + 1 : e = d + 10 * j
  <2>1. CASE k = 0
    <3>1. e = 1 /\ e = 1 + 10 * 0 /\ 0 \in 0 .. steps + 1
      BY <1>2, <1>6, <2>1 DEF Larger
    <3> QED BY <1>6, <2>1, <3>1
  <2>2. CASE k # 0
    <3>1. e = c + 10 * (k - 1) /\ k - 1 \in 0 .. steps + 1
      BY <1>2, <1>6, <2>2 DEF Larger
    <3>2. e \in Nat \ {0} /\ e <= pt.compression
      BY <1>6, <2>2, <3>1
    <3>3. \E d \in {1, 2}, j \in 0 .. steps + 1 : e = d + 10 * j
      BY <3>1
    <3> QED BY <3>2, <3>3
  <2> QED BY <2>1, <2>2
<1>8. PixelSettings(p, steps + 1)
  BY <1>4, <1>5, <1>7 DEF PixelSettings
<1>9. ~RunsOutside(p, p.scroll)
  <2>1. /\ RunsOutside(p, p.scroll) <=> ~(p.scroll * p.compression <= Len(p.seq))
        /\ p.scroll \in Nat /\ Len(p.seq) \in Nat
    BY <1>8, RunsOutsideIs, PageIs
  <2>2. PICK x, b, l : x = p.scroll /\ b = pt.compression /\ l = Len(p.seq)
    OBVIOUS
  <2>3. x * b <= l /\ b \in Nat /\ e <= b
    BY <1>4, <1>5, <1>6, <1>7, <2>2 DEF InRange
  <2>4. e * x <= b * x /\ e * x = x * e /\ b * x = x * b
    BY <1>7, <2>1, <2>2, <2>3, Products
  <2>5. x * e \in Nat /\ x * b \in Nat
    BY <1>7, <2>1, <2>2, <2>3, Products
  <2> QED BY <1>5, <2>1, <2>2, <2>3, <2>4, <2>5
<1> QED BY <1>2, <1>3, <1>8, <1>9 DEF UsedFrom

LEMMA PixelsZoomed ==
  ASSUME PixelInv, steps \in Nat, ZoomPixels
  PROVE  \E p : UsedFrom(p) /\ RedrawPixels(p)
<1>1. PICK size \in 4 - MaxZoom .. 4 + MaxZoom :
        UsePixels /\ RedrawPixels([pt EXCEPT !.pixelSize = size])
  BY DEF ZoomPixels, Zoomed
<1>2. PICK p : p = [pt EXCEPT !.pixelSize = size]
  OBVIOUS
<1>3. PixelSettings(pt, steps) /\ InRange(pt) /\ ~RunsOutside(pt, pt.scroll)
  BY <1>1, PixelsUsed
<1>4. size \in 1 .. 7
  <2>1. MaxZoom \in 0 .. 3
    BY PixelBounds
  <2> QED BY <2>1
<1>5. /\ DOMAIN p = PixelFields /\ p.shown /\ p.seq = pt.seq /\ p.compression = pt.compression
      /\ p.max = pt.max /\ p.scroll = pt.scroll /\ p.pixelSize = size
      /\ p.viewport = pt.viewport /\ p.selected = pt.selected
  BY <1>2, <1>3 DEF PixelSettings, PixelFields
<1>6. UsedFrom(p)
  BY <1>3, <1>4, <1>5, StaysInside DEF PixelSettings
<1> QED BY <1>1, <1>2, <1>6

LEMMA PixelsResized ==
  ASSUME PixelInv, steps \in Nat, ResizePixels
  PROVE  \E p : UsedFrom(p) /\ RedrawPixels(p)
<1>1. PICK w \in Viewports : UsePixels /\ RedrawPixels([pt EXCEPT !.viewport = w])
  BY DEF ResizePixels
<1>2. PICK p : p = [pt EXCEPT !.viewport = w]
  OBVIOUS
<1>3. PixelSettings(pt, steps) /\ InRange(pt) /\ ~RunsOutside(pt, pt.scroll)
  BY <1>1, PixelsUsed
<1>5. /\ DOMAIN p = PixelFields /\ p.shown /\ p.seq = pt.seq /\ p.compression = pt.compression
      /\ p.max = pt.max /\ p.scroll = pt.scroll /\ p.pixelSize = pt.pixelSize
      /\ p.viewport = w /\ p.selected = pt.selected
  BY <1>2, <1>3 DEF PixelSettings, PixelFields
<1>6. UsedFrom(p)
  BY <1>3, <1>5, StaysInside DEF PixelSettings
<1> QED BY <1>1, <1>2, <1>6

LEMMA PixelsScrolled ==
  ASSUME PixelInv, steps \in Nat, ScrollPixels
  PROVE  \E p : UsedFrom(p) /\ RedrawPixels(p)
<1>1. PICK v \in 0 .. pt.max : UsePixels /\ RedrawPixels([pt EXCEPT !.scroll = v])
  BY DEF ScrollPixels
<1>2. PICK p : p = [pt EXCEPT !.scroll = v]
  OBVIOUS
<1>3. PixelSettings(pt, steps) /\ InRange(pt) /\ ~RunsOutside(pt, pt.scroll)
  BY <1>1, PixelsUsed
<1>4. /\ DOMAIN p = PixelFields /\ p.shown = pt.shown /\ p.seq = pt.seq
      /\ p.compression = pt.compression
      /\ p.max = pt.max /\ p.scroll = v /\ p.pixelSize = pt.pixelSize
      /\ p.viewport = pt.viewport /\ p.selected = pt.selected
  BY <1>2, <1>3 DEF PixelSettings, PixelFields
<1>5. PixelSettings(p, steps + 1)
  <2>1. \A k \in 0 .. steps : k \in 0 .. steps + 1
    OBVIOUS
  <2> QED BY <1>3, <1>4, <2>1 DEF PixelSettings
<1>6. PageWidth(p) # 1 => ~RunsOutside(p, p.scroll)
  <2> SUFFICES ASSUME PageWidth(p) # 1 PROVE p.scroll * p.compression <= Len(p.seq)
    BY <1>5, RunsOutsideIs
  <2>1. PICK w, t, b, l : w = PageWidth(pt) /\ t = TotalSlices(pt) /\ b = pt.compression /\ l = Len(pt.seq)
    OBVIOUS
  <2>2. w \in Nat \ {0} /\ w # 1
    <3>1. PageWidth(p) = PageWidth(pt)
      BY <1>4 DEF PageWidth
    <3> QED BY <1>3, <2>1, <3>1, PageIs
  <2>3. t \in Nat \ {0} /\ l \in Nat /\ (t - 1) * b < l /\ b \in Nat \ {0}
    <3>1. t \in 1 .. l /\ l \in Nat /\ (t - 1) * b < l
      BY <1>3, <2>1, PageIs
    <3>2. b \in Nat \ {0}
      BY <1>3, <2>1 DEF PixelSettings
    <3> QED BY <3>1, <3>2
  <2>4. pt.max = Larger(0, t - (w - 1))
    BY <1>3, <2>1 DEF InRange, ScrollMax
  <2>5. v \in Nat /\ v <= t - 1
    BY <2>2, <2>3, <2>4 DEF Larger
  <2>6. v * b <= (t - 1) * b /\ v * b \in Nat /\ (t - 1) * b \in Nat
    <3>1. t - 1 \in Nat
      BY <2>3
    <3> QED BY <2>3, <2>5, <3>1, Products
  <2> QED BY <1>4, <2>1, <2>3, <2>6
<1> QED BY <1>1, <1>2, <1>5, <1>6 DEF UsedFrom

\* The slices that are selected are there.
LEMMA SelectedThere ==
  ASSUME NEW s, PixelSettings(pt, s), NEW x \in Int, NEW y \in Int,
         \A slice \in SelectedSlices(pt, x, y) : ~RunsOutside(pt, slice)
  PROVE  SelectedSlices(pt, x, y) \subseteq 0 .. Len(pt.seq) - 1
<1>1. TotalSlices(pt) \in 1 .. Len(pt.seq) /\ Len(pt.seq) \in Nat
  BY PageIs
<1>2. SelectedSlices(pt, x, y) = x .. Smaller(TotalSlices(pt) - 1, y)
  BY DEF SelectedSlices
<1>3. Smaller(TotalSlices(pt) - 1, y) \in Int /\ Smaller(TotalSlices(pt) - 1, y) <= Len(pt.seq) - 1
  BY <1>1 DEF Smaller
<1>4. ASSUME NEW slice \in SelectedSlices(pt, x, y) PROVE slice \in 0 .. Len(pt.seq) - 1
  <2>1. slice \in Int /\ slice <= Len(pt.seq) - 1
    BY <1>1, <1>2, <1>3
  <2>2. ~(slice < 0)
    BY DEF RunsOutside
  <2> QED BY <1>1, <2>1, <2>2
<1> QED BY <1>4

LEMMA PixelsDragged ==
  ASSUME PixelInv, steps \in Nat, Drag
  PROVE  UsePixels /\ ((fault' = "select" /\ pt' = pt) \/ \E p : UsedFrom(p) /\ RedrawPixels(p))
<1>1. PICK x, y : x \in Columns(pt) /\ y \in Columns(pt) /\ SelectNodes(x, y)
  BY DEF Drag
<1>2. UsePixels
  BY <1>1 DEF SelectNodes
<1>3. PixelSettings(pt, steps) /\ InRange(pt) /\ ~RunsOutside(pt, pt.scroll)
  BY <1>2, PixelsUsed
<1>4. x \in Int /\ y \in Int
  <2>1. pt.scroll \in Nat /\ PageWidth(pt) \in Nat
    BY <1>3, PageIs, RunsOutsideIs
  <2>2. \A z \in Columns(pt) : z \in Int
    BY <2>1 DEF Columns
  <2> QED BY <1>1, <2>2
<1>5. CASE \E slice \in SelectedSlices(pt, x, y) : RunsOutside(pt, slice)
  BY <1>1, <1>2, <1>5 DEF SelectNodes
<1>6. CASE \A slice \in SelectedSlices(pt, x, y) : ~RunsOutside(pt, slice)
  <2>1. PICK slices : slices = SelectedSlices(pt, x, y)
    OBVIOUS
  <2>2. RedrawPixels([pt EXCEPT !.selected = slices])
    BY <1>1, <1>6, <2>1 DEF SelectNodes
  <2>3. slices \subseteq 0 .. Len(pt.seq) - 1
    BY <1>3, <1>4, <1>6, <2>1, SelectedThere
  <2>4. PICK p : p = [pt EXCEPT !.selected = slices]
    OBVIOUS
  <2>5. /\ DOMAIN p = PixelFields /\ p.shown /\ p.seq = pt.seq /\ p.compression = pt.compression
        /\ p.max = pt.max /\ p.scroll = pt.scroll /\ p.pixelSize = pt.pixelSize
        /\ p.viewport = pt.viewport /\ p.selected = slices
    BY <1>3, <2>4 DEF PixelSettings, PixelFields
  <2>6. UsedFrom(p)
    BY <1>3, <2>3, <2>5, StaysInside DEF PixelSettings
  <2> QED BY <1>2, <2>2, <2>4, <2>6
<1> QED BY <1>5, <1>6

LEMMA PixelsShown ==
  ASSUME TreeInv, PixelInv, steps \in Nat, NEW viewport \in Viewports, ShowPixelTree(viewport)
  PROVE  fault = "none" /\ \E p : DrawnFrom(p)
<1>1. fault = "none" /\ UNCHANGED <<places, steps>>
  BY DEF PixelInv, PixelSettings, ShowPixelTree, patternVars, outlineVars
<1>2. PICK seq : seq = PixelTree
  OBVIOUS
<1>3. PICK p : p = [shown |-> TRUE, seq |-> seq, compression |-> 2, pixelSize |-> 4,
                    viewport |-> viewport, scroll |-> 0, max |-> 0, selected |-> {},
                    reducible |-> FALSE]
  OBVIOUS
<1>4. RedrawPixels(p)
  BY <1>2, <1>3 DEF ShowPixelTree
<1>5. PixelSettings(p, steps)
  <2>1. PixelsOf(seq)
    BY <1>2, PixelTreeOrdered
  <2>2. /\ DOMAIN p = PixelFields /\ p.shown /\ p.seq = seq /\ p.compression = 2
        /\ p.max = 0 /\ p.scroll = 0 /\ p.pixelSize = 4
        /\ p.viewport = viewport /\ p.selected = {}
    BY <1>3 DEF PixelFields
  <2>3. 0 \in 0 .. steps /\ p.compression = 2 + 10 * 0
    BY <2>2
  <2> QED BY <2>1, <2>2, <2>3 DEF PixelSettings
<1>6. ~RunsOutside(p, p.scroll)
  <2>1. p.scroll = 0 /\ Len(p.seq) \in Nat
    BY <1>3, <1>5, PageIs
  <2>2. p.scroll * p.compression = 0
    BY <1>3
  <2> QED BY <1>5, <2>1, <2>2, RunsOutsideIs
<1> QED BY <1>1, <1>4, <1>5, <1>6 DEF DrawnFrom

StepsInv == steps \in 0 .. MaxSteps

LEMMA StepsStep ==
  ASSUME StepsInv, [Next]_vars
  PROVE  StepsInv'
<1>1. steps' = steps \/ (steps < MaxSteps /\ steps' = steps + 1)
  BY DEF Next, vars, pixelVars, ShowPixelTree, ShowIcicle, AddCompression, ReduceCompression,
         ZoomPixels, ResizePixels, ScrollPixels, Drag, SelectNodes, UsePixels, SavePixelTree, Step,
         Compress, ZoomIcicle, ResizeIcicle, ScrollIcicle, RedrawLater, ClickIcicle, UseIcicle,
         SlideLantern, LanternLater
<1>2. MaxSteps \in Nat
  BY PixelBounds
<1> QED BY <1>1, <1>2 DEF StepsInv

LEMMA PixelInvStep ==
  ASSUME TreeInv, PixelInv, StepsInv, [Next]_vars
  PROVE  /\ PixelInv'
         /\ fault' = "draw" /\ fault = "none" =>
              pt.shown /\ ((pt'.compression > pt.compression /\ pt.scroll > 0) \/ PageWidth(pt') = 1)
<1>1. steps \in Nat
  BY PixelBounds DEF StepsInv
<1>2. CASE \E p : DrawnFrom(p) /\ fault = "none"
  BY <1>2, DrawnFromIs
<1>3. ASSUME UsePixels, (fault' = "select" /\ pt' = pt) \/ \E p : UsedFrom(p) /\ RedrawPixels(p)
      PROVE  \/ \E p : DrawnFrom(p) /\ fault = "none"
             \/ fault' = "select" /\ pt' = pt /\ UsePixels
  BY <1>1, <1>3, PixelsUsed
<1>4. CASE fault' = "select" /\ pt' = pt /\ UsePixels
  <2>1. PixelSettings(pt, steps) /\ steps' = steps + 1 /\ UNCHANGED places
    BY <1>1, <1>4, PixelsUsed
  <2>2. \A k \in 0 .. steps : k \in 0 .. steps + 1
    BY <1>1
  <2>3. PixelsOf(pt.seq)'
    BY <1>4, <2>1 DEF PixelsOf, PixelSettings
  <2>4. PixelSettings(pt, steps)'
    BY <1>4, <2>1, <2>2, <2>3 DEF PixelSettings
  <2> QED BY <1>4, <2>4 DEF PixelInv
<1>5. CASE pt' = pt /\ fault' = fault /\ (pt.shown => UNCHANGED places)
  <2>1. CASE pt = NotShown
    BY <1>5, <2>1 DEF PixelInv, PixelSettings, NotShown
  <2>2. CASE pt # NotShown
    <3>1. PixelSettings(pt, steps)
      BY <2>2 DEF PixelInv
    <3>2. UNCHANGED places
      BY <1>5, <3>1 DEF PixelSettings
    <3>3. steps' \in Nat /\ \A k \in 0 .. steps : k \in 0 .. steps'
      <4>1. steps' = steps \/ (steps < MaxSteps /\ steps' = steps + 1)
        BY DEF Next, vars, pixelVars, ShowPixelTree, ShowIcicle, AddCompression, ReduceCompression,
         ZoomPixels, ResizePixels, ScrollPixels, Drag, SelectNodes, UsePixels, SavePixelTree, Step,
         Compress, ZoomIcicle, ResizeIcicle, ScrollIcicle, RedrawLater, ClickIcicle, UseIcicle,
         SlideLantern, LanternLater
      <4> QED BY <1>1, <4>1
    <3>4. PixelsOf(pt.seq)'
      BY <1>5, <3>1, <3>2 DEF PixelsOf, PixelSettings
    <3>5. PixelSettings(pt, steps)'
      BY <1>5, <3>1, <3>3, <3>4 DEF PixelSettings
    <3>6. InRange(pt) => InRange(pt)'
      BY <1>5 DEF InRange, ScrollMax, TotalSlices, PageWidth
    <3> QED BY <1>5, <2>2, <3>5, <3>6 DEF PixelInv
  <2> QED BY <1>5, <2>1, <2>2
<1>6. \/ pt' = pt /\ fault' = fault /\ (pt.shown => UNCHANGED places)
      \/ \E viewport \in Viewports : ShowPixelTree(viewport)
      \/ AddCompression \/ ReduceCompression \/ ZoomPixels \/ ResizePixels \/ ScrollPixels \/ Drag
  BY DEF Next, vars, pixelVars, SavePixelTree, Compress, ZoomIcicle, ResizeIcicle, ScrollIcicle,
         RedrawLater, ClickIcicle, UseIcicle, ShowIcicle, SlideLantern, LanternLater, patternVars,
         outlineVars
<1>7. CASE \E viewport \in Viewports : ShowPixelTree(viewport)
  BY <1>1, <1>2, <1>7, PixelsShown
<1>8. CASE AddCompression \/ ReduceCompression \/ ZoomPixels \/ ResizePixels \/ ScrollPixels
  <2>1. UsePixels
    BY <1>8 DEF AddCompression, ReduceCompression, ZoomPixels, ResizePixels, ScrollPixels
  <2>2. \E p : UsedFrom(p) /\ RedrawPixels(p)
    BY <1>1, <1>8, CompressionAdded, CompressionReduced, PixelsZoomed, PixelsResized, PixelsScrolled
  <2> QED BY <1>2, <1>3, <1>4, <2>1, <2>2
<1>9. CASE Drag
  BY <1>1, <1>2, <1>3, <1>4, <1>9, PixelsDragged
<1> QED BY <1>5, <1>6, <1>7, <1>8, <1>9

UsedInv == TreeInv /\ PixelInv /\ StepsInv

LEMMA UsedInvHolds == Spec => []UsedInv
<1>1. Init => UsedInv
  <2>1. Init => TreeInv
    BY TreeBegins DEF Init, PatternsInit
  <2>2. Init => PixelInv /\ StepsInv
    BY PixelBounds DEF Init, PixelInv, StepsInv
  <2> QED BY <2>1, <2>2 DEF UsedInv
<1>2. UsedInv /\ [Next]_vars => UsedInv'
  BY TreeStep, PixelInvStep, StepsStep DEF UsedInv
<1> QED BY <1>1, <1>2, PTL DEF Spec

\* Drawing the pixel tree begins behind the end of the sequence in two cases
\* only, whatever is zoomed, resized, scrolled or selected.
THEOREM OutsideRarely == Spec => DrawsOutsideRarely
<1>1. UsedInv /\ [Next]_vars =>
        [fault' = "draw" /\ fault = "none" =>
           \/ pt'.compression > pt.compression /\ pt.scroll > 0
           \/ PageWidth(pt') = 1]_vars
  BY PixelInvStep DEF UsedInv
<1> QED BY <1>1, UsedInvHolds, PTL DEF Spec, DrawsOutsideRarely

\* Every node is in one slice, no slice is empty and the scroll bar gets to
\* every slice.
LEMMA SlicesOf ==
  ASSUME PixelSettings(pt, steps), InRange(pt)
  PROVE  SlicesCover
<1>1. PICK t, c, l, w : t = TotalSlices(pt) /\ c = pt.compression /\ l = Len(pt.seq) /\ w = PageWidth(pt)
  OBVIOUS
<1>2. /\ t \in Nat \ {0} /\ c \in Nat \ {0} /\ l \in Nat \ {0} /\ w \in Nat \ {0}
      /\ DOMAIN pt.seq = 1 .. l /\ l <= t * c /\ (t - 1) * c < l
  <2>1. t \in 1 .. l /\ l \in Nat \ {0} /\ w \in Nat \ {0} /\ c \in Nat \ {0}
    BY <1>1, PageIs DEF PixelSettings
  <2>2. DOMAIN pt.seq = 1 .. l /\ l <= t * c /\ (t - 1) * c < l
    BY <1>1, PageIs
  <2> QED BY <2>1, <2>2
<1>3. \A slice, x : x \in Within(pt, slice) <=>
                      x \in slice * c .. (slice + 1) * c - 1 /\ x < l
  BY <1>1 DEF Within, Positions
<1>4. ASSUME NEW i \in 1 .. l
      PROVE  Cardinality({slice \in 0 .. t - 1 : i - 1 \in Within(pt, slice)}) = 1
  <2>1. PICK q : q = (i - 1) \div c
    OBVIOUS
  <2>2. q \in Nat /\ q * c <= i - 1 /\ i - 1 < (q + 1) * c
    <3>1. i - 1 \in Nat
      BY <1>2
    <3> QED BY <1>2, <2>1, <3>1, Quotient
  <2>3. ASSUME NEW slice \in Nat, i - 1 \in Within(pt, slice) PROVE slice = q
    <3>1. slice * c <= i - 1 /\ i - 1 < (slice + 1) * c
      <4>1. i - 1 \in slice * c .. (slice + 1) * c - 1
        BY <1>3, <2>3
      <4>2. slice * c \in Nat /\ (slice + 1) * c \in Nat
        BY <1>2, Products
      <4> QED BY <4>1, <4>2
    <3>2. slice * c < (q + 1) * c /\ q * c < (slice + 1) * c
      <4>1. slice * c \in Nat /\ (slice + 1) * c \in Nat /\ q * c \in Nat /\ (q + 1) * c \in Nat
        BY <1>2, <2>2, Products
      <4> QED BY <2>2, <3>1, <4>1
    <3>3. slice < q + 1 /\ q < slice + 1
      <4>1. slice + 1 \in Nat /\ q + 1 \in Nat
        BY <2>2
      <4> QED BY <1>2, <2>2, <3>2, <4>1, Products
    <3> QED BY <2>2, <3>3
  <2>4. q < t
    <3>1. q * c < t * c
      <4>1. q * c \in Nat /\ t * c \in Nat
        BY <1>2, <2>2, Products
      <4> QED BY <1>2, <2>2, <4>1
    <3> QED BY <1>2, <2>2, <3>1, Products
  <2>5. q \in 0 .. t - 1 /\ i - 1 \in Within(pt, q)
    <3>1. q * c \in Nat /\ (q + 1) * c \in Nat
      BY <1>2, <2>2, Products
    <3>2. i - 1 \in q * c .. (q + 1) * c - 1 /\ i - 1 < l
      <4>1. i - 1 \in Nat /\ i - 1 < l
        BY <1>2
      <4> QED BY <2>2, <3>1, <4>1
    <3> QED BY <1>2, <1>3, <2>2, <2>4, <3>2
  <2>6. {slice \in 0 .. t - 1 : i - 1 \in Within(pt, slice)} = {q}
    <3>1. \A slice \in 0 .. t - 1 : slice \in Nat
      OBVIOUS
    <3> QED BY <2>3, <2>5, <3>1
  <2> QED BY <2>6, FS_Singleton
<1>5. ASSUME NEW slice \in 0 .. t - 1
      PROVE  slice \in Nat /\ slice * c \in Nat /\ slice * c < l
  <2>1. slice \in Nat /\ t - 1 \in Nat /\ slice <= t - 1
    BY <1>2
  <2>2. slice * c <= (t - 1) * c /\ slice * c \in Nat /\ (t - 1) * c \in Nat
    BY <1>2, <2>1, Products
  <2> QED BY <1>2, <2>1, <2>2
<1>6. ASSUME NEW slice \in 0 .. t - 1 PROVE Within(pt, slice) # {}
  <2>1. slice \in Nat /\ slice * c \in Nat /\ slice * c < l
    BY <1>5
  <2>2. (slice + 1) * c = slice * c + c
    BY <1>2, <2>1
  <2>3. slice * c \in slice * c .. (slice + 1) * c - 1
    BY <1>2, <2>1, <2>2
  <2> QED BY <1>3, <2>1, <2>3
<1>7. ASSUME NEW slice \in 0 .. t - 1
      PROVE  \E v \in 0 .. pt.max : slice \in DrawnSlices([pt EXCEPT !.scroll = v])
  <2>1. slice \in Nat /\ slice * c < l /\ slice * c \in Nat
    BY <1>5
  <2>2. pt.max = Larger(0, t - (w - 1))
    BY <1>1 DEF InRange, ScrollMax
  <2>3. PICK v \in 0 .. pt.max : slice \in v .. v + w - 1
    <3>1. CASE slice <= pt.max
      BY <1>2, <2>1, <2>2, <3>1 DEF Larger
    <3>2. CASE ~(slice <= pt.max)
      <4>1. pt.max \in 0 .. pt.max /\ slice \in pt.max .. pt.max + w - 1
        BY <1>2, <2>1, <2>2, <3>2 DEF Larger
      <4> QED BY <4>1
    <3> QED BY <3>1, <3>2
  <2>4. PICK p : p = [pt EXCEPT !.scroll = v]
    OBVIOUS
  <2>5. /\ p.scroll = v /\ p.compression = c /\ p.seq = pt.seq /\ p.viewport = pt.viewport
        /\ p.pixelSize = pt.pixelSize
    BY <1>1, <2>4 DEF PixelSettings, PixelFields
  <2>6. PageWidth(p) = w
    BY <1>1, <2>5 DEF PageWidth
  <2>7. slice * p.compression <= Len(p.seq)
    BY <1>1, <1>2, <2>1, <2>5
  <2>8. slice \in DrawnSlices(p)
    BY <2>3, <2>5, <2>6, <2>7 DEF DrawnSlices
  <2> QED BY <2>4, <2>8
<1>8. 0 .. t - 1 \subseteq UNION {DrawnSlices([pt EXCEPT !.scroll = v]) : v \in 0 .. pt.max}
  BY <1>7
<1> QED BY <1>1, <1>2, <1>4, <1>6, <1>8 DEF SlicesCover

\* The pixel tree is the tree from left to right.
LEMMA PixelsInOrder ==
  ASSUME PixelSettings(pt, steps)
  PROVE  PixelTreeExact
<1>1. PICK s : s = pt.seq
  OBVIOUS
<1>2. PixelsOf(s)
  BY <1>1 DEF PixelSettings
<1>3. Len(s) = Cardinality(places) /\ DOMAIN s = 1 .. Len(s) /\ ToSet(s) = {s[i] : i \in 1 .. Len(s)}
  BY <1>2, LenProperties DEF PixelsOf, ToSet
<1>4. \A i \in 1 .. Len(s) : s[i].nid \in places /\ s[i].depth = Len(s[i].nid) + 1
  <2>1. \A n : Item(n).depth = Len(n) + 1
    BY DEF Item
  <2> QED BY <1>2, <2>1 DEF PixelsOf
<1>5. {item.nid : item \in ToSet(s)} = places
  <2>1. \A n \in places : \E i \in 1 .. Len(s) : s[i].nid = n
    BY <1>2 DEF PixelsOf
  <2>2. \A item \in ToSet(s) : item.nid \in places
    BY <1>3, <1>4
  <2>3. \A n \in places : \E item \in ToSet(s) : item.nid = n
    BY <1>3, <2>1
  <2> QED BY <2>2, <2>3
<1>6. \A item \in ToSet(s) : item.depth = Len(item.nid) + 1
  BY <1>3, <1>4
<1>7. \A i, j \in DOMAIN s : i < j => Sooner(s[i].nid, s[j].nid)
  BY <1>2, <1>3 DEF PixelsOf
<1> QED BY <1>1, <1>3, <1>5, <1>6, <1>7 DEF PixelTreeExact

-----------------------------------------------------------------------------
(* The pixel tree is saved *)

LEMMA GreatestNumber ==
  ASSUME NEW S, IsFiniteSet(S), S \subseteq Nat, S # {}
  PROVE  GreatestOf(S) \in S /\ \A x \in S : x <= GreatestOf(S)
<1>1. PICK n \in Nat : ExistsBijection(1 .. n, S)
  BY FS_NatBijection
<1>2. PICK f \in Bijection(1 .. n, S) : TRUE
  BY <1>1 DEF ExistsBijection
<1>3. f \in [1 .. n -> S] /\ \A x \in S : \E i \in 1 .. n : f[i] = x
  BY <1>2 DEF Bijection, Surjection
<1> DEFINE X == {k \in Nat : k <= n => \E m \in Nat : \A i \in 1 .. k : f[i] <= m}
<1>4. 0 \in X
  OBVIOUS
<1>5. ASSUME NEW k \in Nat, k \in X PROVE k + 1 \in X
  <2> SUFFICES ASSUME k + 1 <= n PROVE \E m \in Nat : \A i \in 1 .. k + 1 : f[i] <= m
    OBVIOUS
  <2>1. PICK m \in Nat : \A i \in 1 .. k : f[i] <= m
    <3>1. k <= n
      OBVIOUS
    <3> QED BY <1>5, <3>1
  <2>2. k + 1 \in 1 .. n /\ f[k + 1] \in Nat /\ \A i \in 1 .. k : f[i] \in Nat
    <3>1. \A i \in 1 .. n : f[i] \in Nat
      BY <1>3
    <3>2. k + 1 \in 1 .. n /\ \A i \in 1 .. k : i \in 1 .. n
      OBVIOUS
    <3> QED BY <3>1, <3>2
  <2>3. PICK b \in Nat : f[k + 1] <= b /\ m <= b
    BY <2>2
  <2>4. \A i \in 1 .. k + 1 : i \in 1 .. k \/ i = k + 1
    OBVIOUS
  <2>5. \A i \in 1 .. k + 1 : f[i] <= b
    BY <2>1, <2>2, <2>3, <2>4
  <2> QED BY <2>5
<1>6. \A k \in Nat : k \in X
  <2> HIDE DEF X
  <2> QED BY <1>4, <1>5, SetInduction
<1>7. \E m \in Nat : \A x \in S : x <= m
  <2>1. n \in X
    <3> HIDE DEF X
    <3> QED BY <1>6
  <2>2. PICK m \in Nat : \A i \in 1 .. n : f[i] <= m
    BY <2>1
  <2> QED BY <1>3, <2>2
<1>8. PICK m \in {y \in Nat : \A x \in S : x <= y} : \A z \in {y \in Nat : \A x \in S : x <= y} : m <= z
  <2> DEFINE B == {y \in Nat : \A x \in S : x <= y}
  <2>1. B \subseteq Nat /\ B # {}
    BY <1>7
  <2> HIDE DEF B
  <2>2. \E y \in B : \A z \in B : y <= z
    BY <2>1, LeastNumber
  <2> QED BY <2>2 DEF B
<1>9. m \in S
  <2> SUFFICES ASSUME m \notin S PROVE FALSE
    OBVIOUS
  <2>1. \A x \in S : x \in Nat /\ x <= m /\ x # m
    BY <1>8
  <2>2. PICK x \in S : TRUE
    OBVIOUS
  <2>3. m - 1 \in Nat /\ \A y \in S : y <= m - 1
    BY <1>8, <2>1, <2>2
  <2> QED BY <1>8, <2>3
<1>10. \E y \in S : \A x \in S : y >= x
  BY <1>8, <1>9
<1>11. GreatestOf(S) \in S /\ \A x \in S : GreatestOf(S) >= x
  BY <1>10 DEF GreatestOf
<1> QED BY <1>11

PixelTreeOf(tree) ==
  LET At[k \in 0 .. Cardinality(tree)] ==
        IF k = 0 THEN [seq |-> <<>>, stack |-> <<Root>>]
        ELSE LET before == At[k - 1]
                 top == Last(before.stack)
                 kids == [i \in 1 .. Cardinality(KidsIn(tree, top)) |->
                            Kid(top, Cardinality(KidsIn(tree, top)) + 1 - i)]
             IN [seq |-> Append(before.seq, [nid |-> top, depth |-> Len(top) + 1]),
                 stack |-> Front(before.stack) \o kids]
  IN At[Cardinality(tree)].seq

LEMMA SameTreeSamePixels ==
  ASSUME places' = places
  PROVE  PixelTree' = PixelTree
<1>1. PixelTree = PixelTreeOf(places)
  BY DEF PixelTree, PixelTreeOf, KidCount
<1>2. PixelTree' = PixelTreeOf(places')
  BY DEF PixelTree, PixelTreeOf, KidCount
<1> QED BY <1>1, <1>2

\* What savePixelTree writes.
Picture(tree, seq, c) ==
  LET p == [seq |-> seq, compression |-> c]
      width == Resized(4 * TotalSlices(p))
      height == Resized(4 * GreatestOf({Len(n) + 1 : n \in tree}))
  IN [compression |-> c,
      throws |-> width * height < 0,
      nodes |-> {p.seq[i].nid : i \in {j \in DOMAIN p.seq :
                   Inside((j - 1) \div c, p.seq[j].depth, width, height)}}]

SavedInv ==
  \/ saved = NothingSaved
  \/ steps # 0 /\ \E c \in {1, 2} : saved = Picture(places, PixelTree, c)

LEMMA SavedStep ==
  ASSUME StepsInv, SavedInv, [Next]_vars
  PROVE  SavedInv'
<1>1. steps \in Nat
  BY PixelBounds DEF StepsInv
<1>2. CASE \E c \in {1, 2} : SavePixelTree(c)
  <2>1. PICK c \in {1, 2} : SavePixelTree(c)
    BY <1>2
  <2>2. steps' # 0 /\ places' = places
    BY <1>1, <2>1 DEF SavePixelTree, Step, patternVars, outlineVars
  <2>3. saved' = Picture(places, PixelTree, c)
    BY <2>1 DEF SavePixelTree, Picture
  <2>4. saved' = Picture(places', PixelTree', c)
    BY <2>2, <2>3, SameTreeSamePixels
  <2> QED BY <2>2, <2>4 DEF SavedInv
<1>3. CASE saved' = saved /\ (steps # 0 => steps' # 0 /\ places' = places)
  <2>1. CASE steps # 0
    BY <1>3, <2>1, SameTreeSamePixels DEF SavedInv
  <2>2. CASE steps = 0
    BY <1>3, <2>2 DEF SavedInv
  <2> QED BY <2>1, <2>2
<1>4. \/ \E c \in {1, 2} : SavePixelTree(c)
      \/ saved' = saved /\ (steps # 0 => steps' # 0 /\ places' = places)
  <2>1. CASE steps = 0 /\ UNCHANGED pixelVars
    BY <2>1 DEF pixelVars
  <2>2. CASE UNCHANGED vars
    BY <2>2 DEF vars, pixelVars, patternVars, outlineVars
  <2>3. CASE \E viewport \in Viewports : ShowPixelTree(viewport) \/ ShowIcicle(viewport)
    BY <2>3 DEF ShowPixelTree, ShowIcicle, patternVars, outlineVars
  <2>4. CASE \/ AddCompression \/ ReduceCompression \/ ZoomPixels \/ ResizePixels
             \/ ScrollPixels \/ Drag
    <3>1. saved' = saved /\ places' = places /\ steps' = steps + 1
      BY <2>4 DEF AddCompression, ReduceCompression, ZoomPixels, ResizePixels, ScrollPixels, Drag,
           SelectNodes, UsePixels, Step
    <3> QED BY <1>1, <3>1
  <2>5. CASE Compress \/ ZoomIcicle \/ ResizeIcicle \/ ScrollIcicle \/ ClickIcicle
    <3>1. saved' = saved /\ places' = places /\ steps' = steps + 1
      BY <2>5 DEF Compress, ZoomIcicle, ResizeIcicle, ScrollIcicle, ClickIcicle, UseIcicle, Step,
           patternVars, outlineVars
    <3> QED BY <1>1, <3>1
  <2>6. CASE RedrawLater \/ LanternLater
    BY <2>6 DEF RedrawLater, LanternLater, patternVars, outlineVars
  <2>7. CASE SlideLantern
    BY <1>1, <2>7 DEF SlideLantern, Step, patternVars, outlineVars
  <2> QED BY <2>1, <2>2, <2>3, <2>4, <2>5, <2>6, <2>7 DEF Next
<1> QED BY <1>2, <1>3, <1>4

LEMMA Sides ==
  ASSUME NEW t \in Nat, NEW l \in Nat
  PROVE  Resized(4 * t) * Resized(4 * l) < 0 <=> (t <= 2) # (l <= 2)
<1>1. PICK w, h : w = Resized(4 * t) /\ h = Resized(4 * l)
  OBVIOUS
<1>2. /\ w \in Int /\ h \in Int
      /\ t <= 2 => w < 0
      /\ ~(t <= 2) => w > 0
      /\ l <= 2 => h < 0
      /\ ~(l <= 2) => h > 0
  BY <1>1 DEF Resized
<1>3. /\ (w < 0 /\ h < 0 => ~(w * h < 0)) /\ (w > 0 /\ h > 0 => ~(w * h < 0))
      /\ (w < 0 /\ h > 0 => w * h < 0) /\ (w > 0 /\ h < 0 => w * h < 0)
  BY <1>2
<1> QED BY <1>1, <1>2, <1>3

\* A saved picture lacks nodes only at its edges.
LEMMA PictureIs ==
  ASSUME TreeInv, NEW c \in {1, 2}, saved = Picture(places, PixelTree, c)
  PROVE  SavedButForEdges
<1>1. PICK seq, p, t : seq = PixelTree /\ p = [seq |-> seq, compression |-> c] /\ t = TotalSlices(p)
  OBVIOUS
<1>2. PICK levels : levels = GreatestOf({Len(n) + 1 : n \in places})
  OBVIOUS
<1>3. PixelsOf(seq)
  BY <1>1, PixelTreeOrdered
<1>4. DOMAIN seq = 1 .. Len(seq) /\ Len(seq) \in Nat \ {0}
  BY <1>3, LenProperties DEF PixelsOf
<1>5. t \in Nat
  <2>1. t = CeilDiv(Len(seq), c)
    BY <1>1 DEF TotalSlices
  <2>2. c \in Nat \ {0} /\ Len(seq) \in Nat
    BY <1>4
  <2> QED BY <2>1, <2>2, ColumnsOf
<1>6. levels \in Nat
  <2> DEFINE S == {Len(n) + 1 : n \in places}
             f == [n \in places |-> Len(n) + 1]
  <2>1. S \subseteq Nat /\ S # {}
    <3>1. \A n \in places : Len(n) \in Nat
      BY LenProperties DEF TreeInv, PlaceSet
    <3> QED BY <3>1 DEF TreeInv
  <2>2. f \in Surjection(places, S)
    BY DEF Surjection
  <2> HIDE DEF S, f
  <2>3. IsFiniteSet(S)
    BY <2>2, FS_Surjection DEF TreeInv
  <2>4. GreatestOf(S) \in Nat
    BY <2>1, <2>3, GreatestNumber
  <2> QED BY <1>2, <2>4 DEF S
<1>7. PICK w, h : w = Resized(4 * t) /\ h = Resized(4 * levels)
  OBVIOUS
<1>8. /\ saved.compression = c /\ saved.throws = (w * h < 0)
      /\ saved.nodes = {seq[i].nid : i \in {j \in DOMAIN seq :
                          Inside((j - 1) \div c, seq[j].depth, w, h)}}
  BY <1>1, <1>2, <1>7 DEF Picture
<1>9. saved.throws <=> (t <= 2) # (levels <= 2)
  BY <1>5, <1>6, <1>7, <1>8, Sides
<1>10. ASSUME ~saved.throws, levels > 2, NEW i \in DOMAIN seq
       PROVE  \/ seq[i].nid \in saved.nodes \/ seq[i].depth >= levels - 2
              \/ (i - 1) \div c >= t - 2
  <2>1. PICK q, d : q = (i - 1) \div c /\ d = seq[i].depth
    OBVIOUS
  <2>2. q \in Nat
    <3>1. i - 1 \in Nat /\ c \in Nat \ {0}
      BY <1>4
    <3> QED BY <2>1, <3>1, Quotient
  <2>3. d \in Nat
    <3>1. seq[i].nid \in places /\ d = Len(seq[i].nid) + 1
      BY <1>3, <1>4, <2>1 DEF PixelsOf, Item
    <3>2. seq[i].nid \in PlaceSet
      BY <3>1 DEF TreeInv
    <3> QED BY <3>1, <3>2, LenProperties DEF PlaceSet
  <2>4. t > 2
    BY <1>5, <1>6, <1>9, <1>10
  <2> SUFFICES ASSUME d < levels - 2, q < t - 2 PROVE seq[i].nid \in saved.nodes
    BY <1>5, <1>6, <2>1, <2>2, <2>3
  <2>5. Inside(q, d, w, h)
    BY <1>5, <1>6, <1>7, <2>2, <2>3, <2>4 DEF Inside, Resized
  <2> QED BY <1>8, <2>1, <2>5
<1> QED BY <1>1, <1>2, <1>8, <1>9, <1>10 DEF SavedButForEdges

-----------------------------------------------------------------------------
(* Sums over a set *)

Picked(s) == CHOOSE x \in s : TRUE

\* What the sum over a set from b on, by a function h, recurses with.
SumSteps(b, h, sets, g) ==
  g = [s \in sets |-> IF s = {} THEN b ELSE h[Picked(s)] + g[s \ {Picked(s)}]]

Summed(b, h, S) == (CHOOSE g : SumSteps(b, h, SUBSET S, g))[S]

LEMMA PickedIs ==
  ASSUME NEW s, IsFiniteSet(s)
  PROVE  /\ Cardinality(s) \in Nat
         /\ s = {} <=> Cardinality(s) = 0
         /\ s # {} => /\ Picked(s) \in s /\ IsFiniteSet(s \ {Picked(s)})
                      /\ Cardinality(s \ {Picked(s)}) = Cardinality(s) - 1
<1>1. Cardinality(s) \in Nat /\ (Cardinality(s) = 0 <=> s = {})
  BY FS_CardinalityType, FS_EmptySet
<1>2. s # {} => Picked(s) \in s
  BY DEF Picked
<1>3. s # {} => IsFiniteSet(s \ {Picked(s)}) /\ Cardinality(s \ {Picked(s)}) = Cardinality(s) - 1
  BY <1>2, FS_RemoveElement
<1> QED BY <1>1, <1>2, <1>3

\* The subsets that have no more than k elements.
Small(S, k) == {s \in SUBSET S : Cardinality(s) <= k}

LEMMA SumStepsExist ==
  ASSUME NEW S, IsFiniteSet(S), NEW b, NEW h
  PROVE  \E g : SumSteps(b, h, SUBSET S, g)
<1>0. \A s \in SUBSET S : IsFiniteSet(s)
  BY FS_Subset
<1> DEFINE X == {k \in Nat : \E g : SumSteps(b, h, Small(S, k), g)}
<1>1. 0 \in X
  <2> DEFINE g == [s \in Small(S, 0) |-> b]
  <2>1. ASSUME NEW s \in Small(S, 0) PROVE s = {}
    <3>1. IsFiniteSet(s) /\ Cardinality(s) <= 0
      BY <1>0 DEF Small
    <3>2. Cardinality(s) \in Nat
      BY <3>1, PickedIs
    <3>3. Cardinality(s) = 0
      BY <3>1, <3>2
    <3> QED BY <3>1, <3>3, PickedIs
  <2>2. g = [s \in Small(S, 0) |-> IF s = {} THEN b ELSE h[Picked(s)] + g[s \ {Picked(s)}]]
    BY <2>1
  <2> HIDE DEF g
  <2> QED BY <2>2 DEF SumSteps
<1>2. ASSUME NEW k \in Nat, k \in X PROVE k + 1 \in X
  <2>1. PICK f : SumSteps(b, h, Small(S, k), f)
    BY <1>2
  <2> DEFINE Next1(s) == h[Picked(s)] + f[s \ {Picked(s)}]
             g == [s \in Small(S, k + 1) |-> IF s \in Small(S, k) THEN f[s] ELSE Next1(s)]
  <2>2. \A s \in Small(S, k) : f[s] = IF s = {} THEN b ELSE h[Picked(s)] + f[s \ {Picked(s)}]
    BY <2>1 DEF SumSteps
  <2>3. \A s \in Small(S, k) : s \in Small(S, k + 1) /\ g[s] = f[s]
    <3>1. \A s \in Small(S, k) : Cardinality(s) \in Nat /\ Cardinality(s) <= k
      BY <1>0, PickedIs DEF Small
    <3>2. \A s \in Small(S, k) : s \in Small(S, k + 1)
      BY <3>1 DEF Small
    <3> QED BY <3>2
  <2>4. ASSUME NEW s \in Small(S, k + 1), s # {}
        PROVE  s \ {Picked(s)} \in Small(S, k)
    <3>1. s \in SUBSET S /\ Cardinality(s) <= k + 1
      BY DEF Small
    <3>2. /\ Cardinality(s) \in Nat /\ s \ {Picked(s)} \in SUBSET S
          /\ Cardinality(s \ {Picked(s)}) = Cardinality(s) - 1
      BY <1>0, <2>4, <3>1, PickedIs
    <3> QED BY <3>1, <3>2 DEF Small
  <2>5. {} \in Small(S, k)
    BY FS_EmptySet DEF Small
  <2>6. \A s \in Small(S, k + 1) :
          g[s] = IF s = {} THEN b ELSE h[Picked(s)] + g[s \ {Picked(s)}]
    <3> SUFFICES ASSUME NEW s \in Small(S, k + 1)
                 PROVE  g[s] = IF s = {} THEN b ELSE h[Picked(s)] + g[s \ {Picked(s)}]
      OBVIOUS
    <3>1. CASE s = {}
      BY <2>2, <2>3, <2>5, <3>1
    <3>2. CASE s # {}
      <4>1. g[s \ {Picked(s)}] = f[s \ {Picked(s)}]
        BY <2>3, <2>4, <3>2
      <4>2. g[s] = h[Picked(s)] + f[s \ {Picked(s)}]
        BY <2>2, <3>2
      <4> QED BY <3>2, <4>1, <4>2
    <3> QED BY <3>1, <3>2
  <2>7. SumSteps(b, h, Small(S, k + 1), g)
    <3>1. g = [s \in Small(S, k + 1) |-> g[s]]
      OBVIOUS
    <3> HIDE DEF g
    <3> QED BY <2>6, <3>1 DEF SumSteps
  <2> QED BY <2>7
<1>3. \A k \in Nat : k \in X
  <2> HIDE DEF X
  <2> QED BY <1>1, <1>2, SetInduction
<1>4. Cardinality(S) \in Nat
  BY FS_CardinalityType
<1>5. Small(S, Cardinality(S)) = SUBSET S
  BY <1>4, FS_Subset DEF Small
<1>6. PICK g : SumSteps(b, h, Small(S, Cardinality(S)), g)
  BY <1>3, <1>4
<1> QED BY <1>5, <1>6

\* If h counts sets without a common element, the sum counts their union.
LEMMA SumIs ==
  ASSUME NEW S, IsFiniteSet(S), NEW b \in Int, NEW h, NEW U,
         \A x \in S : IsFiniteSet(U[x]) /\ h[x] = Cardinality(U[x]),
         \A x, y \in S : x # y => U[x] \cap U[y] = {}
  PROVE  LET all == UNION {U[x] : x \in S}
         IN /\ IsFiniteSet(all)
            /\ Summed(b, h, S) = b + Cardinality(all)
<1>0. \A s \in SUBSET S : IsFiniteSet(s)
  BY FS_Subset
<1> DEFINE All(s) == UNION {U[x] : x \in s}
<1>1. PICK g : g = CHOOSE f : SumSteps(b, h, SUBSET S, f)
  OBVIOUS
<1>2. SumSteps(b, h, SUBSET S, g)
  BY <1>1, SumStepsExist
<1>3. \A s \in SUBSET S : g[s] = IF s = {} THEN b ELSE h[Picked(s)] + g[s \ {Picked(s)}]
  BY <1>2 DEF SumSteps
<1> DEFINE Right(s) == IsFiniteSet(All(s)) /\ g[s] = b + Cardinality(All(s))
           X == {k \in Nat : \A s \in SUBSET S : Cardinality(s) = k => Right(s)}
<1>4. 0 \in X
  <2> SUFFICES ASSUME NEW s \in SUBSET S, Cardinality(s) = 0 PROVE Right(s)
    OBVIOUS
  <2>1. s = {}
    <3>1. IsFiniteSet(s)
      BY <1>0
    <3> QED BY <3>1, PickedIs
  <2>2. All(s) = {} /\ g[s] = b
    BY <1>3, <2>1
  <2> QED BY <2>2, FS_EmptySet
<1>5. ASSUME NEW k \in Nat, k \in X PROVE k + 1 \in X
  <2> SUFFICES ASSUME NEW s \in SUBSET S, Cardinality(s) = k + 1 PROVE Right(s)
    OBVIOUS
  <2>0. IsFiniteSet(s)
    BY <1>0
  <2>1. s # {}
    BY <2>0, PickedIs
  <2>2. PICK x, r : x = Picked(s) /\ r = s \ {x}
    OBVIOUS
  <2>3. x \in s /\ x \in S /\ r \in SUBSET S /\ Cardinality(r) = k
    <3>1. Picked(s) \in s /\ Cardinality(s \ {Picked(s)}) = Cardinality(s) - 1
      BY <2>0, <2>1, PickedIs
    <3> QED BY <2>2, <3>1
  <2>4. Right(r)
    BY <1>5, <2>3
  <2> HIDE DEF All
  <2>5. All(s) = U[x] \cup All(r) /\ U[x] \cap All(r) = {}
    <3>1. s = {x} \cup r /\ x \notin r
      BY <2>2, <2>3
    <3>2. \A y \in r : U[x] \cap U[y] = {}
      BY <2>3, <3>1
    <3> QED BY <3>1, <3>2 DEF All
  <2>6. PICK A, B : A = U[x] /\ B = All(r)
    OBVIOUS
  <2>7. IsFiniteSet(A) /\ IsFiniteSet(B) /\ h[x] = Cardinality(A) /\ g[r] = b + Cardinality(B)
    BY <2>3, <2>4, <2>6
  <2>8. IsFiniteSet(A \cup B) /\ Cardinality(A \cup B) = Cardinality(A) + Cardinality(B)
    <3>1. A \cap B = {}
      BY <2>5, <2>6
    <3>2. Cardinality(A) \in Nat /\ Cardinality(B) \in Nat /\ Cardinality(A \cap B) = 0
      BY <2>7, <3>1, FS_CardinalityType, FS_EmptySet
    <3>3. IsFiniteSet(A) /\ IsFiniteSet(B)
      BY <2>7
    <3>4. /\ IsFiniteSet(A \cup B)
          /\ Cardinality(A \cup B) = Cardinality(A) + Cardinality(B) - Cardinality(A \cap B)
      BY <3>3, FS_Union
    <3> QED BY <3>2, <3>4
  <2>9. g[s] = h[x] + g[r]
    BY <1>3, <2>1, <2>2
  <2>10. Cardinality(A) \in Nat /\ Cardinality(B) \in Nat
    BY <2>7, FS_CardinalityType
  <2>11. g[s] = b + Cardinality(A \cup B)
    BY <2>7, <2>8, <2>9, <2>10
  <2> QED BY <2>5, <2>6, <2>8, <2>11
<1>6. \A k \in Nat : k \in X
  <2> HIDE DEF X
  <2> QED BY <1>4, <1>5, SetInduction
<1>7. Right(S)
  <2>1. Cardinality(S) \in X
    <3> HIDE DEF X
    <3> QED BY <1>6, FS_CardinalityType
  <2> QED BY <2>1
<1>8. Summed(b, h, S) = g[S]
  BY <1>1 DEF Summed
<1> QED BY <1>7, <1>8

-----------------------------------------------------------------------------
(* Heights, and the units of the icicle tree *)

LEMMA BelowNodes ==
  ASSUME TreeInv, NEW n \in places
  PROVE  /\ n \in Below(n) /\ Below(n) \subseteq places /\ IsFiniteSet(Below(n))
         /\ n \in PlaceSet /\ Len(n) \in Nat
         /\ \A m \in Below(n) : /\ m \in PlaceSet /\ Len(m) \in Nat /\ Len(n) <= Len(m)
                                /\ IsPrefix(n, m)
<1>1. n \in PlaceSet /\ \A m \in places : m \in PlaceSet
  BY DEF TreeInv
<1>2. n \in Below(n)
  BY <1>1, PrefixOrder DEF Below, BelowIn
<1>3. Below(n) \subseteq places /\ \A m \in Below(n) : IsPrefix(n, m)
  BY DEF Below, BelowIn
<1>4. IsFiniteSet(Below(n))
  BY <1>3, FS_Subset DEF TreeInv
<1>5. \A m \in Below(n) : Len(m) \in Nat /\ Len(n) \in Nat /\ Len(n) <= Len(m)
  BY <1>1, <1>3, PrefixIs
<1> QED BY <1>1, <1>2, <1>3, <1>4, <1>5

LEMMA HeightIs ==
  ASSUME TreeInv, NEW n \in places
  PROVE  /\ HeightOf(n) \in Nat \ {0}
         /\ \E m \in Below(n) : HeightOf(n) = Len(m) - Len(n) + 1
         /\ \A m \in Below(n) : Len(m) - Len(n) + 1 <= HeightOf(n)
<1> DEFINE S == {Len(m) - Len(n) : m \in Below(n)}
           f == [m \in Below(n) |-> Len(m) - Len(n)]
<1>1. S \subseteq Nat /\ S # {}
  BY BelowNodes
<1>2. f \in Surjection(Below(n), S)
  BY DEF Surjection
<1>3. IsFiniteSet(S)
  <2> HIDE DEF S, f
  <2> QED BY <1>2, BelowNodes, FS_Surjection
<1>4. PICK g : g = GreatestOf(S)
  OBVIOUS
<1>5. g \in S /\ \A x \in S : x <= g
  <2> HIDE DEF S
  <2> QED BY <1>1, <1>3, <1>4, GreatestNumber
<1>6. HeightOf(n) = 1 + g
  BY <1>4 DEF HeightOf
<1>7. PICK m \in Below(n) : g = Len(m) - Len(n)
  BY <1>5
<1>8. \A k \in Below(n) : Len(k) - Len(n) <= g
  BY <1>5
<1>9. g \in Nat
  BY <1>1, <1>5
<1>10. \A k \in Below(n) : Len(k) \in Nat /\ Len(n) \in Nat
  BY BelowNodes
<1> QED BY <1>6, <1>7, <1>8, <1>9, <1>10

\* Further down, heights get smaller.
LEMMA HeightFalls ==
  ASSUME TreeInv, NEW n \in places, NEW m \in Below(n), m # n
  PROVE  HeightOf(m) < HeightOf(n)
<1>1. m \in places /\ m \in PlaceSet /\ n \in PlaceSet /\ IsPrefix(n, m)
  BY BelowNodes
<1>2. PICK w \in Below(m) : HeightOf(m) = Len(w) - Len(m) + 1
  BY <1>1, HeightIs
<1>3. w \in places /\ w \in PlaceSet /\ IsPrefix(m, w)
  BY <1>1, BelowNodes
<1>4. w \in Below(n)
  <2>1. IsPrefix(n, w)
    BY <1>1, <1>3, PrefixOrder
  <2> QED BY <1>3, <2>1 DEF Below, BelowIn
<1>5. Len(w) - Len(n) + 1 <= HeightOf(n)
  BY <1>4, HeightIs
<1>6. Len(n) < Len(m)
  BY <1>1, StepDown
<1>7. Len(n) \in Nat /\ Len(m) \in Nat /\ Len(w) \in Nat /\ HeightOf(n) \in Nat
  BY <1>1, <1>4, BelowNodes, HeightIs
<1> QED BY <1>2, <1>5, <1>6, <1>7

LEMMA KidBelow ==
  ASSUME TreeInv, NEW n \in places, NEW k \in KidsIn(places, n)
  PROVE  /\ k \in places /\ k \in PlaceSet /\ k \in Below(n) /\ k # n /\ Len(k) = Len(n) + 1
         /\ Below(k) \subseteq Below(n) \ {n}
<1>1. k \in places /\ n \in PlaceSet /\ k \in PlaceSet
  BY KidsAre DEF TreeInv
<1>2. PICK a \in Alternatives : k = Append(n, a)
  <2>1. k # <<>> /\ Front(k) = n
    BY DEF KidsIn, Root
  <2> QED BY <1>1, <2>1, FrontIs
<1>3. IsPrefix(n, k) /\ k # n /\ Len(k) = Len(n) + 1 /\ ~IsPrefix(k, n)
  BY <1>1, <1>2, AppendIs
<1>4. \A m \in Below(k) : m \in Below(n) /\ m # n
  <2>1. \A m \in Below(k) : m \in places /\ m \in PlaceSet /\ IsPrefix(k, m)
    BY <1>1, BelowNodes
  <2>2. \A m \in Below(k) : IsPrefix(n, m)
    BY <1>1, <1>3, <2>1, PrefixOrder
  <2> QED BY <1>3, <2>1, <2>2 DEF Below, BelowIn
<1> QED BY <1>1, <1>3, <1>4 DEF Below, BelowIn

\* Below a node is the node and what is below its children, which differs.
LEMMA BelowKids ==
  ASSUME TreeInv, NEW n \in places
  PROVE  /\ \A m \in Below(n) : m = n \/ \E k \in KidsIn(places, n) : m \in Below(k)
         /\ \A k, l \in KidsIn(places, n) : k # l => Below(k) \cap Below(l) = {}
<1>1. \A m \in Below(n) : m = n \/ \E k \in KidsIn(places, n) : m \in Below(k)
  <2> SUFFICES ASSUME NEW m \in Below(n), m # n
               PROVE  \E k \in KidsIn(places, n) : m \in Below(k)
    OBVIOUS
  <2>1. m \in places /\ IsPrefix(n, m)
    BY BelowNodes
  <2>2. PICK k \in KidsIn(places, n) : IsPrefix(k, m)
    BY <2>1, BelowIs
  <2> QED BY <2>1, <2>2 DEF Below, BelowIn
<1>2. ASSUME NEW k \in KidsIn(places, n), NEW l \in KidsIn(places, n), k # l,
             NEW m \in Below(k), m \in Below(l)
      PROVE  FALSE
  <2>1. /\ k \in places /\ k \in PlaceSet /\ Len(k) = Len(n) + 1
        /\ l \in places /\ l \in PlaceSet /\ Len(l) = Len(n) + 1
    BY KidBelow
  <2>2. m \in PlaceSet /\ IsPrefix(k, m) /\ IsPrefix(l, m)
    BY <1>2, <2>1, BelowNodes
  <2>3. Len(k) \in Nat /\ Len(n) \in Nat
    BY <2>1, BelowNodes
  <2>4. \A i \in 1 .. Len(k) : k[i] = m[i] /\ l[i] = m[i]
    <3>1. \A i \in 1 .. Len(k) : k[i] = m[i]
      BY <2>1, <2>2, PrefixIs
    <3>2. \A i \in 1 .. Len(l) : l[i] = m[i]
      BY <2>1, <2>2, PrefixIs
    <3> QED BY <2>1, <3>1, <3>2
  <2>5. k = l
    BY <2>1, <2>4, SamePlace
  <2> QED BY <1>2, <2>5
<1> QED BY <1>1, <1>2

LEMMA HeightFromKids ==
  ASSUME TreeInv, NEW n \in places, NEW before,
         \A k \in KidsIn(places, n) : before[k] = HeightOf(k)
  PROVE  Generation(before, n) = HeightOf(n)
<1>1. PICK h : h = HeightOf(n)
  OBVIOUS
<1>2. h \in Nat \ {0}
  BY <1>1, HeightIs
<1>3. CASE IsLeaf(n)
  <2>1. PICK m \in Below(n) : h = Len(m) - Len(n) + 1
    BY <1>1, HeightIs
  <2>2. m = n
    BY <1>3, BelowKids DEF IsLeaf
  <2>3. h = 1
    BY <2>1, <2>2, BelowNodes
  <2> QED BY <1>1, <1>3, <2>3 DEF Generation
<1>4. CASE ~IsLeaf(n)
  <2> DEFINE S == {before[k] : k \in KidsIn(places, n)}
             f == [k \in KidsIn(places, n) |-> before[k]]
  <2>1. S \subseteq Nat /\ S # {}
    <3>1. \A k \in KidsIn(places, n) : before[k] \in Nat
      BY KidBelow, HeightIs
    <3> QED BY <1>4, <3>1 DEF IsLeaf
  <2>2. f \in Surjection(KidsIn(places, n), S)
    BY DEF Surjection
  <2>3. IsFiniteSet(S)
    <3> HIDE DEF S, f
    <3> QED BY <2>2, KidsAre, FS_Surjection
  <2>4. PICK g : g = GreatestOf(S)
    OBVIOUS
  <2>5. g \in S /\ \A x \in S : x <= g
    <3> HIDE DEF S
    <3> QED BY <2>1, <2>3, <2>4, GreatestNumber
  <2>6. PICK k \in KidsIn(places, n) : g = HeightOf(k)
    BY <2>5
  <2>7. \A l \in KidsIn(places, n) : HeightOf(l) <= g
    BY <2>5
  <2>8. Generation(before, n) = 1 + g
    BY <1>4, <2>4 DEF Generation
  <2>9. g \in Nat /\ Len(n) \in Nat /\ k \in places /\ Len(k) = Len(n) + 1
    BY <2>6, KidBelow, HeightIs, BelowNodes
  <2>10. 1 + g <= h
    <3>1. g < h
      BY <1>1, <2>6, KidBelow, HeightFalls
    <3> QED BY <1>2, <2>9, <3>1
  <2>11. h <= 1 + g
    <3>1. PICK m \in Below(n) : h = Len(m) - Len(n) + 1
      BY <1>1, HeightIs
    <3>2. CASE m = n
      BY <2>9, <3>1, <3>2
    <3>3. CASE m # n
      <4>1. PICK l \in KidsIn(places, n) : m \in Below(l)
        BY <3>3, BelowKids
      <4>2. l \in places /\ Len(l) = Len(n) + 1
        BY KidBelow
      <4>3. Len(m) - Len(l) + 1 <= HeightOf(l) /\ HeightOf(l) \in Nat /\ Len(m) \in Nat
        BY <4>1, <4>2, HeightIs, BelowNodes
      <4> QED BY <2>7, <2>9, <3>1, <4>2, <4>3
    <3> QED BY <3>2, <3>3
  <2> QED BY <1>1, <1>2, <2>8, <2>9, <2>10, <2>11
<1> QED BY <1>3, <1>4

\* The subtrees of height c below n.
Units(n, c) == {m \in Below(n) : HeightOf(m) = c}

LEMMA UnitsAre ==
  ASSUME TreeInv, NEW n \in places, NEW c \in Nat
  PROVE  /\ IsFiniteSet(Units(n, c)) /\ Cardinality(Units(n, c)) \in Nat
         /\ HeightOf(n) = c => Units(n, c) = {n}
         /\ HeightOf(n) < c => Units(n, c) = {}
         /\ HeightOf(n) > c =>
              Units(n, c) = UNION {Units(k, c) : k \in KidsIn(places, n)}
<1>1. IsFiniteSet(Units(n, c)) /\ Cardinality(Units(n, c)) \in Nat
  <2>1. Units(n, c) \subseteq Below(n)
    BY DEF Units
  <2> QED BY <2>1, BelowNodes, FS_Subset, FS_CardinalityType
<1>2. \A m \in Below(n) : /\ HeightOf(m) \in Nat /\ HeightOf(n) \in Nat
                          /\ m # n => HeightOf(m) < HeightOf(n)
  BY BelowNodes, HeightFalls, HeightIs
<1>3. HeightOf(n) = c => Units(n, c) = {n}
  <2>1. HeightOf(n) = c => \A m \in Below(n) : HeightOf(m) = c => m = n
    BY <1>2
  <2> QED BY <2>1, BelowNodes DEF Units
<1>4. HeightOf(n) < c => Units(n, c) = {}
  <2>1. HeightOf(n) < c => \A m \in Below(n) : HeightOf(m) # c
    BY <1>2
  <2> QED BY <2>1 DEF Units
<1>5. HeightOf(n) > c => Units(n, c) = UNION {Units(k, c) : k \in KidsIn(places, n)}
  <2> SUFFICES ASSUME HeightOf(n) > c
               PROVE  Units(n, c) = UNION {Units(k, c) : k \in KidsIn(places, n)}
    OBVIOUS
  <2>1. \A m \in Units(n, c) : \E k \in KidsIn(places, n) : m \in Units(k, c)
    <3>1. HeightOf(n) # c
      BY HeightIs
    <3> QED BY <3>1, BelowKids DEF Units
  <2>2. \A k \in KidsIn(places, n) : Units(k, c) \subseteq Units(n, c)
    BY KidBelow DEF Units
  <2> QED BY <2>1, <2>2
<1> QED BY <1>1, <1>3, <1>4, <1>5

\* The width of a node is the number of the units below it, if that of its
\* children is.
LEMMA WidthFromKids ==
  ASSUME TreeInv, NEW n \in places, NEW c \in Nat, NEW before,
         \A k \in KidsIn(places, n) : before[k] = Cardinality(Units(k, c))
  PROVE  WidthFrom(before, HeightOf(n), c, n) = Cardinality(Units(n, c))
<1>1. HeightOf(n) \in Nat
  BY HeightIs
<1>2. CASE HeightOf(n) = c
  BY <1>2, UnitsAre, FS_Singleton DEF WidthFrom
<1>3. CASE HeightOf(n) < c
  <2>1. Cardinality(Units(n, c)) = 0
    BY <1>3, UnitsAre, FS_EmptySet
  <2>2. HeightOf(n) # c
    BY <1>1, <1>3
  <2>3. WidthFrom(before, HeightOf(n), c, n) = 0
    BY <1>3, <2>2, Zenon DEF WidthFrom
  <2> QED BY <2>1, <2>3
<1>4. CASE HeightOf(n) > c
  <2> DEFINE K == KidsIn(places, n)
             U == [k \in K |-> Units(k, c)]
  <2>1. WidthFrom(before, HeightOf(n), c, n) = Summed(0, before, K)
    <3>1. WidthFrom(before, HeightOf(n), c, n) = FoldSet(LAMBDA k, sum : before[k] + sum, 0, K)
      <4>1. HeightOf(n) # c /\ ~(HeightOf(n) < c)
        BY <1>1, <1>4
      <4> QED BY <4>1, Zenon DEF WidthFrom
    <3>2. FoldSet(LAMBDA k, sum : before[k] + sum, 0, K) = Summed(0, before, K)
      BY DEF FoldSet, MapThenFoldSet, Summed, SumSteps, Picked
    <3> QED BY <3>1, <3>2
  <2>2. IsFiniteSet(K) /\ K \subseteq places
    BY KidsAre
  <2>3. \A k \in K : U[k] = Units(k, c)
    OBVIOUS
  <2>4. \A k \in K : IsFiniteSet(U[k]) /\ before[k] = Cardinality(U[k])
    BY <2>2, UnitsAre
  <2>5. \A k, l \in K : k # l => U[k] \cap U[l] = {}
    BY BelowKids DEF Units
  <2>6. UNION {U[k] : k \in K} = Units(n, c)
    BY <1>4, UnitsAre
  <2> HIDE DEF K, U
  <2>7. Summed(0, before, K) = 0 + Cardinality(UNION {U[k] : k \in K})
    BY <2>2, <2>4, <2>5, SumIs
  <2>8. Cardinality(Units(n, c)) \in Nat
    BY UnitsAre
  <2> QED BY <2>1, <2>6, <2>7, <2>8
<1> QED BY <1>1, <1>2, <1>3, <1>4

-----------------------------------------------------------------------------
(* The nodes in postorder *)

PostKids(n) == [i \in 1 .. KidCount(n) |-> Kid(n, i)]

LEMMA PostKidsOnce ==
  ASSUME TreeInv, NEW n \in places
  PROVE  /\ Once(PostKids(n), KidsIn(places, n)) /\ Len(PostKids(n)) = KidCount(n)
         /\ \A i \in 1 .. KidCount(n) : PostKids(n)[i] = Append(n, i) /\ i \in Alternatives
<1>1. PICK c, s : c = KidCount(n) /\ s = PostKids(n)
  OBVIOUS
<1>2. /\ c \in Nat /\ n \in PlaceSet
      /\ KidsIn(places, n) = {Append(n, a) : a \in 1 .. c}
      /\ \A a \in 1 .. c : a \in Alternatives
  BY <1>1, KidsAre DEF Has, Kid, TreeInv, Alternatives
<1>3. s = [i \in 1 .. c |-> Append(n, i)]
  BY <1>1 DEF PostKids, Kid
<1>4. s \in Seq(KidsIn(places, n)) /\ Len(s) = c /\ \A i \in 1 .. c : s[i] = Append(n, i)
  <2>1. \A i \in 1 .. c : s[i] = Append(n, i) /\ s[i] \in KidsIn(places, n)
    BY <1>2, <1>3
  <2> QED BY <1>2, <1>3, <2>1
<1>5. \A x \in KidsIn(places, n) : \E i \in 1 .. Len(s) : s[i] = x
  BY <1>2, <1>4
<1>6. ASSUME NEW i \in 1 .. Len(s), NEW j \in 1 .. Len(s), s[i] = s[j] PROVE i = j
  <2>1. Append(n, i) = Append(n, j) /\ i \in Alternatives /\ j \in Alternatives
    BY <1>2, <1>4, <1>6
  <2> QED BY <1>2, <2>1, AppendSame
<1> QED BY <1>1, <1>2, <1>4, <1>5, <1>6 DEF Once

NotBelow == {r \in places \X places : r[1] # r[2] /\ ~IsPrefix(r[2], r[1])}

LEMMA PostWalkOrder ==
  ASSUME TreeInv
  PROVE  WalkOrder([n \in places |-> PostKids(n)], NotBelow)
<1>1. \A x, y \in places : <<x, y>> \in NotBelow <=> x # y /\ ~IsPrefix(y, x)
  BY DEF NotBelow
<1>2. ASSUME NEW n \in places, NEW i \in 1 .. Len(PostKids(n)), NEW j \in 1 .. Len(PostKids(n)),
             i < j, NEW x \in places, NEW y \in places,
             IsPrefix(PostKids(n)[j], x), IsPrefix(PostKids(n)[i], y)
      PROVE  x # y /\ ~IsPrefix(y, x)
  <2>1. PICK k, l : k = PostKids(n)[j] /\ l = PostKids(n)[i]
    OBVIOUS
  <2>2. k \in KidsIn(places, n) /\ l \in KidsIn(places, n) /\ k # l
    BY <1>2, <2>1, PostKidsOnce, ElementOfSeq DEF Once
  <2>3. x \in Below(k) /\ y \in Below(l)
    BY <1>2, <2>1 DEF Below, BelowIn
  <2>4. y \in places /\ l \in places
    BY <2>2, KidBelow
  <2>5. IsPrefix(y, x) => x \in Below(l)
    <3>1. /\ IsPrefix(l, y)
          /\ l \in PlaceSet /\ y \in PlaceSet /\ x \in PlaceSet
      BY <2>3, <2>4, BelowNodes DEF TreeInv
    <3> QED BY <3>1, PrefixOrder DEF Below, BelowIn
  <2> QED BY <2>2, <2>3, <2>5, BelowKids
<1>3. \A x, y \in places : IsStrictPrefix(x, y) => x # y /\ ~IsPrefix(y, x)
  BY PrefixOrder DEF IsStrictPrefix, TreeInv
<1> QED BY <1>1, <1>2, <1>3 DEF WalkOrder

PostStep(before) ==
  LET top == Last(before.stack)
  IN [seq |-> Append(before.seq, top),
      stack |-> Front(before.stack) \o [i \in 1 .. KidCount(top) |-> Kid(top, i)]]

PostWalk(c, f) ==
  f = [k \in 0 .. c |-> IF k = 0 THEN [seq |-> <<>>, stack |-> <<Root>>] ELSE PostStep(f[k - 1])]

\* The function PostOrder recurses with exists.
LEMMA PostWalkExists ==
  ASSUME NEW c \in Nat
  PROVE  \E f : PostWalk(c, f)
<1> DEFINE none == [seq |-> <<>>, stack |-> <<Root>>]
           S == {i \in Nat : \E f : PostWalk(i, f)}
<1>1. 0 \in S
  <2> DEFINE f == [i \in 0 .. 0 |-> none]
  <2>1. f = [i \in 0 .. 0 |-> IF i = 0 THEN none ELSE PostStep(f[i - 1])]
    OBVIOUS
  <2>2. PostWalk(0, f)
    <3> HIDE DEF f
    <3> QED BY <2>1 DEF PostWalk
  <2> QED BY <2>2
<1>2. ASSUME NEW i \in Nat, i \in S PROVE i + 1 \in S
  <2>1. PICK f : PostWalk(i, f)
    BY <1>2
  <2> DEFINE new == PostStep(f[i])
             g == [j \in 0 .. i + 1 |-> IF j = i + 1 THEN new ELSE f[j]]
  <2> HIDE DEF none
  <2>2. \A j \in 0 .. i : f[j] = IF j = 0 THEN none ELSE PostStep(f[j - 1])
    BY <2>1 DEF PostWalk, none
  <2>3. \A j \in 0 .. i : g[j] = f[j]
    OBVIOUS
  <2>4. \A j \in 0 .. i + 1 : g[j] = IF j = 0 THEN none ELSE PostStep(g[j - 1])
    <3> SUFFICES ASSUME NEW j \in 0 .. i + 1
                 PROVE  g[j] = IF j = 0 THEN none ELSE PostStep(g[j - 1])
      OBVIOUS
    <3>1. CASE j = i + 1
      <4>1. g[j] = new /\ j - 1 = i /\ g[i] = f[i] /\ j # 0
        BY <2>3, <3>1
      <4> QED BY <3>1, <4>1
    <3>2. CASE j # i + 1
      <4>1. j \in 0 .. i /\ g[j] = f[j] /\ (j # 0 => j - 1 \in 0 .. i)
        BY <2>3, <3>2
      <4>2. j # 0 => g[j - 1] = f[j - 1]
        BY <2>3, <4>1
      <4> HIDE DEF g
      <4> QED BY <2>2, <4>1, <4>2
    <3> QED BY <3>1, <3>2
  <2>5. g = [j \in 0 .. i + 1 |-> IF j = 0 THEN none ELSE PostStep(g[j - 1])]
    <3>1. g = [j \in 0 .. i + 1 |-> g[j]]
      OBVIOUS
    <3> HIDE DEF g
    <3> QED BY <2>4, <3>1
  <2>6. PostWalk(i + 1, g)
    <3> HIDE DEF g
    <3> QED BY <2>5 DEF PostWalk, none
  <2> QED BY <2>6
<1>3. \A i \in Nat : i \in S
  <2> HIDE DEF S
  <2> QED BY <1>1, <1>2, SetInduction
<1> QED BY <1>3

PostWalkOf == CHOOSE f : PostWalk(Cardinality(places), f)

LEMMA PostOrderIs ==
  ASSUME NEW c \in Nat, c = Cardinality(places)
  PROVE  /\ PostOrder = Reverse(PostWalkOf[c].seq)
         /\ PostWalkOf[0].seq = <<>> /\ PostWalkOf[0].stack = <<Root>>
         /\ \A k \in 1 .. c : PostWalkOf[k] = PostStep(PostWalkOf[k - 1])
<1>1. PostWalk(c, PostWalkOf)
  BY PostWalkExists DEF PostWalkOf
<1>2. PostOrder = Reverse(PostWalkOf[c].seq)
  BY DEF PostOrder, PostWalkOf, PostWalk, PostStep
<1>3. \A k \in 0 .. c : PostWalkOf[k] = IF k = 0 THEN [seq |-> <<>>, stack |-> <<Root>>]
                                         ELSE PostStep(PostWalkOf[k - 1])
  BY <1>1 DEF PostWalk
<1> QED BY <1>2, <1>3

\* Every node comes after its children.
KidsFirst(order) ==
  \A i \in 1 .. Len(order) : \A k \in KidsIn(places, order[i]) :
    \E j \in 1 .. i - 1 : order[j] = k

LEMMA Postordered ==
  ASSUME TreeInv, NEW order, order = PostOrder
  PROVE  /\ Len(order) \in Nat \ {0}
         /\ \A i \in 1 .. Len(order) : order[i] \in places
         /\ \A n \in places : \E i \in 1 .. Len(order) : order[i] = n
         /\ KidsFirst(order)
<1>1. PICK c : c = Cardinality(places)
  OBVIOUS
<1>2. c \in Nat
  BY <1>1, FS_CardinalityType DEF TreeInv
<1>3. PICK f : f = PostWalkOf
  OBVIOUS
<1>4. /\ PostOrder = Reverse(f[c].seq) /\ f[0].seq = <<>> /\ f[0].stack = <<Root>>
      /\ \A k \in 1 .. c : f[k] = PostStep(f[k - 1])
  BY <1>1, <1>2, <1>3, PostOrderIs
<1> DEFINE stacks == [k \in 0 .. c |-> f[k].stack]
           v == [k \in 1 .. c |-> Last(f[k - 1].stack)]
           kids == [n \in places |-> PostKids(n)]
<1>5. \A k \in 1 .. c : /\ f[k].seq = Append(f[k - 1].seq, v[k])
                        /\ f[k].stack = Front(f[k - 1].stack) \o PostKids(v[k])
  <2> SUFFICES ASSUME NEW k \in 1 .. c
               PROVE  /\ f[k].seq = Append(f[k - 1].seq, v[k])
                      /\ f[k].stack = Front(f[k - 1].stack) \o PostKids(v[k])
    OBVIOUS
  <2>1. v[k] = Last(f[k - 1].stack)
    OBVIOUS
  <2> HIDE DEF v
  <2>2. f[k] = PostStep(f[k - 1])
    BY <1>4
  <2>3. PostStep(f[k - 1]) = [seq |-> Append(f[k - 1].seq, v[k]),
                              stack |-> Front(f[k - 1].stack) \o PostKids(v[k])]
    BY <2>1 DEF PostStep, PostKids
  <2> QED BY <2>2, <2>3
<1>6. WalkOrder(kids, NotBelow)
  BY PostWalkOrder
<1>7. \A n \in places : kids[n] = PostKids(n) /\ Once(kids[n], KidsIn(places, n))
  BY PostKidsOnce
<1> HIDE DEF kids
<1>8. Walk(stacks, v, kids)
  <2>1. stacks[0] = <<Root>>
    BY <1>2, <1>4
  <2>2. ASSUME NEW k \in 1 .. c
        PROVE  /\ v[k] = Last(stacks[k - 1])
               /\ v[k] \in places => stacks[k] = Front(stacks[k - 1]) \o kids[v[k]]
    <3>1. /\ v[k] = Last(f[k - 1].stack) /\ stacks[k - 1] = f[k - 1].stack
          /\ stacks[k] = f[k].stack
      BY <1>2
    <3> HIDE DEF stacks, v
    <3>2. f[k].stack = Front(f[k - 1].stack) \o PostKids(v[k])
      BY <1>5
    <3> QED BY <1>7, <3>1, <3>2
  <2> HIDE DEF stacks, v
  <2> QED BY <1>1, <1>7, <2>1, <2>2 DEF Walk
<1> HIDE DEF stacks, v
<1>9. /\ c \in Nat \ {0}
      /\ \A i \in 1 .. c : v[i] \in places
      /\ \A p \in places : \E i \in 1 .. c : v[i] = p
      /\ \A i, j \in 1 .. c : i < j => <<v[i], v[j]>> \in NotBelow
  BY <1>1, <1>6, <1>8, WalkIs
<1> DEFINE Upto(k) == /\ f[k].seq \in Seq(places) /\ Len(f[k].seq) = k
                      /\ \A i \in 1 .. k : f[k].seq[i] = v[i]
           X == {k \in Nat : k <= c => Upto(k)}
<1>10. 0 \in X
  <2>1. f[0].seq = <<>> /\ 1 .. 0 = {}
    BY <1>4
  <2> QED BY <2>1, EmptySeq
<1>11. ASSUME NEW k \in Nat, k \in X PROVE k + 1 \in X
  <2> SUFFICES ASSUME k + 1 <= c PROVE Upto(k + 1)
    OBVIOUS
  <2>1. k + 1 \in 1 .. c /\ k + 1 - 1 = k /\ k <= c
    BY <1>2
  <2>2. PICK s, t, e : s = f[k].seq /\ t = f[k + 1].seq /\ e = v[k + 1]
    OBVIOUS
  <2>3. e \in places
    BY <1>9, <2>1, <2>2
  <2>4. s \in Seq(places) /\ Len(s) = k /\ \A i \in 1 .. k : s[i] = v[i]
    BY <1>11, <2>1, <2>2
  <2>5. t = Append(s, e)
    <3>1. PICK j : j = k + 1
      OBVIOUS
    <3>2. f[j].seq = Append(f[j - 1].seq, v[j]) /\ j - 1 = k
      BY <1>5, <2>1, <3>1
    <3> QED BY <2>2, <3>1, <3>2
  <2>6. /\ t \in Seq(places) /\ Len(t) = k + 1 /\ t[k + 1] = e
        /\ \A i \in 1 .. k : t[i] = s[i]
    BY <2>3, <2>4, <2>5, AppendProperties
  <2>7. \A i \in 1 .. k + 1 : t[i] = v[i]
    <3>1. \A i \in 1 .. k + 1 : i \in 1 .. k \/ i = k + 1
      OBVIOUS
    <3> QED BY <2>2, <2>4, <2>6, <3>1
  <2> QED BY <2>2, <2>6, <2>7
<1>12. \A k \in Nat : k \in X
  <2> HIDE DEF X
  <2> QED BY <1>10, <1>11, SetInduction
<1>13. Upto(c)
  <2> HIDE DEF Upto
  <2>1. c \in X /\ c <= c
    BY <1>2, <1>12
  <2> QED BY <2>1
<1>14. PICK s : s = f[c].seq
  OBVIOUS
<1>15. s \in Seq(places) /\ Len(s) = c /\ \A i \in 1 .. c : s[i] = v[i]
  BY <1>13, <1>14
<1>16. order = [i \in 1 .. c |-> s[c - i + 1]]
  BY <1>4, <1>14, <1>15 DEF Reverse
<1>17. Len(order) = c /\ \A i \in 1 .. c : c - i + 1 \in 1 .. c /\ order[i] = v[c - i + 1]
  BY <1>2, <1>15, <1>16
<1>18. \A n \in places : \E i \in 1 .. c : order[i] = n
  <2> SUFFICES ASSUME NEW n \in places PROVE \E i \in 1 .. c : order[i] = n
    OBVIOUS
  <2>1. PICK i \in 1 .. c : v[i] = n
    BY <1>9
  <2>2. c - i + 1 \in 1 .. c /\ c - (c - i + 1) + 1 = i
    BY <1>2
  <2> QED BY <1>17, <2>1, <2>2
<1>19. ASSUME NEW i \in 1 .. c, NEW k \in KidsIn(places, order[i])
       PROVE  \E j \in 1 .. i - 1 : order[j] = k
  <2>1. order[i] \in places
    BY <1>9, <1>17
  <2>2. PICK n : n = order[i]
    OBVIOUS
  <2>3. k \in places /\ IsPrefix(n, k) /\ k # n
    BY <2>1, <2>2, KidBelow, BelowNodes
  <2>4. PICK j \in 1 .. c : order[j] = k
    BY <1>18, <2>3
  <2>5. j < i
    <3> SUFFICES ASSUME i < j PROVE FALSE
      BY <1>2, <2>2, <2>3, <2>4
    <3>1. PICK a, b : a = c - j + 1 /\ b = c - i + 1
      OBVIOUS
    <3>2. a \in 1 .. c /\ b \in 1 .. c /\ a < b /\ v[a] = k /\ v[b] = n
      BY <1>2, <1>17, <2>2, <2>4, <3>1
    <3>3. <<k, n>> \in NotBelow
      BY <1>9, <3>2
    <3> QED BY <2>3, <3>3 DEF NotBelow
  <2> QED BY <1>2, <2>4, <2>5
<1>20. KidsFirst(order)
  BY <1>17, <1>19 DEF KidsFirst
<1> QED BY <1>9, <1>17, <1>18, <1>20

-----------------------------------------------------------------------------
(* The widths of the icicle tree *)

\* What a layout has written after the first i nodes, where it finds T.
Written(order, T, i) ==
  [n \in places |-> IF \E j \in 1 .. i : order[j] = n THEN T[n] ELSE 0]

\* val finds T at a node when T has been found at its children.
Finds(val, T) ==
  \A n \in places : \A d \in [places -> Nat] :
    (\A k \in KidsIn(places, n) : d[k] = T[k]) => val[n][d] = T[n]

Wrote(d, n, x) == [d EXCEPT ![n] = x]

\* A layout in the order, by val.
Lays(order, val, g) ==
  /\ g[0] = [n \in places |-> 0]
  /\ \A i \in 1 .. Len(order) : g[i - 1] \in [places -> Nat] =>
       g[i] = Wrote(g[i - 1], order[i], val[order[i]][g[i - 1]])

LEMMA WrittenOn ==
  ASSUME TreeInv, NEW order, order = PostOrder, NEW T \in [places -> Nat],
         NEW val, Finds(val, T), NEW i \in 1 .. Len(order), NEW d, d = Written(order, T, i - 1)
  PROVE  /\ d \in [places -> Nat]
         /\ Written(order, T, i) = Wrote(d, order[i], val[order[i]][d])
<1>1. d \in [places -> Nat]
  BY DEF Written
<1>2. PICK n : n = order[i]
  OBVIOUS
<1>3. n \in places /\ Len(order) \in Nat
  BY <1>2, Postordered
<1>4. \A k \in KidsIn(places, n) : d[k] = T[k]
  <2> SUFFICES ASSUME NEW k \in KidsIn(places, n) PROVE d[k] = T[k]
    OBVIOUS
  <2>1. \E j \in 1 .. i - 1 : order[j] = k
    <3>1. k \in KidsIn(places, order[i])
      BY <1>2
    <3>2. KidsFirst(order)
      BY Postordered
    <3> QED BY <3>1, <3>2 DEF KidsFirst
  <2>2. k \in places
    BY <1>3, KidBelow
  <2> QED BY <2>1, <2>2 DEF Written
<1>5. val[n][d] = T[n]
  BY <1>1, <1>3, <1>4 DEF Finds
<1>6. \A m \in places : Written(order, T, i)[m] = IF m = n THEN T[n] ELSE d[m]
  <2>1. \A m \in places : (\E j \in 1 .. i : order[j] = m)
                            <=> m = n \/ \E j \in 1 .. i - 1 : order[j] = m
    <3>1. \A j \in 1 .. i : j = i \/ j \in 1 .. i - 1
      BY <1>3
    <3>2. i \in 1 .. i /\ 1 .. i - 1 \subseteq 1 .. i
      BY <1>3
    <3> QED BY <1>2, <3>1, <3>2
  <2> QED BY <1>3, <2>1 DEF Written
<1>7. DOMAIN Written(order, T, i) = places /\ Written(order, T, i) = [m \in places |-> Written(order, T, i)[m]]
  BY DEF Written
<1>8. Written(order, T, i) = [d EXCEPT ![n] = T[n]]
  BY <1>1, <1>3, <1>6, <1>7
<1> QED BY <1>1, <1>2, <1>5, <1>8 DEF Wrote

\* A layout in postorder that finds T at a node when it has found it at the
\* children finds T.
LEMMA InPostorder ==
  ASSUME TreeInv, NEW order, order = PostOrder, NEW T \in [places -> Nat],
         NEW val, Finds(val, T), NEW g, Lays(order, val, g)
  PROVE  g[Len(order)] = T
<1>1. Len(order) \in Nat
  BY Postordered
<1> DEFINE X == {i \in Nat : i <= Len(order) => g[i] = Written(order, T, i)}
<1>2. 0 \in X
  <2>1. Written(order, T, 0) = [n \in places |-> 0]
    <3>1. 1 .. 0 = {}
      OBVIOUS
    <3> QED BY <3>1 DEF Written
  <2> QED BY <2>1 DEF Lays
<1>3. ASSUME NEW i \in Nat, i \in X PROVE i + 1 \in X
  <2> SUFFICES ASSUME i + 1 <= Len(order) PROVE g[i + 1] = Written(order, T, i + 1)
    OBVIOUS
  <2>1. PICK j : j = i + 1
    OBVIOUS
  <2>2. j \in 1 .. Len(order) /\ j - 1 = i /\ i <= Len(order)
    BY <1>1, <2>1
  <2>3. PICK d : d = Written(order, T, j - 1)
    OBVIOUS
  <2>4. g[j - 1] = d
    BY <1>3, <2>2, <2>3
  <2>5. /\ d \in [places -> Nat]
        /\ Written(order, T, j) = Wrote(d, order[j], val[order[j]][d])
    BY <2>2, <2>3, WrittenOn
  <2>6. g[j] = Wrote(g[j - 1], order[j], val[order[j]][g[j - 1]])
    BY <2>2, <2>4, <2>5 DEF Lays
  <2> QED BY <2>1, <2>4, <2>5, <2>6
<1>4. \A i \in Nat : i \in X
  <2> HIDE DEF X
  <2> QED BY <1>2, <1>3, SetInduction
<1>5. g[Len(order)] = Written(order, T, Len(order))
  BY <1>1, <1>4
<1>6. Written(order, T, Len(order)) = T
  <2>1. \A n \in places : \E j \in 1 .. Len(order) : order[j] = n
    BY Postordered
  <2> QED BY <2>1 DEF Written
<1> QED BY <1>5, <1>6

GenSteps(order, f) ==
  f = [i \in 0 .. Len(order) |->
         IF i = 0 THEN [n \in places |-> 0]
         ELSE [f[i - 1] EXCEPT ![order[i]] = Generation(f[i - 1], order[i])]]

WidthSteps(order, gen, c, f) ==
  f = [i \in 0 .. Len(order) |->
         IF i = 0 THEN [n \in places |-> 0]
         ELSE [f[i - 1] EXCEPT ![order[i]] = WidthFrom(f[i - 1], gen[order[i]], c, order[i])]]

Generations == LET f == CHOOSE f : GenSteps(PostOrder, f) IN f[Len(PostOrder)]
Widths(gen, c) == LET f == CHOOSE f : WidthSteps(PostOrder, gen, c, f) IN f[Len(PostOrder)]

LEMMA GenerationsAre ==
  ASSUME TreeInv
  PROVE  Generations = [n \in places |-> HeightOf(n)]
<1> DEFINE T == [n \in places |-> HeightOf(n)]
           val == [n \in places |-> [d \in [places -> Nat] |-> Generation(d, n)]]
<1>1. PICK order : order = PostOrder
  OBVIOUS
<1>2. Len(order) \in Nat /\ \A i \in 1 .. Len(order) : order[i] \in places
  BY <1>1, Postordered
<1>3. T \in [places -> Nat] /\ \A n \in places : T[n] = HeightOf(n)
  BY HeightIs
<1>4. \A n \in places, d \in [places -> Nat] : val[n][d] = Generation(d, n)
  OBVIOUS
<1> HIDE DEF T, val
<1>5. Finds(val, T)
  <2> SUFFICES ASSUME NEW n \in places, NEW d \in [places -> Nat],
                      \A k \in KidsIn(places, n) : d[k] = T[k]
               PROVE  val[n][d] = T[n]
    BY DEF Finds
  <2>1. \A k \in KidsIn(places, n) : d[k] = HeightOf(k)
    BY <1>3, KidBelow
  <2>2. Generation(d, n) = HeightOf(n)
    BY <2>1, HeightFromKids
  <2> QED BY <1>3, <1>4, <2>2
<1>6. \E f : GenSteps(order, f)
  <2> DEFINE f == [i \in 0 .. Len(order) |-> Written(order, T, i)]
  <2>1. f[0] = [n \in places |-> 0]
    <3>1. 1 .. 0 = {} /\ 0 \in 0 .. Len(order)
      BY <1>2
    <3> QED BY <3>1 DEF Written
  <2>2. ASSUME NEW i \in 1 .. Len(order)
        PROVE  f[i] = [f[i - 1] EXCEPT ![order[i]] = Generation(f[i - 1], order[i])]
    <3>1. PICK d : d = Written(order, T, i - 1)
      OBVIOUS
    <3>2. f[i] = Written(order, T, i) /\ f[i - 1] = d
      BY <1>2, <3>1
    <3>3. d \in [places -> Nat] /\ f[i] = Wrote(d, order[i], val[order[i]][d])
      BY <1>1, <1>3, <1>5, <3>1, <3>2, WrittenOn
    <3> HIDE DEF f
    <3> QED BY <1>2, <1>4, <3>2, <3>3 DEF Wrote
  <2>3. f = [i \in 0 .. Len(order) |-> f[i]]
    OBVIOUS
  <2> HIDE DEF f
  <2>4. \A i \in 0 .. Len(order) : i = 0 \/ i \in 1 .. Len(order)
    BY <1>2
  <2>5. GenSteps(order, f)
    BY <2>1, <2>2, <2>3, <2>4 DEF GenSteps
  <2> QED BY <2>5
<1>7. PICK g : g = CHOOSE f : GenSteps(order, f)
  OBVIOUS
<1>8. GenSteps(order, g)
  BY <1>6, <1>7
<1>9. g[0] = [n \in places |-> 0]
  <2>1. 0 \in 0 .. Len(order)
    BY <1>2
  <2> QED BY <1>8, <2>1 DEF GenSteps
<1>10. ASSUME NEW i \in 1 .. Len(order), g[i - 1] \in [places -> Nat]
       PROVE  g[i] = Wrote(g[i - 1], order[i], val[order[i]][g[i - 1]])
  <2>1. PICK d : d = g[i - 1]
    OBVIOUS
  <2>2. i \in 0 .. Len(order) /\ i # 0
    BY <1>2
  <2>3. g[i] = [d EXCEPT ![order[i]] = Generation(d, order[i])]
    BY <1>8, <2>1, <2>2 DEF GenSteps
  <2>4. val[order[i]][d] = Generation(d, order[i])
    BY <1>2, <1>4, <1>10, <2>1
  <2> QED BY <2>1, <2>3, <2>4 DEF Wrote
<1>11. g[Len(order)] = T
  <2>1. Lays(order, val, g)
    BY <1>9, <1>10 DEF Lays
  <2> QED BY <1>1, <1>3, <1>5, <2>1, InPostorder
<1> QED BY <1>1, <1>7, <1>11 DEF Generations, T

LEMMA WidthsAre ==
  ASSUME TreeInv, NEW c \in Nat, NEW gen, gen = [n \in places |-> HeightOf(n)]
  PROVE  Widths(gen, c) = [n \in places |-> Cardinality(Units(n, c))]
<1> DEFINE T == [n \in places |-> Cardinality(Units(n, c))]
           val == [n \in places |-> [d \in [places -> Nat] |-> WidthFrom(d, gen[n], c, n)]]
<1>1. PICK order : order = PostOrder
  OBVIOUS
<1>2. Len(order) \in Nat /\ \A i \in 1 .. Len(order) : order[i] \in places
  BY <1>1, Postordered
<1>3. T \in [places -> Nat] /\ \A n \in places : T[n] = Cardinality(Units(n, c))
  BY UnitsAre
<1>4. \A n \in places, d \in [places -> Nat] : val[n][d] = WidthFrom(d, gen[n], c, n)
  OBVIOUS
<1> HIDE DEF T, val
<1>5. Finds(val, T)
  <2> SUFFICES ASSUME NEW n \in places, NEW d \in [places -> Nat],
                      \A k \in KidsIn(places, n) : d[k] = T[k]
               PROVE  val[n][d] = T[n]
    BY DEF Finds
  <2>1. \A k \in KidsIn(places, n) : d[k] = Cardinality(Units(k, c))
    BY <1>3, KidBelow
  <2>2. WidthFrom(d, HeightOf(n), c, n) = Cardinality(Units(n, c))
    BY <2>1, WidthFromKids
  <2> QED BY <1>3, <1>4, <2>2
<1>6. \E f : WidthSteps(order, gen, c, f)
  <2> DEFINE f == [i \in 0 .. Len(order) |-> Written(order, T, i)]
  <2>1. f[0] = [n \in places |-> 0]
    <3>1. 1 .. 0 = {} /\ 0 \in 0 .. Len(order)
      BY <1>2
    <3> QED BY <3>1 DEF Written
  <2>2. ASSUME NEW i \in 1 .. Len(order)
        PROVE  f[i] = [f[i - 1] EXCEPT ![order[i]] =
                         WidthFrom(f[i - 1], gen[order[i]], c, order[i])]
    <3>1. PICK d : d = Written(order, T, i - 1)
      OBVIOUS
    <3>2. f[i] = Written(order, T, i) /\ f[i - 1] = d
      BY <1>2, <3>1
    <3>3. d \in [places -> Nat] /\ f[i] = Wrote(d, order[i], val[order[i]][d])
      BY <1>1, <1>3, <1>5, <3>1, <3>2, WrittenOn
    <3> HIDE DEF f
    <3> QED BY <1>2, <1>4, <3>2, <3>3 DEF Wrote
  <2>3. f = [i \in 0 .. Len(order) |-> f[i]]
    OBVIOUS
  <2> HIDE DEF f
  <2>4. \A i \in 0 .. Len(order) : i = 0 \/ i \in 1 .. Len(order)
    BY <1>2
  <2>5. WidthSteps(order, gen, c, f)
    BY <2>1, <2>2, <2>3, <2>4 DEF WidthSteps
  <2> QED BY <2>5
<1>7. PICK g : g = CHOOSE f : WidthSteps(order, gen, c, f)
  OBVIOUS
<1>8. WidthSteps(order, gen, c, g)
  BY <1>6, <1>7
<1>9. g[0] = [n \in places |-> 0]
  <2>1. 0 \in 0 .. Len(order)
    BY <1>2
  <2> QED BY <1>8, <2>1 DEF WidthSteps
<1>10. ASSUME NEW i \in 1 .. Len(order), g[i - 1] \in [places -> Nat]
       PROVE  g[i] = Wrote(g[i - 1], order[i], val[order[i]][g[i - 1]])
  <2>1. PICK d : d = g[i - 1]
    OBVIOUS
  <2>2. i \in 0 .. Len(order) /\ i # 0
    BY <1>2
  <2>3. g[i] = [d EXCEPT ![order[i]] = WidthFrom(d, gen[order[i]], c, order[i])]
    BY <1>8, <2>1, <2>2 DEF WidthSteps
  <2>4. val[order[i]][d] = WidthFrom(d, gen[order[i]], c, order[i])
    BY <1>2, <1>4, <1>10, <2>1
  <2> QED BY <2>1, <2>3, <2>4 DEF Wrote
<1>11. g[Len(order)] = T
  <2>1. Lays(order, val, g)
    BY <1>9, <1>10 DEF Lays
  <2> QED BY <1>1, <1>3, <1>5, <2>1, InPostorder
<1> QED BY <1>1, <1>7, <1>11 DEF Widths, T

\* Every node is as wide as there are subtrees of the height of the
\* compression below it.
LEMMA IcicleIs ==
  ASSUME TreeInv, NEW c \in Nat
  PROVE  ComputeIcicle(c) = [n \in places |-> Cardinality(Units(n, c))]
<1>1. ComputeIcicle(c) = Widths(Generations, c)
  BY DEF ComputeIcicle, Widths, Generations, GenSteps, WidthSteps
<1> QED BY <1>1, GenerationsAre, WidthsAre

-----------------------------------------------------------------------------
(* The icicle tree is used *)

\* Units and widths, of any tree.
UnitsIn(tree, n, c) ==
  {m \in BelowIn(tree, n) : 1 + GreatestOf({Len(x) - Len(m) : x \in BelowIn(tree, m)}) = c}
WidthsIn(tree, c) == [n \in tree |-> Cardinality(UnitsIn(tree, n, c))]

LEMMA WidthsOfTree ==
  ASSUME TreeInv, NEW c \in Nat
  PROVE  /\ ComputeIcicle(c) = WidthsIn(places, c)
         /\ WidthsIn(places, c) \in [places -> Nat]
         /\ \A n \in places : WidthsIn(places, c)[n] = Cardinality(Units(n, c))
<1>1. \A n : Units(n, c) = UnitsIn(places, n, c)
  BY DEF Units, UnitsIn, HeightOf, Below
<1>2. ComputeIcicle(c) = WidthsIn(places, c)
  BY <1>1, IcicleIs DEF WidthsIn
<1>3. \A n \in places : Cardinality(UnitsIn(places, n, c)) \in Nat
  BY <1>1, UnitsAre
<1> QED BY <1>1, <1>2, <1>3 DEF WidthsIn

IcicleSettings(ic, tree, s) ==
  /\ DOMAIN ic = IcicleFields /\ ic.shown
  /\ ic.compression \in 1 .. s + 1 /\ ic.width = WidthsIn(tree, ic.compression)
  /\ ic.pixelSize \in 7 .. 13 /\ ic.viewport \in Viewports
  /\ ic.scroll \in Nat /\ ic.drawnAt \in Nat

IcicleUsed ==
  \/ icicle = NotShown
  \/ /\ IcicleSettings(icicle, places, steps)
     /\ icicle.max \in Nat /\ icicle.scroll <= icicle.max

LEMMA IciclePage ==
  ASSUME NEW ic, NEW tree, NEW s, IcicleSettings(ic, tree, s)
  PROVE  PageWidth(ic) \in Nat \ {0}
<1>1. ic.viewport \in Nat \ {0} /\ ic.pixelSize \in Nat \ {0}
  <2>1. ic.pixelSize \in 7 .. 13 /\ ic.viewport \in Viewports
    BY DEF IcicleSettings
  <2>2. Viewports \subseteq Nat \ {0}
    BY PixelBounds
  <2>3. ic.viewport \in Nat \ {0}
    BY <2>1, <2>2
  <2>4. ic.pixelSize \in Nat \ {0}
    BY <2>1
  <2> QED BY <2>3, <2>4
<1>2. PICK a, b, q : a = ic.viewport /\ b = ic.pixelSize /\ q = CeilDiv(a, b)
  OBVIOUS
<1>3. a \in Nat /\ a # 0 /\ b \in Nat \ {0}
  BY <1>1, <1>2
<1>4. q \in Nat /\ q # 0
  BY <1>2, <1>3, ColumnsOf
<1> QED BY <1>2, <1>4 DEF PageWidth

\* Drawing moves the scroll bar into its range.
LEMMA IcicleRedrawn ==
  ASSUME TreeInv, places' = places, NEW ic, NEW s, steps' = s, s \in Nat,
         IcicleSettings(ic, places, s), RedrawIcicle(ic)
  PROVE  IcicleUsed'
<1>1. ic.width[Root] \in Nat
  <2>1. ic.compression \in Nat /\ Root \in places
    BY DEF IcicleSettings, TreeInv
  <2> QED BY <2>1, WidthsOfTree DEF IcicleSettings
<1>2. PICK m, x : m = ScrollMax(ic, ic.width[Root]) /\ x = Smaller(ic.scroll, m)
  OBVIOUS
<1>3. m \in Nat /\ x \in Nat /\ x <= m
  <2>1. PageWidth(ic) \in Nat /\ ic.scroll \in Nat
    BY IciclePage DEF IcicleSettings
  <2> QED BY <1>1, <1>2, <2>1 DEF ScrollMax, Smaller, Larger
<1> DEFINE done == [Clamped(ic, ic.width[Root]) EXCEPT !.drawnAt = ic.scroll]
<1>4. DOMAIN ic = IcicleFields
  BY DEF IcicleSettings
<1>5. /\ DOMAIN done = IcicleFields /\ done.shown = ic.shown /\ done.compression = ic.compression
      /\ done.width = ic.width /\ done.pixelSize = ic.pixelSize /\ done.viewport = ic.viewport
      /\ done.max = m /\ done.scroll = x /\ done.drawnAt = ic.scroll
  BY <1>2, <1>4 DEF Clamped, IcicleFields
<1>6. \/ icicle' = [done EXCEPT !.drawnAt = done.scroll, !.throttle = CallNow(@)]
      \/ icicle' = [done EXCEPT !.throttle = CallLater(@, 0)]
  BY DEF RedrawIcicle
<1> HIDE DEF done
<1>7. /\ DOMAIN icicle' = IcicleFields /\ icicle'.shown = ic.shown
      /\ icicle'.compression = ic.compression /\ icicle'.width = ic.width
      /\ icicle'.pixelSize = ic.pixelSize /\ icicle'.viewport = ic.viewport
      /\ icicle'.max = m /\ icicle'.scroll = x /\ icicle'.drawnAt \in {x, ic.scroll}
  BY <1>5, <1>6 DEF IcicleFields
<1>8. IcicleSettings(icicle', places', s)
  BY <1>3, <1>7 DEF IcicleSettings
<1> QED BY <1>3, <1>7, <1>8 DEF IcicleUsed

LEMMA IcicleUse ==
  ASSUME IcicleUsed, steps \in Nat, icicle.shown
  PROVE  /\ IcicleSettings(icicle, places, steps) /\ DOMAIN icicle = IcicleFields
         /\ IcicleSettings(icicle, places, steps + 1)
         /\ icicle.max \in Nat /\ icicle.scroll <= icicle.max
<1>1. IcicleSettings(icicle, places, steps) /\ icicle.max \in Nat /\ icicle.scroll <= icicle.max
  BY DEF IcicleUsed, NotShown
<1>2. IcicleSettings(icicle, places, steps + 1)
  <2>1. icicle.compression \in 1 .. steps + 1 + 1
    BY <1>1 DEF IcicleSettings
  <2> QED BY <1>1, <2>1 DEF IcicleSettings
<1> QED BY <1>1, <1>2 DEF IcicleSettings

LEMMA IcicleUsedStep ==
  ASSUME TreeInv, StepsInv, IcicleUsed, [Next]_vars
  PROVE  IcicleUsed'
<1>0. steps \in Nat
  BY PixelBounds DEF StepsInv
<1>1. CASE /\ UNCHANGED icicle /\ (icicle.shown => places' = places)
           /\ steps' = steps \/ steps' = steps + 1
  <2>1. CASE icicle = NotShown
    BY <1>1, <2>1 DEF IcicleUsed
  <2>2. CASE icicle # NotShown
    <3>1. icicle.shown
      BY <2>2 DEF IcicleUsed, IcicleSettings
    <3>2. IcicleSettings(icicle', places', steps')
      BY <1>0, <1>1, <3>1, IcicleUse
    <3> QED BY <1>0, <1>1, <3>1, <3>2, IcicleUse DEF IcicleUsed
  <2> QED BY <2>1, <2>2
<1>2. ASSUME NEW viewport \in Viewports, ShowIcicle(viewport) PROVE IcicleUsed'
  <2>1. PICK w : w = ComputeIcicle(1)
    OBVIOUS
  <2> DEFINE ic == [shown |-> TRUE, compression |-> 1, width |-> w,
                    pixelSize |-> 10, viewport |-> viewport, scroll |-> 0, max |-> 0,
                    drawnAt |-> 0, selected |-> {}, throttle |-> Idle]
  <2>2. RedrawIcicle(ic) /\ places' = places /\ steps' = steps
    BY <1>2, <2>1 DEF ShowIcicle, patternVars, outlineVars
  <2>3. w = WidthsIn(places, 1)
    BY <2>1, WidthsOfTree
  <2>4. IcicleSettings(ic, places, steps)
    BY <1>0, <2>3 DEF IcicleFields, IcicleSettings
  <2> HIDE DEF ic
  <2> QED BY <1>0, <2>2, <2>4, IcicleRedrawn
<1>3. ASSUME UseIcicle
      PROVE  /\ places' = places /\ steps' = steps + 1 /\ DOMAIN icicle = IcicleFields
             /\ IcicleSettings(icicle, places, steps + 1)
             /\ icicle.max \in Nat /\ icicle.scroll <= icicle.max
             /\ \A ic : IcicleSettings(ic, places, steps + 1) /\ RedrawIcicle(ic) => IcicleUsed'
  <2>1. icicle.shown /\ places' = places /\ steps' = steps + 1
    BY <1>3 DEF UseIcicle, Step, patternVars, outlineVars
  <2>2. \A ic : IcicleSettings(ic, places, steps + 1) /\ RedrawIcicle(ic) => IcicleUsed'
    <3>1. PICK s : s = steps + 1
      OBVIOUS
    <3>2. s \in Nat /\ steps' = s
      BY <1>0, <2>1, <3>1
    <3>3. \A ic : IcicleSettings(ic, places, s) /\ RedrawIcicle(ic) => IcicleUsed'
      BY <2>1, <3>2, IcicleRedrawn
    <3> QED BY <3>1, <3>3
  <2> QED BY <1>0, <2>1, <2>2, IcicleUse
<1>4. CASE Compress
  <2>1. UseIcicle
    BY <1>4 DEF Compress
  <2>2. PICK c \in {icicle.compression + 1, Larger(1, icicle.compression - 1)} :
          RedrawIcicle([icicle EXCEPT !.compression = c, !.width = ComputeIcicle(c)])
    BY <1>4 DEF Compress
  <2>3. PICK w : /\ w = ComputeIcicle(c)
                 /\ RedrawIcicle([icicle EXCEPT !.compression = c, !.width = w])
    BY <2>2
  <2> DEFINE ic == [icicle EXCEPT !.compression = c, !.width = w]
  <2>4. c \in 1 .. steps + 1 + 1
    <3>1. icicle.compression \in 1 .. steps + 1
      BY <1>0, <2>1, IcicleUse DEF IcicleSettings, UseIcicle
    <3> QED BY <1>0, <2>3, <3>1 DEF Larger
  <2>5. c \in Nat
    BY <1>0, <2>4
  <2>6. w = WidthsIn(places, c)
    BY <2>3, <2>5, WidthsOfTree
  <2>7. IcicleSettings(ic, places, steps + 1)
    BY <1>3, <2>1, <2>4, <2>6 DEF IcicleFields, IcicleSettings
  <2> HIDE DEF ic
  <2> QED BY <1>3, <2>1, <2>3, <2>7 DEF ic
<1>5. CASE ZoomIcicle
  <2>1. UseIcicle
    BY <1>5 DEF ZoomIcicle
  <2>2. PICK size \in 10 - MaxZoom .. 10 + MaxZoom : RedrawIcicle([icicle EXCEPT !.pixelSize = size])
    BY <1>5 DEF ZoomIcicle, Zoomed
  <2> DEFINE ic == [icicle EXCEPT !.pixelSize = size]
  <2>3. size \in 7 .. 13
    BY <2>2, PixelBounds
  <2>4. IcicleSettings(ic, places, steps + 1)
    BY <1>3, <2>1, <2>3 DEF IcicleFields, IcicleSettings
  <2> HIDE DEF ic
  <2> QED BY <1>3, <2>1, <2>2, <2>4 DEF ic
<1>6. CASE ResizeIcicle
  <2>1. UseIcicle
    BY <1>6 DEF ResizeIcicle
  <2>2. PICK w \in Viewports : RedrawIcicle([icicle EXCEPT !.viewport = w])
    BY <1>6 DEF ResizeIcicle
  <2> DEFINE ic == [icicle EXCEPT !.viewport = w]
  <2>3. IcicleSettings(ic, places, steps + 1)
    BY <1>3, <2>1 DEF IcicleFields, IcicleSettings
  <2> HIDE DEF ic
  <2> QED BY <1>3, <2>1, <2>2, <2>3 DEF ic
<1>7. CASE ScrollIcicle
  <2>1. UseIcicle
    BY <1>7 DEF ScrollIcicle
  <2>2. PICK v \in 0 .. icicle.max :
          \/ RedrawIcicle([icicle EXCEPT !.scroll = v])
          \/ icicle' = [icicle EXCEPT !.scroll = v, !.throttle = CallLater(@, 0)]
    BY <1>7 DEF ScrollIcicle
  <2>3. v \in Nat /\ v <= icicle.max
    BY <1>3, <2>1, <2>2
  <2>4. CASE RedrawIcicle([icicle EXCEPT !.scroll = v])
    <3> DEFINE ic == [icicle EXCEPT !.scroll = v]
    <3>1. IcicleSettings(ic, places, steps + 1)
      BY <1>3, <2>1, <2>3 DEF IcicleFields, IcicleSettings
    <3> HIDE DEF ic
    <3> QED BY <1>3, <2>1, <2>4, <3>1 DEF ic
  <2>5. CASE icicle' = [icicle EXCEPT !.scroll = v, !.throttle = CallLater(@, 0)]
    <3>1. /\ DOMAIN icicle' = IcicleFields /\ icicle'.shown = icicle.shown
          /\ icicle'.compression = icicle.compression /\ icicle'.width = icicle.width
          /\ icicle'.pixelSize = icicle.pixelSize /\ icicle'.viewport = icicle.viewport
          /\ icicle'.max = icicle.max /\ icicle'.scroll = v /\ icicle'.drawnAt = icicle.drawnAt
      BY <1>3, <2>1, <2>5 DEF IcicleFields
    <3>2. IcicleSettings(icicle', places', steps')
      BY <1>3, <2>1, <2>3, <3>1 DEF IcicleSettings
    <3> QED BY <1>3, <2>1, <2>3, <3>1, <3>2 DEF IcicleUsed
  <2> QED BY <2>2, <2>4, <2>5
<1>8. CASE RedrawLater
  <2>1. RedrawIcicle([icicle EXCEPT !.throttle = CallViaTimer(@)])
    BY <1>8 DEF RedrawLater
  <2>2. icicle.shown /\ places' = places /\ steps' = steps
    BY <1>8 DEF RedrawLater, patternVars, outlineVars
  <2> DEFINE ic == [icicle EXCEPT !.throttle = CallViaTimer(@)]
  <2>3. IcicleSettings(ic, places, steps)
    BY <1>0, <2>2, IcicleUse DEF IcicleFields, IcicleSettings
  <2> HIDE DEF ic
  <2> QED BY <1>0, <2>1, <2>2, <2>3, IcicleRedrawn DEF ic
<1>9. CASE ClickIcicle
  <2>1. UseIcicle
    BY <1>9 DEF ClickIcicle
  <2>2. PICK found : RedrawIcicle([icicle EXCEPT !.selected = found])
    BY <1>9 DEF ClickIcicle
  <2> DEFINE ic == [icicle EXCEPT !.selected = found]
  <2>3. IcicleSettings(ic, places, steps + 1)
    BY <1>3, <2>1 DEF IcicleFields, IcicleSettings
  <2> HIDE DEF ic
  <2> QED BY <1>3, <2>1, <2>2, <2>3 DEF ic
<1>10. \/ UNCHANGED icicle /\ (icicle.shown => places' = places)
       \/ Compress \/ ZoomIcicle \/ ResizeIcicle \/ ScrollIcicle
       \/ RedrawLater \/ ClickIcicle \/ \E viewport \in Viewports : ShowIcicle(viewport)
  BY DEF Next, vars, pixelVars, ShowPixelTree, AddCompression, ReduceCompression, ZoomPixels,
         ResizePixels, ScrollPixels, Drag, SelectNodes, UsePixels, SavePixelTree, SlideLantern,
         LanternLater, patternVars, outlineVars
<1>11. steps' = steps \/ steps' = steps + 1
  BY DEF Next, vars, pixelVars, ShowPixelTree, ShowIcicle, AddCompression, ReduceCompression,
         ZoomPixels, ResizePixels, ScrollPixels, Drag, SelectNodes, UsePixels, Step,
         SavePixelTree, Compress, ZoomIcicle, ResizeIcicle, ScrollIcicle, RedrawLater,
         ClickIcicle, UseIcicle, SlideLantern, LanternLater
<1> QED BY <1>1, <1>2, <1>4, <1>5, <1>6, <1>7, <1>8, <1>9, <1>10, <1>11

ViewsInv == UsedInv /\ SavedInv /\ IcicleUsed /\ LanternInv

LEMMA ViewsInvHolds == Spec => []ViewsInv
<1>1. Init => SavedInv /\ IcicleUsed /\ LanternInv
  BY DEF Init, SavedInv, IcicleUsed, LanternInv, LanternLimits, Idle
<1>2. UsedInv /\ SavedInv /\ IcicleUsed /\ LanternInv /\ [Next]_vars
        => SavedInv' /\ IcicleUsed' /\ LanternInv'
  BY SavedStep, IcicleUsedStep, LanternStep DEF UsedInv
<1> QED BY <1>1, <1>2, UsedInvHolds, PTL DEF Spec, ViewsInv

LEMMA ViewsTyped ==
  ASSUME ViewsInv
  PROVE  PixelsTypeOK
<1>1. steps \in 0 .. MaxSteps /\ MaxSteps \in Nat
  BY PixelBounds DEF ViewsInv, UsedInv, StepsInv
<1>2. fault \in {"none", "draw", "select"}
  BY DEF ViewsInv, UsedInv, PixelInv
<1>3. ASSUME pt.shown
      PROVE  /\ pt.compression \in {c + 10 * k : c \in {1, 2}, k \in 0 .. MaxSteps}
             /\ pt.scroll \in 0 .. pt.max /\ pt.pixelSize \in 1 .. 7
             /\ pt.selected \subseteq 0 .. Len(pt.seq) - 1
  <2>1. PixelSettings(pt, steps)
    BY <1>3 DEF ViewsInv, UsedInv, PixelInv, NotShown
  <2>2. PICK c \in {1, 2}, k \in 0 .. steps : pt.compression = c + 10 * k
    BY <2>1 DEF PixelSettings
  <2>3. k \in 0 .. MaxSteps
    BY <1>1
  <2> QED BY <2>1, <2>2, <2>3 DEF PixelSettings
<1>4. ASSUME icicle.shown
      PROVE  /\ icicle.compression \in 1 .. MaxSteps + 1
             /\ icicle.scroll \in 0 .. icicle.max
             /\ icicle.width \in [places -> Nat]
  <2>1. IcicleSettings(icicle, places, steps) /\ icicle.max \in Nat /\ icicle.scroll <= icicle.max
    BY <1>4 DEF ViewsInv, IcicleUsed, NotShown
  <2>2. icicle.compression \in 1 .. MaxSteps + 1 /\ icicle.compression \in Nat
    BY <1>1, <2>1 DEF IcicleSettings
  <2>3. icicle.width \in [places -> Nat]
    BY <2>1, <2>2, WidthsOfTree DEF IcicleSettings, ViewsInv, UsedInv
  <2>4. icicle.scroll \in 0 .. icicle.max
    BY <2>1 DEF IcicleSettings
  <2> QED BY <2>2, <2>3, <2>4
<1>5. lantern.applied \in Limits \cup {0}
  BY DEF ViewsInv, LanternInv, LanternLimits
<1> QED BY <1>1, <1>2, <1>3, <1>4, <1>5 DEF PixelsTypeOK

\* The pixel tree shows, and saves, the whole tree at its places, whatever is
\* compressed, zoomed, resized, scrolled and selected.
THEOREM PixelsRight == Spec => []PixelsExact
<1>1. ASSUME ViewsInv PROVE PixelsExact
  <2>1. PixelsTypeOK
    BY <1>1, ViewsTyped
  <2>2. PixelTreeExact /\ SlicesCover
    <3>1. CASE pt.shown
      <4>1. PixelSettings(pt, steps) /\ (fault = "none" => InRange(pt))
        BY <1>1, <3>1 DEF ViewsInv, UsedInv, PixelInv, NotShown
      <4>2. PixelTreeExact
        BY <4>1, PixelsInOrder
      <4>3. fault = "none" => SlicesCover
        BY <4>1, SlicesOf
      <4>4. fault # "none" => SlicesCover
        BY DEF SlicesCover
      <4> QED BY <4>2, <4>3, <4>4
    <3>2. CASE ~pt.shown
      BY <3>2 DEF PixelTreeExact, SlicesCover
    <3> QED BY <3>1, <3>2
  <2>3. SavedButForEdges
    <3>1. CASE saved = NothingSaved
      BY <3>1 DEF SavedButForEdges, NothingSaved
    <3>2. CASE saved # NothingSaved
      BY <1>1, <3>2, PictureIs DEF ViewsInv, UsedInv, SavedInv
    <3> QED BY <3>1, <3>2
  <2> QED BY <2>1, <2>2, <2>3 DEF PixelsExact
<1> QED BY <1>1, ViewsInvHolds, PTL

-----------------------------------------------------------------------------
(* The rectangles of the icicle tree *)

LEMMA BelowMore ==
  ASSUME TreeInv, NEW n \in places, NEW m \in places, IsPrefix(n, m)
  PROVE  Below(m) \subseteq Below(n)
<1> SUFFICES ASSUME NEW x \in Below(m) PROVE x \in Below(n)
  OBVIOUS
<1>1. x \in places /\ IsPrefix(m, x)
  BY BelowNodes
<1>2. n \in PlaceSet /\ m \in PlaceSet /\ x \in PlaceSet
  BY <1>1 DEF TreeInv
<1> QED BY <1>1, <1>2, PrefixOrder DEF Below, BelowIn

LEMMA PathIs ==
  ASSUME TreeInv, NEW n \in places
  PROVE  Path(n) = {q \in places : IsPrefix(q, n)}
<1>1. n \in PlaceSet /\ Len(n) \in Nat
  BY BelowNodes
<1>2. ASSUME NEW i \in 0 .. Len(n), NEW s, s = SubSeq(n, 1, i)
      PROVE  /\ s \in PlaceSet /\ Len(s) = i /\ \A j \in 1 .. i : s[j] = n[j]
             /\ s \in places /\ IsPrefix(s, n)
  <2>1. s = [j \in 1 .. i |-> n[j]]
    BY <1>1, <1>2 DEF PlaceSet
  <2>2. \A j \in 1 .. i : s[j] = n[j] /\ s[j] \in Alternatives
    <3>1. \A j \in 1 .. Len(n) : n[j] \in Alternatives
      BY <1>1, ElementOfSeq DEF PlaceSet
    <3> QED BY <1>1, <2>1, <3>1
  <2>3. s \in PlaceSet /\ Len(s) = i
    BY <1>1, <2>1, <2>2 DEF PlaceSet
  <2>4. IsPrefix(s, n)
    BY <1>1, <2>2, <2>3, PrefixIs
  <2> QED BY <2>2, <2>3, <2>4, PlaceAbove
<1>3. ASSUME NEW q \in places, IsPrefix(q, n)
      PROVE  q \in Path(n)
  <2>1. q \in PlaceSet /\ Len(q) \in Nat /\ Len(q) <= Len(n) /\ \A j \in 1 .. Len(q) : q[j] = n[j]
    BY <1>1, <1>3, PrefixIs DEF TreeInv
  <2>2. PICK i, s : i = Len(q) /\ s = SubSeq(n, 1, i)
    OBVIOUS
  <2>3. i \in 0 .. Len(n)
    BY <1>1, <2>1, <2>2
  <2>4. s \in PlaceSet /\ Len(s) = i /\ \A j \in 1 .. i : s[j] = n[j]
    BY <1>2, <2>2, <2>3
  <2>5. q = s
    BY <2>1, <2>2, <2>4, SamePlace
  <2> QED BY <2>2, <2>3, <2>5 DEF Path
<1> QED BY <1>2, <1>3 DEF Path

\* The children further to the left, on the way from the root to n.
Earlier(n) == UNION {{Kid(Front(p), j) : j \in 1 .. Last(p) - 1} : p \in Path(n) \ {Root}}
Left(n, c) == UNION {Units(m, c) : m \in Earlier(n)}

\* m is an elder sibling of p.
Elder(m, p) ==
  /\ m \in {Kid(Front(p), j) : j \in 1 .. Last(p) - 1}
  /\ p \in places /\ p # Root /\ Front(p) \in places /\ m # p
  /\ m \in KidsIn(places, Front(p)) /\ p \in KidsIn(places, Front(p))

LEMMA EarlierIs ==
  ASSUME TreeInv, NEW n \in places, NEW m \in Earlier(n)
  PROVE  m \in places /\ \E p \in Path(n) : Elder(m, p)
<1>0. PICK p \in Path(n) \ {Root} : m \in {Kid(Front(p), j) : j \in 1 .. Last(p) - 1}
  BY DEF Earlier
<1>1. PICK j \in 1 .. Last(p) - 1 : m = Kid(Front(p), j)
  BY <1>0
<1>2. PICK f, a : f = Front(p) /\ a = Last(p)
  OBVIOUS
<1>3. p \in places /\ p \in PlaceSet /\ p # <<>> /\ f \in places
  BY <1>1, <1>2, PathIs DEF TreeInv, Root
<1>4. f \in PlaceSet /\ a \in Alternatives /\ Append(f, a) = p
  BY <1>2, <1>3, FrontIs
<1>5. PICK k : k = KidCount(f)
  OBVIOUS
<1>6. Has(f, k)
  BY <1>3, <1>5, KidsAre
<1>7. k \in Nat /\ a <= k
  BY <1>3, <1>4, <1>6 DEF Has
<1>8. j \in Alternatives /\ j <= k /\ j # a
  BY <1>1, <1>2, <1>4, <1>7 DEF Alternatives
<1>9. m = Append(f, j) /\ m \in places
  BY <1>1, <1>2, <1>6, <1>8 DEF Kid, Has
<1>10. m \in KidsIn(places, f) /\ p \in KidsIn(places, f)
  BY <1>3, <1>4, <1>8, <1>9, AppendIs DEF KidsIn, Root
<1>11. m # p
  BY <1>4, <1>8, <1>9, AppendSame
<1> QED BY <1>0, <1>2, <1>3, <1>9, <1>10, <1>11 DEF Elder

\* An elder sibling has nothing in common with what is below p.
LEMMA ElderApart ==
  ASSUME TreeInv, NEW m, NEW p, Elder(m, p)
  PROVE  /\ m \in places /\ Below(m) \cap Below(p) = {}
         /\ \A q \in places : IsPrefix(q, p) /\ q # p => m \in Below(q)
<1>1. m \in places /\ Below(m) \cap Below(p) = {}
  BY BelowKids, KidBelow DEF Elder
<1>2. ASSUME NEW q \in places, IsPrefix(q, p), q # p PROVE m \in Below(q)
  <2>1. PICK f : f = Front(p)
    OBVIOUS
  <2>2. f \in places /\ p \in PlaceSet /\ p # <<>> /\ q \in PlaceSet
    BY <2>1 DEF Elder, TreeInv, Root
  <2>3. IsPrefix(q, f)
    <3>1. f \in PlaceSet /\ Last(p) \in Alternatives /\ Append(f, Last(p)) = p
      BY <2>1, <2>2, FrontIs
    <3>2. PICK a : a = Last(p)
      OBVIOUS
    <3>3. IsPrefix(q, Append(f, a)) <=> q = Append(f, a) \/ IsPrefix(q, f)
      BY <2>2, <3>1, <3>2, AppendIs
    <3> QED BY <1>2, <3>1, <3>2, <3>3
  <2>4. m \in Below(f)
    BY <2>1, <2>2, KidBelow DEF Elder
  <2> QED BY <2>2, <2>3, <2>4, BelowMore
<1> QED BY <1>1, <1>2

LEMMA EarlierApart ==
  ASSUME TreeInv, NEW n \in places, NEW m \in Earlier(n), NEW l \in Earlier(n), m # l
  PROVE  Below(m) \cap Below(l) = {}
<1>1. PICK p \in Path(n) : Elder(m, p)
  BY EarlierIs
<1>2. PICK q \in Path(n) : Elder(l, q)
  BY EarlierIs
<1>3. /\ p \in places /\ q \in places /\ m \in places /\ l \in places
      /\ IsPrefix(p, n) /\ IsPrefix(q, n)
  BY <1>1, <1>2, PathIs, ElderApart
<1>4. CASE p = q
  BY <1>1, <1>2, <1>4, BelowKids DEF Elder
<1>5. CASE p # q /\ IsPrefix(p, q)
  <2>1. l \in Below(p)
    BY <1>2, <1>3, <1>5, ElderApart
  <2>2. Below(l) \subseteq Below(p)
    BY <1>3, <2>1, BelowMore, BelowNodes
  <2> QED BY <1>1, <2>2, ElderApart
<1>6. CASE p # q /\ IsPrefix(q, p)
  <2>1. m \in Below(q)
    BY <1>1, <1>3, <1>6, ElderApart
  <2>2. Below(m) \subseteq Below(q)
    BY <1>3, <2>1, BelowMore, BelowNodes
  <2> QED BY <1>2, <2>2, ElderApart
<1>7. IsPrefix(p, q) \/ IsPrefix(q, p)
  BY <1>3, PrefixOrder DEF TreeInv
<1> QED BY <1>4, <1>5, <1>6, <1>7

\* A node begins behind the units on its left.
LEMMA BeginsIs ==
  ASSUME TreeInv, NEW c \in Nat, NEW width, width = WidthsIn(places, c),
         NEW x \in Int, NEW n \in places
  PROVE  /\ IsFiniteSet(Left(n, c)) /\ Left(n, c) \cap Units(n, c) = {}
         /\ Begins(width, x)[n] = x + Cardinality(Left(n, c))
<1>1. Begins(width, x)[n] = Summed(x, width, Earlier(n))
  BY DEF Begins, Earlier, FoldSet, MapThenFoldSet, Summed, SumSteps, Picked
<1>2. PICK E : E = Earlier(n)
  OBVIOUS
<1>3. E \subseteq places /\ IsFiniteSet(E)
  <2>1. E \subseteq places
    BY <1>2, EarlierIs
  <2> QED BY <2>1, FS_Subset DEF TreeInv
<1> DEFINE U == [m \in E |-> Units(m, c)]
<1>4. \A m \in E : IsFiniteSet(U[m]) /\ width[m] = Cardinality(U[m])
  <2>1. \A m \in E : IsFiniteSet(Units(m, c)) /\ width[m] = Cardinality(Units(m, c))
    BY <1>3, UnitsAre, WidthsOfTree
  <2> QED BY <2>1
<1>5. \A m, l \in E : m # l => U[m] \cap U[l] = {}
  BY <1>2, EarlierApart DEF Units
<1>6. UNION {U[m] : m \in E} = Left(n, c)
  BY <1>2 DEF Left
<1> HIDE DEF U
<1>7. IsFiniteSet(Left(n, c)) /\ Summed(x, width, E) = x + Cardinality(Left(n, c))
  BY <1>3, <1>4, <1>5, <1>6, SumIs
<1>8. \A m \in E : Units(m, c) \cap Units(n, c) = {}
  <2> SUFFICES ASSUME NEW m \in E PROVE Below(m) \cap Below(n) = {}
    BY DEF Units
  <2>1. PICK p \in Path(n) : Elder(m, p)
    BY <1>2, EarlierIs
  <2>2. Below(n) \subseteq Below(p)
    BY <2>1, PathIs, BelowMore
  <2> QED BY <2>1, <2>2, ElderApart
<1>9. Left(n, c) \cap Units(n, c) = {}
  BY <1>2, <1>8 DEF Left
<1> QED BY <1>1, <1>2, <1>7, <1>9

\* What is below a node is drawn below it.
LEMMA DrawnBelow ==
  ASSUME TreeInv, NEW c \in Nat, NEW width, width = WidthsIn(places, c),
         NEW x \in Int, NEW n \in places, NEW q \in Path(n),
         NEW X, X = Begins(width, x)
  PROVE  /\ width[n] \in Nat /\ width[q] \in Nat /\ X[n] \in Int /\ X[q] \in Int
         /\ X[q] <= X[n] /\ X[n] + width[n] <= X[q] + width[q]
<1>1. q \in places /\ IsPrefix(q, n)
  BY PathIs
<1>2. PICK ln, lq, un, uq : /\ ln = Left(n, c) /\ lq = Left(q, c)
                            /\ un = Units(n, c) /\ uq = Units(q, c)
  OBVIOUS
<1>3. /\ IsFiniteSet(ln) /\ ln \cap un = {} /\ X[n] = x + Cardinality(ln)
      /\ IsFiniteSet(lq) /\ lq \cap uq = {} /\ X[q] = x + Cardinality(lq)
  BY <1>1, <1>2, BeginsIs
<1>4. /\ IsFiniteSet(un) /\ IsFiniteSet(uq)
      /\ width[n] = Cardinality(un) /\ width[q] = Cardinality(uq)
  BY <1>1, <1>2, UnitsAre, WidthsOfTree
<1>5. lq \subseteq ln
  <2>1. Path(q) \subseteq Path(n)
    <3>1. \A p \in places : IsPrefix(p, q) => IsPrefix(p, n)
      BY <1>1, PrefixOrder DEF TreeInv
    <3> QED BY <1>1, <3>1, PathIs
  <2> QED BY <1>2, <2>1 DEF Left, Earlier
<1>6. ln \cup un \subseteq lq \cup uq
  <2>1. Below(n) \subseteq Below(q)
    BY <1>1, BelowMore
  <2>2. ASSUME NEW m \in Earlier(n) PROVE Units(m, c) \subseteq lq \cup uq
    <3>1. m \in places /\ \E p \in Path(n) : Elder(m, p)
      BY EarlierIs
    <3>2. PICK p \in Path(n) : Elder(m, p)
      BY <3>1
    <3>3. p \in places /\ IsPrefix(p, n) /\ p # Root
      BY <3>2, PathIs DEF Elder
    <3>4. CASE IsPrefix(p, q)
      <4>1. p \in Path(q) \ {Root}
        BY <1>1, <3>3, <3>4, PathIs
      <4>2. m \in Earlier(q)
        BY <3>2, <4>1 DEF Earlier, Elder
      <4> QED BY <1>2, <4>2 DEF Left
    <3>5. CASE IsPrefix(q, p) /\ q # p
      <4>1. m \in Below(q)
        BY <1>1, <3>2, <3>5, ElderApart
      <4>2. Below(m) \subseteq Below(q)
        BY <1>1, <3>1, <4>1, BelowNodes, BelowMore
      <4> QED BY <1>2, <4>2 DEF Units
    <3>6. IsPrefix(p, q) \/ IsPrefix(q, p)
      BY <1>1, <3>3, PrefixOrder DEF TreeInv
    <3> QED BY <3>2, <3>3, <3>4, <3>5, <3>6, <1>1, PrefixOrder DEF TreeInv
  <2>3. ln \subseteq lq \cup uq
    BY <1>2, <2>2 DEF Left
  <2>4. un \subseteq uq
    BY <1>2, <2>1 DEF Units
  <2> QED BY <2>3, <2>4
<1>7. /\ Cardinality(ln) \in Nat /\ Cardinality(lq) \in Nat
      /\ Cardinality(un) \in Nat /\ Cardinality(uq) \in Nat
  BY <1>3, <1>4, FS_CardinalityType
<1>8. Cardinality(lq) <= Cardinality(ln)
  BY <1>3, <1>5, FS_Subset
<1>0. /\ Cardinality(lq \cap uq) = 0 /\ Cardinality(ln \cap un) = 0
  BY <1>3, FS_EmptySet
<1>9. IsFiniteSet(lq \cup uq) /\ Cardinality(lq \cup uq) = Cardinality(lq) + Cardinality(uq)
  <2>1. /\ IsFiniteSet(lq \cup uq)
        /\ Cardinality(lq \cup uq) = Cardinality(lq) + Cardinality(uq) - Cardinality(lq \cap uq)
    BY <1>3, <1>4, FS_Union
  <2> QED BY <1>0, <1>7, <2>1
<1>10. Cardinality(ln \cup un) = Cardinality(ln) + Cardinality(un)
  <2>1. Cardinality(ln \cup un) = Cardinality(ln) + Cardinality(un) - Cardinality(ln \cap un)
    BY <1>3, <1>4, FS_Union
  <2> QED BY <1>0, <1>7, <2>1
<1>11. Cardinality(ln \cup un) <= Cardinality(lq \cup uq)
  BY <1>6, <1>9, FS_Subset
<1> QED BY <1>3, <1>4, <1>7, <1>8, <1>9, <1>10, <1>11

\* Scrolling moves all of it to the left.
LEMMA Scrolled ==
  ASSUME TreeInv, NEW c \in Nat, NEW width, width = WidthsIn(places, c),
         NEW s \in Nat, NEW n \in places
  PROVE  Begins(width, -s)[n] = Begins(width, 0)[n] - s
<1>1. -s \in Int /\ 0 \in Int
  OBVIOUS
<1>2. PICK k : k = Cardinality(Left(n, c))
  OBVIOUS
<1>3. k \in Nat
  BY <1>2, BeginsIs, FS_CardinalityType
<1>4. Begins(width, -s)[n] = -s + k
  BY <1>1, <1>2, BeginsIs
<1>5. Begins(width, 0)[n] = 0 + k
  BY <1>1, <1>2, BeginsIs
<1> QED BY <1>3, <1>4, <1>5

Rect(X, width, n) == [nid |-> n, x |-> X[n], y |-> Len(n), width |-> width[n]]

\* What is cut off is to the left of the page.
LEMMA CutOffKeeps ==
  ASSUME NEW X, NEW width, NEW n, X[n] \in Int, width[n] \in Nat,
         NEW r, r = Rect(X, width, n), NEW q, q = CutOff(r)
  PROVE  /\ q.nid = n /\ q.y = Len(n)
         /\ \A x \in Nat : (q.x <= x /\ x < q.x + q.width)
                             <=> (X[n] <= x /\ x < X[n] + width[n])
         /\ X[n] + width[n] > 0 /\ width[n] # 0 => q.width > 0
<1>1. r.nid = n /\ r.x = X[n] /\ r.y = Len(n) /\ r.width = width[n]
  BY DEF Rect
<1>2. DOMAIN r = {"nid", "x", "y", "width"}
  BY DEF Rect
<1>3. q.nid = n /\ q.y = Len(n)
  BY <1>1, <1>2 DEF CutOff
<1>4. IF X[n] < 0 THEN q.x = 0 /\ q.width = width[n] + X[n]
      ELSE q.x = X[n] /\ q.width = width[n]
  BY <1>1, <1>2 DEF CutOff
<1> QED BY <1>3, <1>4

LEMMA DrawnAre ==
  ASSUME NEW ic, NEW s
  PROVE  LET X == Begins(ic.width, -s)
             Shows(n) == \A p \in Path(n) : ~Culled(X[p], ic.width[p], PageWidth(ic))
         IN DrawIcicle(ic, s) = {Rect(X, ic.width, n) : n \in {m \in places : Shows(m)}}
BY DEF DrawIcicle, Rect

LEMMA WidthsCounted ==
  ASSUME TreeInv, IcicleUsed, steps \in Nat
  PROVE  WidthCountsUnits
<1> SUFFICES ASSUME icicle.shown, NEW n \in places
             PROVE  icicle.width[n] = Cardinality(Units(n, icicle.compression))
  BY DEF WidthCountsUnits, Units
<1>1. PICK c : c = icicle.compression
  OBVIOUS
<1>2. c \in Nat /\ icicle.width = WidthsIn(places, c)
  BY <1>1, IcicleUse DEF IcicleSettings
<1> QED BY <1>1, <1>2, WidthsOfTree

LEMMA AllDrawable ==
  ASSUME TreeInv, IcicleUsed, steps \in Nat
  PROVE  RectanglesDrawable
<1> SUFFICES ASSUME icicle.shown, NEW r \in DrawIcicle(icicle, icicle.drawnAt)
             PROVE  r.width > 0 /\ CutOff(r).width > 0
  BY DEF RectanglesDrawable
<1>1. PICK c, s, w, X : /\ c = icicle.compression /\ s = icicle.drawnAt /\ w = icicle.width
                        /\ X = Begins(w, -s)
  OBVIOUS
<1>2. c \in Nat /\ w = WidthsIn(places, c) /\ s \in Nat
  BY <1>1, IcicleUse DEF IcicleSettings
<1>3. PICK n \in places : /\ r = Rect(X, w, n)
                          /\ \A p \in Path(n) : ~Culled(X[p], w[p], PageWidth(icicle))
  BY <1>1, DrawnAre
<1>4. n \in Path(n)
  BY PathIs, PrefixOrder DEF TreeInv
<1>5. w[n] \in Nat /\ X[n] \in Int
  BY <1>1, <1>2, <1>4, DrawnBelow
<1>6. X[n] + w[n] > 0 /\ w[n] # 0
  BY <1>3, <1>4, <1>5 DEF Culled
<1>7. r.width = w[n]
  BY <1>3 DEF Rect
<1>8. PICK q : q = CutOff(r)
  OBVIOUS
<1>9. q.width > 0
  BY <1>3, <1>5, <1>6, <1>8, CutOffKeeps
<1> QED BY <1>5, <1>6, <1>7, <1>8, <1>9

LEMMA ClicksHit ==
  ASSUME TreeInv, IcicleUsed, steps \in Nat
  PROVE  ClickHitsDrawn
<1> DEFINE drawn == {CutOff(r) : r \in DrawIcicle(icicle, icicle.drawnAt)}
           At(x, y) == {r.nid : r \in {q \in drawn : q.y = y /\ q.x <= x /\ x < q.x + q.width}}
<1> SUFFICES ASSUME icicle.shown, icicle.drawnAt = icicle.scroll,
                    NEW x \in 0 .. PageWidth(icicle) - 1, NEW y
             PROVE  FindNode(icicle, icicle.scroll + x, y) = At(x, y)
  BY DEF ClickHitsDrawn
<1>1. PICK c, s, w, X, Z, page :
         /\ c = icicle.compression /\ s = icicle.scroll /\ w = icicle.width
         /\ X = Begins(w, -s) /\ Z = Begins(w, 0) /\ page = PageWidth(icicle)
  OBVIOUS
<1>2. /\ c \in Nat /\ w = WidthsIn(places, c) /\ s \in Nat /\ page \in Nat \ {0}
      /\ x \in Nat /\ x < page
  <2>1. IcicleSettings(icicle, places, steps)
    BY IcicleUse
  <2>2. page \in Nat \ {0} /\ x \in 0 .. page - 1
    BY <1>1, <2>1, IciclePage
  <2>3. x \in Nat /\ x < page
    BY <2>2
  <2>4. c \in Nat /\ w = WidthsIn(places, c) /\ s \in Nat
    BY <1>1, <2>1 DEF IcicleSettings
  <2> QED BY <2>2, <2>3, <2>4
<1>3. ASSUME NEW n \in places
      PROVE  /\ w[n] \in Nat /\ X[n] \in Int /\ Z[n] \in Int /\ X[n] = Z[n] - s
             /\ n \in Path(n) /\ \A p \in Path(n) : p \in places
             /\ \A p \in Path(n) : X[p] <= X[n] /\ X[n] + w[n] <= X[p] + w[p]
  <2>1. n \in Path(n) /\ \A p \in Path(n) : p \in places
    BY PathIs, PrefixOrder DEF TreeInv
  <2>2. -s \in Int /\ 0 \in Int
    BY <1>2
  <2>3. /\ w[n] \in Nat /\ X[n] \in Int
        /\ \A p \in Path(n) : X[p] <= X[n] /\ X[n] + w[n] <= X[p] + w[p]
    BY <1>1, <1>2, <2>1, <2>2, DrawnBelow
  <2>4. Z[n] \in Int
    BY <1>1, <1>2, <2>1, <2>2, DrawnBelow
  <2>5. X[n] = Z[n] - s
    BY <1>1, <1>2, Scrolled
  <2> QED BY <2>1, <2>3, <2>4, <2>5
<1> DEFINE Holds(p) == X[p] <= x /\ x < X[p] + w[p]
           Found(n) == Len(n) = y /\ \A p \in Path(n) : Holds(p)
<1>4. FindNode(icicle, s + x, y) = {n \in places : Found(n)}
  <2>1. FindNode(icicle, s + x, y) =
          {n \in places : Len(n) = y /\ \A p \in Path(n) : Z[p] <= s + x /\ s + x < Z[p] + w[p]}
    BY <1>1 DEF FindNode
  <2>2. ASSUME NEW p \in places
        PROVE  (Z[p] <= s + x /\ s + x < Z[p] + w[p]) <=> Holds(p)
    BY <1>2, <1>3
  <2>3. \A n \in places : \A p \in Path(n) : p \in places
    BY <1>3
  <2> QED BY <2>1, <2>2, <2>3
<1>5. DrawIcicle(icicle, icicle.drawnAt) =
        {Rect(X, w, n) : n \in {m \in places : \A p \in Path(m) : ~Culled(X[p], w[p], page)}}
  BY <1>1, DrawnAre
<1>6. ASSUME NEW n \in places, Found(n) PROVE n \in At(x, y)
  <2>1. ASSUME NEW p \in Path(n) PROVE ~Culled(X[p], w[p], page)
    <3>1. p \in places /\ Holds(p)
      BY <1>3, <1>6, <2>1
    <3>2. w[p] \in Nat /\ X[p] \in Int
      BY <1>3, <3>1
    <3> QED BY <1>2, <3>1, <3>2 DEF Culled
  <2>2. PICK r, q : r = Rect(X, w, n) /\ q = CutOff(r)
    OBVIOUS
  <2>3. q \in drawn
    BY <1>5, <2>1, <2>2
  <2>4. w[n] \in Nat /\ X[n] \in Int /\ Holds(n)
    BY <1>3, <1>6
  <2>5. q.nid = n /\ q.y = Len(n) /\ ((q.x <= x /\ x < q.x + q.width) <=> Holds(n))
    BY <1>2, <2>2, <2>4, CutOffKeeps
  <2> HIDE DEF drawn
  <2> QED BY <1>6, <2>3, <2>4, <2>5
<1>7. ASSUME NEW n \in At(x, y) PROVE n \in places /\ Found(n)
  <2>1. PICK q \in drawn : n = q.nid /\ q.y = y /\ q.x <= x /\ x < q.x + q.width
    BY <1>7
  <2>2. PICK r \in DrawIcicle(icicle, icicle.drawnAt) : q = CutOff(r)
    OBVIOUS
  <2>3. PICK m \in places : r = Rect(X, w, m)
    BY <1>5, <2>2
  <2>4. w[m] \in Nat /\ X[m] \in Int
    BY <1>3
  <2>5. q.nid = m /\ q.y = Len(m) /\ ((q.x <= x /\ x < q.x + q.width) <=> Holds(m))
    BY <1>2, <2>2, <2>3, <2>4, CutOffKeeps
  <2>6. n \in places /\ Len(n) = y /\ Holds(n)
    BY <2>1, <2>5
  <2>7. ASSUME NEW p \in Path(n) PROVE Holds(p)
    <3>1. /\ p \in places /\ X[p] <= X[n] /\ X[n] + w[n] <= X[p] + w[p]
          /\ w[n] \in Nat /\ X[n] \in Int
      BY <1>3, <2>6
    <3>2. w[p] \in Nat /\ X[p] \in Int
      BY <1>3, <3>1
    <3> QED BY <1>2, <2>6, <3>1, <3>2
  <2> QED BY <2>6, <2>7
<1> HIDE DEF At, Found
<1> QED BY <1>1, <1>4, <1>6, <1>7

\* The icicle tree is as wide as what it stands for, every part of it can be
\* drawn, and a click finds the part it is on, whatever is compressed, zoomed,
\* resized and scrolled (icicle_canvas.cpp:51-172, 338-368).
THEOREM IcicleRight == Spec => []IcicleExact
<1>1. ASSUME ViewsInv PROVE IcicleExact
  <2>1. TreeInv /\ IcicleUsed /\ steps \in Nat
    BY <1>1, PixelBounds DEF ViewsInv, UsedInv, StepsInv
  <2> QED BY <2>1, WidthsCounted, ClicksHit, AllDrawable DEF IcicleExact
<1> QED BY <1>1, ViewsInvHolds, PTL

-----------------------------------------------------------------------------
(* From the leaves up *)

LEMMA FromLeaves ==
  ASSUME TreeInv, NEW S,
         \A n \in places : (\A k \in KidsIn(places, n) : k \in S) => n \in S
  PROVE  places \subseteq S
<1> DEFINE T == {h \in Nat : \A n \in places : HeightOf(n) = h => n \in S}
<1>1. PICK c : c = HeightOf(Root) + 1
  OBVIOUS
<1>2. Root \in places /\ \A n \in places : HeightOf(n) \in Nat /\ HeightOf(n) < c
  <2>1. Root \in places /\ HeightOf(Root) \in Nat
    BY HeightIs DEF TreeInv
  <2> SUFFICES ASSUME NEW n \in places PROVE HeightOf(n) \in Nat /\ HeightOf(n) < c
    BY <2>1
  <2>2. n \in Below(Root)
    BY PrefixOrder DEF Below, BelowIn, TreeInv, Root
  <2>3. HeightOf(n) \in Nat
    BY HeightIs
  <2>4. n = Root \/ HeightOf(n) < HeightOf(Root)
    BY <2>1, <2>2, HeightFalls
  <2> QED BY <1>1, <2>1, <2>3, <2>4
<1>3. c \in Nat
  BY <1>1, <1>2
<1>4. ASSUME NEW h \in 0 .. c - 1, \A m \in 0 .. h - 1 : m \in T
      PROVE  h \in T
  <2> SUFFICES ASSUME NEW n \in places, HeightOf(n) = h PROVE n \in S
    BY <1>3
  <2>1. ASSUME NEW k \in KidsIn(places, n) PROVE k \in S
    <3>1. k \in places /\ HeightOf(k) < h
      BY <2>1, KidBelow, HeightFalls
    <3>2. HeightOf(k) \in T
      BY <1>2, <1>4, <3>1
    <3> QED BY <3>1, <3>2
  <2> QED BY <2>1
<1>5. 0 .. c - 1 \subseteq T
  <2> HIDE DEF T
  <2> QED BY <1>3, <1>4, StrongInduction
<1> QED BY <1>2, <1>3, <1>5

-----------------------------------------------------------------------------
(* Hiding the rest *)

Visited(nodes) == {n \in places : \A h \in nodes : ~IsStrictPrefix(h, n)}

OnPath(nodes, f) ==
  f = [n \in places |-> n \in nodes \/ \E kid \in KidsIn(places, n) \cap Visited(nodes) : f[kid]]

\* n is one of the nodes or leads to one.
Leads(nodes, n) == n \in nodes \/ (n \in Visited(nodes) /\ \E h \in nodes : IsPrefix(n, h))

LEMMA LeadsFromKids ==
  ASSUME TreeInv, NEW nodes, nodes \subseteq places, NEW n \in places
  PROVE  Leads(nodes, n) <=>
           n \in nodes \/ \E kid \in KidsIn(places, n) \cap Visited(nodes) : Leads(nodes, kid)
<1>1. ASSUME Leads(nodes, n), n \notin nodes
      PROVE  \E kid \in KidsIn(places, n) \cap Visited(nodes) : Leads(nodes, kid)
  <2>1. n \in Visited(nodes) /\ \E h \in nodes : IsPrefix(n, h)
    BY <1>1 DEF Leads
  <2>2. PICK h \in nodes : IsPrefix(n, h)
    BY <2>1
  <2>3. h \in places /\ n # h /\ n \in PlaceSet /\ h \in PlaceSet
    BY <1>1 DEF TreeInv
  <2>4. PICK kid \in KidsIn(places, n) : IsPrefix(kid, h)
    BY <2>2, <2>3, BelowIs
  <2>5. kid \in PlaceSet /\ kid # <<>> /\ Front(kid) = n /\ kid \in places
    BY DEF KidsIn, TreeInv, Root
  <2>6. PICK a \in Alternatives : kid = Append(n, a)
    BY <2>3, <2>5, FrontIs
  <2>7. ASSUME NEW g \in nodes PROVE ~IsStrictPrefix(g, kid)
    <3>1. g \in PlaceSet
      BY DEF TreeInv
    <3>2. IsPrefix(g, kid) => g = kid \/ IsPrefix(g, n)
      BY <2>3, <2>6, <3>1, AppendIs
    <3>3. ~IsStrictPrefix(g, n) /\ g # n
      BY <1>1, <2>1 DEF Visited
    <3> QED BY <3>2, <3>3 DEF IsStrictPrefix
  <2>8. kid \in Visited(nodes)
    BY <2>5, <2>7 DEF Visited
  <2> QED BY <2>4, <2>8 DEF Leads
<1>2. ASSUME NEW kid \in KidsIn(places, n) \cap Visited(nodes), Leads(nodes, kid)
      PROVE  Leads(nodes, n)
  <2>1. kid \in PlaceSet /\ kid # <<>> /\ Front(kid) = n /\ n \in PlaceSet
    BY DEF KidsIn, TreeInv, Root
  <2>2. PICK a \in Alternatives : kid = Append(n, a)
    BY <2>1, FrontIs
  <2>3. IsPrefix(n, kid) /\ ~IsPrefix(kid, n) /\ kid # n
    BY <2>1, <2>2, AppendIs
  <2>4. PICK h \in nodes : IsPrefix(kid, h)
    BY <1>2, <2>1, PrefixOrder DEF Leads
  <2>5. IsPrefix(n, h)
    BY <2>1, <2>3, <2>4, PrefixOrder DEF TreeInv
  <2>6. ASSUME NEW g \in nodes PROVE ~IsStrictPrefix(g, n)
    <3>1. g \in PlaceSet
      BY DEF TreeInv
    <3>2. ~IsStrictPrefix(g, kid)
      BY DEF Visited
    <3>3. IsPrefix(g, n) => IsPrefix(g, kid) /\ g # kid
      BY <2>1, <2>3, <3>1, PrefixOrder
    <3> QED BY <3>2, <3>3 DEF IsStrictPrefix
  <2>7. n \in Visited(nodes)
    BY <2>6 DEF Visited
  <2> QED BY <2>5, <2>7 DEF Leads
<1>3. n \in nodes => Leads(nodes, n)
  BY DEF Leads
<1> QED BY <1>1, <1>2, <1>3

\* The function HideRest recurses with says which nodes lead to one.
LEMMA OnPathIs ==
  ASSUME TreeInv, NEW nodes, nodes \subseteq places
  PROVE  /\ \E f : OnPath(nodes, f)
         /\ \A f : OnPath(nodes, f) => \A n \in places : f[n] <=> Leads(nodes, n)
<1>1. \E f : OnPath(nodes, f)
  <2> DEFINE g == [n \in places |-> Leads(nodes, n)]
  <2>1. \A n \in places : g[n] <=>
          n \in nodes \/ \E kid \in KidsIn(places, n) \cap Visited(nodes) : g[kid]
    <3> SUFFICES ASSUME NEW n \in places
                 PROVE  g[n] <=>
                   n \in nodes \/ \E kid \in KidsIn(places, n) \cap Visited(nodes) : g[kid]
      OBVIOUS
    <3>1. KidsIn(places, n) \subseteq places
      BY DEF KidsIn
    <3>2. \A kid \in KidsIn(places, n) : g[kid] = Leads(nodes, kid)
      BY <3>1
    <3>3. g[n] = Leads(nodes, n)
      OBVIOUS
    <3> HIDE DEF g
    <3> QED BY <3>2, <3>3, LeadsFromKids, Zenon
  <2>2. \A n \in places : g[n] =
          (n \in nodes \/ \E kid \in KidsIn(places, n) \cap Visited(nodes) : g[kid])
    <3>1. \A n \in places : g[n] = Leads(nodes, n)
      OBVIOUS
    <3>2. \A n \in places : Leads(nodes, n) \in BOOLEAN
      BY DEF Leads
    <3> HIDE DEF g
    <3> QED BY <2>1, <3>1, <3>2
  <2>3. g = [n \in places |->
               n \in nodes \/ \E kid \in KidsIn(places, n) \cap Visited(nodes) : g[kid]]
    <3>1. g = [n \in places |-> g[n]]
      OBVIOUS
    <3> HIDE DEF g
    <3> QED BY <2>2, <3>1, Zenon
  <2> HIDE DEF g
  <2> QED BY <2>3, Zenon DEF OnPath
<1>2. ASSUME NEW f, OnPath(nodes, f)
      PROVE  \A n \in places : f[n] <=> Leads(nodes, n)
  <2>1. \A n \in places : f[n] <=>
          n \in nodes \/ \E kid \in KidsIn(places, n) \cap Visited(nodes) : f[kid]
    BY <1>2, Zenon DEF OnPath
  <2> DEFINE S == {n \in places : f[n] <=> Leads(nodes, n)}
  <2>2. ASSUME NEW n \in places, \A k \in KidsIn(places, n) : k \in S
        PROVE  n \in S
    <3>1. \A k \in KidsIn(places, n) : f[k] <=> Leads(nodes, k)
      BY <2>2
    <3>2. f[n] <=> Leads(nodes, n)
      BY <2>1, <3>1, LeadsFromKids, Zenon
    <3> QED BY <3>2
  <2>3. places \subseteq S
    <3> HIDE DEF S
    <3> QED BY <2>2, FromLeaves
  <2> QED BY <2>3
<1> QED BY <1>1, <1>2

LEMMA HideRestIs ==
  ASSUME TreeInv, NEW nodes, nodes \subseteq places
  PROVE  DOMAIN HideRest(nodes) = {m \in Visited(nodes) : \A h \in nodes : ~IsPrefix(m, h)}
<1>1. PICK f : f = CHOOSE g : OnPath(nodes, g)
  OBVIOUS
<1>2. OnPath(nodes, f)
  BY <1>1, OnPathIs, Zenon
<1>3. \A n \in places : f[n] <=> Leads(nodes, n)
  BY <1>2, OnPathIs
<1>4. HideRest(nodes) = [n \in {m \in Visited(nodes) : ~f[m]} |-> Triangle]
  BY <1>1, Zenon DEF HideRest, OnPath, Visited
<1>5. \A m \in Visited(nodes) : f[m] <=> \E h \in nodes : IsPrefix(m, h)
  <2> SUFFICES ASSUME NEW m \in Visited(nodes)
               PROVE  Leads(nodes, m) <=> \E h \in nodes : IsPrefix(m, h)
    BY <1>3 DEF Visited
  <2>1. m \in PlaceSet
    BY DEF Visited, TreeInv
  <2> QED BY <2>1, PrefixOrder DEF Leads
<1>6. DOMAIN HideRest(nodes) = {m \in Visited(nodes) : ~f[m]}
  BY <1>4
<1> QED BY <1>5, <1>6

-----------------------------------------------------------------------------
(* The order of the ids *)

\* Behind its end a place has zeros.
StepAt(p, i) == IF i <= Len(p) THEN p[i] ELSE 0
\* p and q part at i, and p is smaller there.
PartsAt(p, q, i) ==
  i \in Nat \ {0} /\ StepAt(p, i) < StepAt(q, i) /\ \A j \in 1 .. i - 1 : StepAt(p, j) = StepAt(q, j)

LEMMA StepsAt ==
  ASSUME NEW p \in PlaceSet, NEW i \in Nat \ {0}
  PROVE  /\ StepAt(p, i) \in Nat /\ Len(p) \in Nat
         /\ StepAt(p, i) = 0 <=> i > Len(p)
         /\ i <= Len(p) => StepAt(p, i) = p[i]
<1>1. Len(p) \in Nat /\ \A k \in 1 .. Len(p) : p[k] \in Alternatives
  BY ElementOfSeq, LenProperties DEF PlaceSet
<1>2. i <= Len(p) => p[i] \in Nat /\ p[i] # 0
  <2>1. i <= Len(p) => i \in 1 .. Len(p)
    BY <1>1
  <2> QED BY <1>1, <2>1 DEF Alternatives
<1> QED BY <1>1, <1>2 DEF StepAt

LEMMA SoonerIs ==
  ASSUME NEW p \in PlaceSet, NEW q \in PlaceSet
  PROVE  Sooner(p, q) <=> \E i : PartsAt(p, q, i)
<1>1. /\ Len(p) \in Nat /\ Len(q) \in Nat /\ DOMAIN p = 1 .. Len(p) /\ DOMAIN q = 1 .. Len(q)
  BY LenProperties DEF PlaceSet
<1>2. ASSUME IsStrictPrefix(p, q) PROVE \E i : PartsAt(p, q, i)
  <2>1. IsPrefix(p, q) /\ p # q
    BY <1>2 DEF IsStrictPrefix
  <2>2. Len(p) < Len(q) /\ \A j \in 1 .. Len(p) : p[j] = q[j]
    BY <2>1, StepDown, PrefixIs
  <2>3. PICK i : i = Len(p) + 1
    OBVIOUS
  <2>4. i \in Nat \ {0} /\ i > Len(p) /\ i <= Len(q)
    BY <1>1, <2>2, <2>3
  <2>5. StepAt(p, i) = 0 /\ StepAt(q, i) \in Nat /\ StepAt(q, i) # 0
    BY <1>1, <2>4, StepsAt
  <2>6. \A j \in 1 .. i - 1 : StepAt(p, j) = StepAt(q, j)
    BY <1>1, <2>2, <2>3 DEF StepAt
  <2>7. PartsAt(p, q, i)
    BY <2>4, <2>5, <2>6 DEF PartsAt
  <2> QED BY <2>7
<1>3. ASSUME NEW i \in DOMAIN p \cap DOMAIN q, p[i] < q[i], \A j \in 1 .. i - 1 : p[j] = q[j]
      PROVE  PartsAt(p, q, i)
  <2>1. i \in Nat \ {0} /\ i <= Len(p) /\ i <= Len(q)
    BY <1>1
  <2>2. StepAt(p, i) < StepAt(q, i)
    BY <1>3, <2>1, StepsAt
  <2>3. \A j \in 1 .. i - 1 : StepAt(p, j) = StepAt(q, j)
    BY <1>1, <1>3, <2>1 DEF StepAt
  <2> QED BY <2>1, <2>2, <2>3 DEF PartsAt
<1>4. ASSUME NEW i, PartsAt(p, q, i) PROVE Sooner(p, q)
  <2>1. i \in Nat \ {0} /\ StepAt(p, i) < StepAt(q, i) /\ \A j \in 1 .. i - 1 : StepAt(p, j) = StepAt(q, j)
    BY <1>4 DEF PartsAt
  <2>2. i <= Len(q)
    <3>1. StepAt(p, i) \in Nat /\ StepAt(q, i) \in Nat /\ (StepAt(q, i) = 0 <=> i > Len(q))
      BY <2>1, StepsAt
    <3> QED BY <1>1, <2>1, <3>1
  <2>3. CASE i <= Len(p)
    <3>1. p[i] < q[i]
      BY <2>1, <2>2, <2>3, StepsAt
    <3>2. \A j \in 1 .. i - 1 : p[j] = q[j]
      BY <1>1, <2>1, <2>2, <2>3 DEF StepAt
    <3>3. i \in DOMAIN p \cap DOMAIN q
      BY <1>1, <2>1, <2>2, <2>3
    <3> QED BY <3>1, <3>2, <3>3 DEF Sooner
  <2>4. CASE i > Len(p)
    <3>1. ASSUME NEW j \in 1 .. i - 1 PROVE j <= Len(p)
      <4>1. j \in Nat \ {0} /\ j <= Len(q)
        BY <1>1, <2>1, <2>2
      <4>2. StepAt(p, j) # 0
        BY <1>1, <2>1, <4>1, StepsAt
      <4> QED BY <1>1, <4>1, <4>2, StepsAt
    <3>2. i = Len(p) + 1
      <4>1. Len(p) + 1 <= i - 1 => Len(p) + 1 \in 1 .. i - 1
        BY <1>1, <2>1
      <4> QED BY <1>1, <2>1, <2>4, <3>1, <4>1
    <3>3. Len(p) < Len(q) /\ \A j \in 1 .. Len(p) : p[j] = q[j]
      BY <1>1, <2>1, <2>2, <3>2 DEF StepAt
    <3>4. IsPrefix(p, q) /\ p # q
      BY <1>1, <3>3, PrefixIs
    <3> QED BY <3>4 DEF Sooner, IsStrictPrefix
  <2> QED BY <1>1, <2>1, <2>3, <2>4
<1> QED BY <1>2, <1>3, <1>4 DEF Sooner

LEMMA SoonerTotal ==
  ASSUME NEW p \in PlaceSet, NEW q \in PlaceSet, p # q
  PROVE  Sooner(p, q) \/ Sooner(q, p)
<1>1. /\ Len(p) \in Nat /\ Len(q) \in Nat
  BY LenProperties DEF PlaceSet
<1> DEFINE D == {i \in Nat \ {0} : StepAt(p, i) # StepAt(q, i)}
<1>2. D # {}
  <2> SUFFICES ASSUME \A i \in Nat \ {0} : StepAt(p, i) = StepAt(q, i) PROVE FALSE
    OBVIOUS
  <2>1. Len(p) + 1 \in Nat \ {0} /\ Len(q) + 1 \in Nat \ {0}
    BY <1>1
  <2>2. ~(Len(p) + 1 <= Len(q)) /\ ~(Len(q) + 1 <= Len(p))
    <3>1. PICK a, b : a = Len(p) + 1 /\ b = Len(q) + 1
      OBVIOUS
    <3>2. a \in Nat \ {0} /\ b \in Nat \ {0}
      BY <2>1, <3>1
    <3>3. StepAt(p, a) = 0 /\ (StepAt(q, a) = 0 <=> a > Len(q))
          /\ StepAt(q, b) = 0 /\ (StepAt(p, b) = 0 <=> b > Len(p))
      BY <1>1, <3>1, <3>2, StepsAt
    <3>4. StepAt(q, a) = 0 /\ StepAt(p, b) = 0
      BY <3>2, <3>3
    <3> QED BY <1>1, <3>1, <3>2, <3>3, <3>4
  <2>3. Len(p) = Len(q)
    BY <1>1, <2>2
  <2>4. ASSUME NEW i \in 1 .. Len(p) PROVE p[i] = q[i]
    BY <1>1, <2>3 DEF StepAt
  <2> QED BY <2>3, <2>4, SamePlace
<1>3. D \subseteq Nat
  OBVIOUS
<1>4. PICK i \in D : \A k \in D : i <= k
  <2> HIDE DEF D
  <2> QED BY <1>2, <1>3, LeastNumber
<1>5. ASSUME NEW j \in 1 .. i - 1 PROVE StepAt(p, j) = StepAt(q, j)
  <2>1. j \in Nat \ {0} /\ ~(i <= j)
    OBVIOUS
  <2> QED BY <1>4, <2>1
<1>6. StepAt(p, i) \in Nat /\ StepAt(q, i) \in Nat /\ StepAt(p, i) # StepAt(q, i)
  BY StepsAt
<1>7. PartsAt(p, q, i) \/ PartsAt(q, p, i)
  BY <1>5, <1>6 DEF PartsAt
<1> QED BY <1>7, SoonerIs

LEMMA SoonerThanSooner ==
  ASSUME NEW p \in PlaceSet, NEW q \in PlaceSet, NEW s \in PlaceSet, Sooner(p, q), Sooner(q, s)
  PROVE  Sooner(p, s)
<1>1. PICK i : PartsAt(p, q, i)
  BY SoonerIs
<1>2. PICK j : PartsAt(q, s, j)
  BY SoonerIs
<1>3. PICK k : k = IF i <= j THEN i ELSE j
  OBVIOUS
<1>4. i \in Nat \ {0} /\ j \in Nat \ {0} /\ k \in Nat \ {0} /\ k <= i /\ k <= j /\ (k = i \/ k = j)
  BY <1>1, <1>2, <1>3 DEF PartsAt
<1>5. ASSUME NEW a \in 1 .. k - 1 PROVE StepAt(p, a) = StepAt(s, a)
  <2>1. a \in 1 .. i - 1 /\ a \in 1 .. j - 1
    BY <1>4
  <2> QED BY <1>1, <1>2, <2>1 DEF PartsAt
<1>6. StepAt(p, k) < StepAt(s, k)
  <2>1. StepAt(p, k) \in Nat /\ StepAt(q, k) \in Nat /\ StepAt(s, k) \in Nat
    BY <1>4, StepsAt
  <2>2. StepAt(p, k) <= StepAt(q, k) /\ (k = i => StepAt(p, k) < StepAt(q, k))
    <3>1. k = i \/ k \in 1 .. i - 1
      BY <1>4
    <3> QED BY <1>1, <2>1, <3>1 DEF PartsAt
  <2>3. StepAt(q, k) <= StepAt(s, k) /\ (k = j => StepAt(q, k) < StepAt(s, k))
    <3>1. k = j \/ k \in 1 .. j - 1
      BY <1>4
    <3> QED BY <1>2, <2>1, <3>1 DEF PartsAt
  <2> QED BY <1>4, <2>1, <2>2, <2>3
<1>7. PartsAt(p, s, k)
  BY <1>4, <1>5, <1>6 DEF PartsAt
<1> QED BY <1>7, SoonerIs

ByIds(g) == {r \in g \X g : IdBefore(r[1], r[2])}

\* One of two nodes comes first.
LEMMA IdsInOrder ==
  ASSUME NEW g, g \subseteq PlaceSet, NEW R, R = ByIds(g)
  PROVE  /\ \A x \in g : <<x, x>> \notin R
         /\ \A x, y \in g : x = y \/ <<x, y>> \in R \/ <<y, x>> \in R
         /\ \A x, y, z \in g : <<x, y>> \in R /\ <<y, z>> \in R => <<x, z>> \in R
<1>1. \A x, y \in g : <<x, y>> \in R <=> IdBefore(x, y)
  BY DEF ByIds
<1>2. ASSUME NEW x \in g, x # Root
      PROVE  /\ Parent(x) \in PlaceSet /\ Alternative(x) \in Nat
             /\ \A y \in g : y # Root /\ Parent(y) = Parent(x) /\ Alternative(y) = Alternative(x)
                               => x = y
  <2>1. \A y \in g : y # Root =>
          /\ Parent(y) \in PlaceSet /\ Alternative(y) \in Alternatives
          /\ Append(Parent(y), Alternative(y)) = y
    BY FrontIs DEF Parent, Alternative, Root
  <2> QED BY <1>2, <2>1 DEF Alternatives
<1>3. \A x \in g : ~IdBefore(x, x)
  BY <1>2 DEF IdBefore
<1>4. ASSUME NEW x \in g, NEW y \in g, x # y PROVE IdBefore(x, y) \/ IdBefore(y, x)
  <2>1. CASE x = Root \/ y = Root
    BY <1>4, <2>1 DEF IdBefore
  <2>2. CASE x # Root /\ y # Root /\ Parent(x) = Parent(y)
    BY <1>2, <1>4, <2>2 DEF IdBefore
  <2>3. CASE x # Root /\ y # Root /\ Parent(x) # Parent(y)
    BY <1>2, <2>3, SoonerTotal DEF IdBefore
  <2> QED BY <2>1, <2>2, <2>3
<1>5. ASSUME NEW x \in g, NEW y \in g, NEW z \in g, IdBefore(x, y), IdBefore(y, z)
      PROVE  IdBefore(x, z)
  <2>1. y # Root /\ z # Root
    BY <1>5 DEF IdBefore
  <2>2. CASE x = Root
    BY <2>1, <2>2 DEF IdBefore
  <2>3. CASE x # Root
    <3>1. PICK a, b, c : a = Parent(x) /\ b = Parent(y) /\ c = Parent(z)
      OBVIOUS
    <3>2. PICK i, j, k : i = Alternative(x) /\ j = Alternative(y) /\ k = Alternative(z)
      OBVIOUS
    <3>3. /\ a \in PlaceSet /\ b \in PlaceSet /\ c \in PlaceSet
          /\ i \in Nat /\ j \in Nat /\ k \in Nat
      BY <1>2, <2>1, <2>3, <3>1, <3>2
    <3>4. IF a = b THEN i < j ELSE Sooner(a, b)
      BY <1>5, <2>1, <2>3, <3>1, <3>2 DEF IdBefore
    <3>5. IF b = c THEN j < k ELSE Sooner(b, c)
      BY <1>5, <2>1, <2>3, <3>1, <3>2 DEF IdBefore
    <3>6. IF a = c THEN i < k ELSE Sooner(a, c)
      <4>1. CASE a = b /\ b = c
        BY <3>3, <3>4, <3>5, <4>1
      <4>2. CASE ~(a = b /\ b = c)
        <5>1. Sooner(a, c)
          BY <3>3, <3>4, <3>5, <4>2, SoonerThanSooner
        <5>2. a # c
          BY <3>3, <5>1, NotSoonerThanItself
        <5> QED BY <5>1, <5>2
      <4> QED BY <4>1, <4>2
    <3> QED BY <2>1, <2>3, <3>1, <3>2, <3>6 DEF IdBefore
  <2> QED BY <2>2, <2>3
<1> QED BY <1>1, <1>3, <1>4, <1>5

\* The nodes of a pattern in the order of their ids are its nodes.
LEMMA ByIdIs ==
  ASSUME NEW g, IsFiniteSet(g), g \subseteq PlaceSet
  PROVE  /\ DOMAIN ById(g) = 1 .. Cardinality(g) /\ Cardinality(g) \in Nat
         /\ ToSet(ById(g)) = g
<1>1. PICK s : s = ById(g)
  OBVIOUS
<1>2. PICK R : R = ByIds(g)
  OBVIOUS
<1>3. \A m \in g : {k \in g : <<k, m>> \in R} = {k \in g : IdBefore(k, m)}
  BY <1>2 DEF ByIds
<1>4. s = [i \in 1 .. Cardinality(g) |->
             CHOOSE n \in g : Cardinality({m \in g : IdBefore(m, n)}) = i - 1]
  BY <1>1 DEF ById
<1>5. DOMAIN s = 1 .. Cardinality(g)
  BY <1>4
<1>6. ASSUME NEW i \in DOMAIN s, NEW m \in g, Cardinality({k \in g : <<k, m>> \in R}) = i - 1
      PROVE  s[i] \in g /\ Cardinality({k \in g : <<k, s[i]>> \in R}) = i - 1
  <2>1. Cardinality({k \in g : IdBefore(k, m)}) = i - 1
    BY <1>3, <1>6
  <2>2. s[i] = CHOOSE n \in g : Cardinality({k \in g : IdBefore(k, n)}) = i - 1
    BY <1>4, <1>5
  <2>3. s[i] \in g /\ Cardinality({k \in g : IdBefore(k, s[i])}) = i - 1
    BY <2>1, <2>2, Zenon
  <2> QED BY <1>3, <2>3
<1>7. ByRank(s, g, R)
  BY <1>5, <1>6 DEF ByRank
<1>8. Cardinality(g) \in Nat /\ InRow(s, g, R)
  BY <1>2, <1>7, IdsInOrder, Ranking
<1>9. ToSet(s) = g
  BY <1>8 DEF InRow, ToSet
<1> QED BY <1>1, <1>5, <1>8, <1>9

-----------------------------------------------------------------------------
(* The two analyses *)

Refining(c, f) ==
  f = [h \in 1 .. c |-> IF h = 1 THEN InitialPartition ELSE PartitionStep(f[h - 1], h - 1)]

\* The function IdenticalSubtrees recurses with exists.
LEMMA RefiningExists ==
  ASSUME NEW c \in Nat
  PROVE  \E f : Refining(c, f)
<1> DEFINE S == {i \in Nat : \E f : Refining(i, f)}
<1>1. 0 \in S
  <2> DEFINE f == [h \in 1 .. 0 |-> InitialPartition]
  <2>1. f = [h \in 1 .. 0 |-> IF h = 1 THEN InitialPartition ELSE PartitionStep(f[h - 1], h - 1)]
    OBVIOUS
  <2>2. Refining(0, f)
    <3> HIDE DEF f
    <3> QED BY <2>1 DEF Refining
  <2> QED BY <2>2
<1>2. ASSUME NEW i \in Nat, i \in S PROVE i + 1 \in S
  <2>1. PICK f : Refining(i, f)
    BY <1>2
  <2> DEFINE new == IF i = 0 THEN InitialPartition ELSE PartitionStep(f[i], i)
             g == [j \in 1 .. i + 1 |-> IF j = i + 1 THEN new ELSE f[j]]
  <2>2. \A j \in 1 .. i : f[j] = IF j = 1 THEN InitialPartition ELSE PartitionStep(f[j - 1], j - 1)
    BY <2>1, Zenon DEF Refining
  <2>3. \A j \in 1 .. i : g[j] = f[j]
    OBVIOUS
  <2>4. \A j \in 1 .. i + 1 :
          g[j] = IF j = 1 THEN InitialPartition ELSE PartitionStep(g[j - 1], j - 1)
    <3> SUFFICES ASSUME NEW j \in 1 .. i + 1
                 PROVE  g[j] = IF j = 1 THEN InitialPartition ELSE PartitionStep(g[j - 1], j - 1)
      OBVIOUS
    <3>1. CASE j = i + 1
      <4>1. g[j] = new /\ j - 1 = i /\ (i # 0 => g[i] = f[i]) /\ (j = 1 <=> i = 0)
        BY <2>3, <3>1
      <4> HIDE DEF g
      <4> QED BY <4>1
    <3>2. CASE j # i + 1
      <4>1. j \in 1 .. i /\ (j # 1 => j - 1 \in 1 .. i)
        BY <3>2
      <4>2. g[j] = f[j] /\ (j # 1 => g[j - 1] = f[j - 1])
        BY <2>3, <4>1
      <4> HIDE DEF g
      <4> QED BY <2>2, <4>1, <4>2
    <3> QED BY <3>1, <3>2
  <2>5. g = [j \in 1 .. i + 1 |-> g[j]]
    OBVIOUS
  <2>6. Refining(i + 1, g)
    <3> HIDE DEF g
    <3> QED BY <2>4, <2>5, Zenon DEF Refining
  <2> QED BY <2>6
<1>3. c \in S
  <2> HIDE DEF S
  <2> QED BY <1>1, <1>2, SetInduction
<1> QED BY <1>3

Refinement(c) == CHOOSE f : Refining(c, f)

LEMMA IdenticalIs ==
  ASSUME NEW c \in Nat, c = HeightOf(Root)
  PROVE  /\ IdenticalSubtrees = Refinement(c)[c].processed
         /\ \A h \in 1 .. c : Refinement(c)[h] =
              IF h = 1 THEN InitialPartition ELSE PartitionStep(Refinement(c)[h - 1], h - 1)
<1>1. PICK f : f = Refinement(c)
  OBVIOUS
<1>2. Refining(c, f)
  BY <1>1, RefiningExists, Zenon DEF Refinement
<1>3. \A h \in 1 .. c : f[h] = IF h = 1 THEN InitialPartition ELSE PartitionStep(f[h - 1], h - 1)
  BY <1>2, Zenon DEF Refining
<1>4. IdenticalSubtrees = Refinement(c)[c].processed
  BY Zenon DEF IdenticalSubtrees, Refinement, Refining
<1> QED BY <1>1, <1>3, <1>4

\* The groups are groups of nodes.
Grouped(p) ==
  p.processed \subseteq SUBSET places /\ p.remaining \subseteq SUBSET places

LEMMA SeparatedIs ==
  ASSUME NEW groups, groups \subseteq SUBSET places, NEW marked
  PROVE  Separated(groups, marked) \subseteq SUBSET places
BY DEF Separated

LEMMA RefinedStep ==
  ASSUME NEW p, Grouped(p), NEW h
  PROVE  Grouped(PartitionStep(p, h))
<1>1. PICK remaining : remaining = Separated(p.remaining, Marked(OfHeight(p.processed, h)))
  OBVIOUS
<1>2. remaining \subseteq SUBSET places
  BY <1>1, SeparatedIs DEF Grouped
<1>3. OfHeight(remaining, h + 1) \subseteq remaining
  BY DEF OfHeight
<1>4. /\ PartitionStep(p, h).processed = p.processed \cup OfHeight(remaining, h + 1)
      /\ PartitionStep(p, h).remaining = remaining \ OfHeight(remaining, h + 1)
  BY <1>1 DEF PartitionStep
<1> QED BY <1>2, <1>3, <1>4 DEF Grouped

LEMMA IdenticalGrouped ==
  ASSUME TreeInv, DOMAIN status \subseteq places
  PROVE  IdenticalSubtrees \subseteq SUBSET places
<1>1. PICK c : c = HeightOf(Root)
  OBVIOUS
<1>2. c \in Nat \ {0}
  BY <1>1, HeightIs DEF TreeInv
<1>3. PICK f : f = Refinement(c)
  OBVIOUS
<1>4. \A h \in 1 .. c : f[h] = IF h = 1 THEN InitialPartition ELSE PartitionStep(f[h - 1], h - 1)
  BY <1>1, <1>2, <1>3, IdenticalIs
<1>5. Grouped(InitialPartition)
  <2>1. InitialPartition.processed \subseteq SUBSET places
    BY DEF InitialPartition
  <2>2. InitialPartition.remaining \subseteq SUBSET places
    BY DEF InitialPartition
  <2> QED BY <2>1, <2>2 DEF Grouped
<1> DEFINE T == {h \in Nat : h + 1 \in 1 .. c => Grouped(f[h + 1])}
<1>6. 0 \in T
  <2>1. 1 \in 1 .. c => f[1] = InitialPartition
    BY <1>4
  <2> QED BY <1>5, <2>1
<1>7. ASSUME NEW h \in Nat, h \in T PROVE h + 1 \in T
  <2> SUFFICES ASSUME h + 1 + 1 \in 1 .. c PROVE Grouped(f[h + 1 + 1])
    OBVIOUS
  <2>1. PICK i, j : i = h + 1 /\ j = i + 1
    OBVIOUS
  <2>2. i \in 1 .. c /\ j \in 1 .. c /\ j # 1 /\ j - 1 = i
    BY <1>2, <2>1
  <2>3. Grouped(f[i])
    BY <1>7, <2>1, <2>2
  <2>4. f[j] = PartitionStep(f[i], i)
    BY <1>4, <2>2
  <2> HIDE DEF T
  <2> QED BY <2>1, <2>3, <2>4, RefinedStep
<1>8. \A h \in Nat : h \in T
  <2> HIDE DEF T
  <2> QED BY <1>6, <1>7, SetInduction
<1>9. Grouped(f[c])
  <2>1. PICK b : b = c - 1
    OBVIOUS
  <2>2. b \in Nat /\ b + 1 = c /\ c \in 1 .. c
    BY <1>2, <2>1
  <2>3. b \in T
    BY <1>8, <2>2
  <2> QED BY <2>2, <2>3
<1>10. IdenticalSubtrees = f[c].processed
  BY <1>1, <1>2, <1>3, IdenticalIs
<1> QED BY <1>9, <1>10 DEF Grouped

\* A pattern stands for two nodes at least.
IsPattern(p) ==
  /\ p.nodes \subseteq places /\ p.nodes # {} /\ Cardinality(p.nodes) >= 2

LEMMA AnalyseIs ==
  ASSUME TreeInv, DOMAIN status \subseteq places, NEW type,
         NEW groups, groups \subseteq SUBSET places
  PROVE  /\ IsFiniteSet(Analyse(type, groups))
         /\ \A p \in Analyse(type, groups) : IsPattern(p)
<1>1. PICK G : G = IF type = "subtree" THEN IdenticalSubtrees ELSE groups
  OBVIOUS
<1>2. G \subseteq SUBSET places
  BY <1>1, IdenticalGrouped
<1>3. IsFiniteSet(SUBSET places)
  BY FS_SUBSET DEF TreeInv
<1>4. IsFiniteSet(G)
  BY <1>2, <1>3, FS_Subset
<1> DEFINE P == {PatternOf(g) : g \in G}
           f == [g \in G |-> PatternOf(g)]
<1>5. IsFiniteSet(P)
  <2>1. f \in Surjection(G, P)
    BY DEF Surjection
  <2> HIDE DEF f, P
  <2> QED BY <1>4, <2>1, FS_Surjection
<1>6. Analyse(type, groups) = {p \in P : Count(p) >= 2 /\ p.height >= 2}
  BY <1>1 DEF Analyse
<1>7. IsFiniteSet(Analyse(type, groups))
  <2> HIDE DEF P
  <2> QED BY <1>5, <1>6, FS_Subset
<1>8. ASSUME NEW p \in Analyse(type, groups) PROVE IsPattern(p)
  <2>1. PICK g \in G : p = PatternOf(g)
    BY <1>6
  <2>2. p.nodes = g /\ Cardinality(g) >= 2
    BY <1>6, <2>1 DEF PatternOf, Count
  <2>3. g # {}
    BY <2>2, FS_EmptySet
  <2> QED BY <1>2, <2>2, <2>3 DEF IsPattern
<1> QED BY <1>7, <1>8

-----------------------------------------------------------------------------
(* The histogram *)

\* What is kept depends on three of the settings.
LEMMA KeptBy ==
  ASSUME NEW P, NEW w, NEW v, v.minCount = w.minCount, v.minHeight = w.minHeight,
         v.subsumed = w.subsumed
  PROVE  Kept(P, v) = Kept(P, w) /\ Kept(P, w) \subseteq P
BY DEF Kept, EliminateSubsumed

\* Sorting leaves nothing out.
LEMMA SortedIs ==
  ASSUME NEW P, IsFiniteSet(P), NEW sort, NEW s \in Sorted(P, sort)
  PROVE  /\ ToSet(s) = P /\ Len(s) \in Nat /\ DOMAIN s = 1 .. Len(s)
         /\ \A i \in 1 .. Len(s) : s[i] \in P
<1>1. PICK n : n = Cardinality(P)
  OBVIOUS
<1>2. n \in Nat
  BY <1>1, FS_CardinalityType
<1>3. s \in [1 .. n -> P] /\ \A i, j \in 1 .. n : i # j => s[i] # s[j]
  BY <1>1 DEF Sorted, SetToSeqs
<1>4. s \in Injection(1 .. n, P)
  BY <1>3 DEF Injection, IsInjective
<1>5. IsFiniteSet(1 .. n) /\ Cardinality(1 .. n) = n
  BY <1>2, FS_Interval
<1>6. s \in Surjection(1 .. n, P)
  BY <1>1, <1>4, <1>5, FS_Injection
<1>7. DOMAIN s = 1 .. n /\ Len(s) = n
  <2>1. s \in Seq(P)
    BY <1>2, <1>3
  <2> QED BY <1>2, <1>3, <2>1, LenProperties
<1>8. ToSet(s) = P
  BY <1>3, <1>6 DEF ToSet, Surjection
<1> QED BY <1>2, <1>3, <1>7, <1>8

\* What is left out as subsumed is below what is kept.
LEMMA KeptAbove ==
  ASSUME TreeInv, NEW F, \A p \in F : p.nodes \subseteq places,
         NEW K, K = EliminateSubsumed(F), NEW p \in F \ K, NEW n \in p.nodes
  PROVE  \E q \in K : \E m \in q.nodes : IsStrictPrefix(m, n)
<1> DEFINE Covered(x) == \E q \in K : \E m \in q.nodes : IsStrictPrefix(m, x)
           T == {l \in Nat : \A q \in F \ K : \A x \in q.nodes : Len(x) = l => Covered(x)}
<1>1. \A q \in F : \A x \in q.nodes : x \in places /\ x \in PlaceSet /\ Len(x) \in Nat
  BY LenProperties DEF TreeInv, PlaceSet
<1>2. ASSUME NEW q \in F \ K, NEW x \in q.nodes
      PROVE  \E o \in F : \E m \in o.nodes : IsStrictPrefix(m, x) /\ Len(m) < Len(x)
  <2>1. q.nodes \subseteq KidsOf(F)
    BY DEF EliminateSubsumed
  <2>0. PICK o \in F : \E m \in o.nodes : x \in KidsIn(places, m)
    BY <2>1 DEF KidsOf
  <2>2. PICK m \in o.nodes : x \in KidsIn(places, m)
    BY <2>0
  <2>3. x \in PlaceSet /\ x # <<>> /\ m \in PlaceSet /\ m = Front(x) /\ Len(m) \in Nat
    BY <1>1, <2>2 DEF KidsIn, Root
  <2>4. PICK a \in Alternatives : x = Append(m, a)
    BY <2>3, FrontIs
  <2>5. IsPrefix(m, x) /\ m # x /\ Len(x) = Len(m) + 1
    BY <2>3, <2>4, AppendIs
  <2> QED BY <2>3, <2>5 DEF IsStrictPrefix
<1>3. PICK c : c = Len(n) + 1
  OBVIOUS
<1>4. c \in Nat /\ Len(n) \in 0 .. c - 1
  BY <1>1, <1>3
<1>5. ASSUME NEW l \in 0 .. c - 1, \A k \in 0 .. l - 1 : k \in T
      PROVE  l \in T
  <2> SUFFICES ASSUME NEW q \in F \ K, NEW x \in q.nodes, Len(x) = l PROVE Covered(x)
    BY <1>4
  <2>1. PICK o \in F : \E m \in o.nodes : IsStrictPrefix(m, x) /\ Len(m) < Len(x)
    BY <1>2
  <2>2. PICK m \in o.nodes : IsStrictPrefix(m, x) /\ Len(m) < Len(x)
    BY <2>1
  <2>3. CASE o \in K
    BY <2>2, <2>3
  <2>4. CASE o \notin K
    <3>1. Len(m) \in 0 .. l - 1
      BY <1>1, <2>2
    <3>2. Covered(m)
      BY <1>5, <2>4, <3>1
    <3>3. PICK r \in K : \E y \in r.nodes : IsStrictPrefix(y, m)
      BY <3>2
    <3>4. PICK y \in r.nodes : IsStrictPrefix(y, m)
      BY <3>3
    <3>5. r \in F
      BY DEF EliminateSubsumed
    <3>6. y \in PlaceSet /\ m \in PlaceSet /\ x \in PlaceSet
      BY <1>1, <3>5
    <3>7. IsPrefix(y, m) /\ y # m /\ IsPrefix(m, x)
      BY <2>2, <3>4 DEF IsStrictPrefix
    <3>8. IsPrefix(y, x) /\ y # x
      BY <3>6, <3>7, PrefixOrder
    <3> QED BY <3>8 DEF IsStrictPrefix
  <2> QED BY <2>3, <2>4
<1>6. 0 .. c - 1 \subseteq T
  <2> HIDE DEF T
  <2> QED BY <1>4, <1>5, StrongInduction
<1> QED BY <1>4, <1>6

LEMMA SubsumedIsCovered ==
  ASSUME TreeInv, \A p \in result : p.nodes \subseteq places
  PROVE  SubsumedCovered
<1> DEFINE F == {p \in result : Count(p) >= window.minCount /\ p.height >= window.minHeight}
<1> SUFFICES ASSUME ~window.subsumed, NEW p \in F \ Kept(result, window), NEW n \in p.nodes
             PROVE  \E q \in Kept(result, window) : \E m \in q.nodes : IsStrictPrefix(m, n)
  BY DEF SubsumedCovered
<1>1. Kept(result, window) = EliminateSubsumed(F)
  BY DEF Kept
<1>2. \A q \in F : q.nodes \subseteq places
  OBVIOUS
<1> HIDE DEF F
<1> QED BY <1>1, <1>2, KeptAbove

-----------------------------------------------------------------------------
(* The labels of two paths *)

LEMMA CopiesAre ==
  ASSUME NEW E, NEW s \in Seq(E), NEW l
  PROVE  Copies(s, l) \in Nat /\ (l \in ToSet(s) => Copies(s, l) # 0)
<1>1. Len(s) \in Nat /\ DOMAIN s = 1 .. Len(s)
  BY LenProperties
<1>2. IsFiniteSet(DOMAIN s)
  BY <1>1, FS_Interval
<1> DEFINE D == {i \in DOMAIN s : s[i] = l}
<1>3. IsFiniteSet(D)
  BY <1>2, FS_Subset
<1>4. Cardinality(D) \in Nat /\ (D # {} => Cardinality(D) # 0)
  <2> HIDE DEF D
  <2> QED BY <1>3, FS_CardinalityType, FS_EmptySet
<1>5. l \in ToSet(s) => D # {}
  BY DEF ToSet
<1> QED BY <1>4, <1>5 DEF Copies

LEMMA UniqueLabelsAre ==
  ASSUME NEW E, NEW s \in Seq(E), NEW t \in Seq(E), NEW l \in ToSet(s)
  PROVE  /\ Copies(t, l) = 0 => /\ l \in DOMAIN UniqueLabels(s, t)
                                /\ UniqueLabels(s, t)[l] = Copies(s, l)
         /\ Copies(t, l) = Copies(s, l) => l \notin DOMAIN UniqueLabels(s, t)
<1> DEFINE Differ(k) == Copies(s, k) - Copies(t, k)
           InDiff(k) == IF Differ(k) >= 0 THEN Differ(k) ELSE -Differ(k)
<1>1. UniqueLabels(s, t) =
        [k \in {j \in ToSet(s) : InDiff(j) > 0} |-> Smaller(Copies(s, k), InDiff(k))]
  BY DEF UniqueLabels
<1>2. Copies(s, l) \in Nat /\ Copies(t, l) \in Nat /\ Copies(s, l) # 0
  BY CopiesAre
<1>3. Copies(t, l) = 0 => InDiff(l) = Copies(s, l) /\ InDiff(l) > 0
  BY <1>2
<1>4. Copies(t, l) = Copies(s, l) => ~(InDiff(l) > 0)
  BY <1>2
<1>5. Smaller(Copies(s, l), Copies(s, l)) = Copies(s, l)
  BY DEF Smaller
<1> HIDE DEF InDiff
<1> QED BY <1>1, <1>3, <1>4, <1>5

LEMMA LabelPathIs ==
  ASSUME NEW n \in PlaceSet
  PROVE  \E E : LabelPath(n) \in Seq(E)
<1> DEFINE up == [i \in 1 .. Len(n) + 1 |-> LabelOf(SubSeq(n, 1, Len(n) + 1 - i))]
<1>1. Len(n) + 1 \in Nat
  BY LenProperties DEF PlaceSet
<1>2. up \in Seq(ToSet(up))
  <2>1. up \in [1 .. Len(n) + 1 -> ToSet(up)]
    BY DEF ToSet
  <2> HIDE DEF up
  <2> QED BY <1>1, <2>1
<1>3. LabelPath(n) = Those(up, ToSet(up) \ {NoLabel})
  BY DEF LabelPath
<1> HIDE DEF up
<1> QED BY <1>2, <1>3, ThoseTyped

LEMMA PathDiffIs ==
  ASSUME NEW m, NEW n, m = chosen[1], n = chosen[2], m \in PlaceSet, n \in PlaceSet
  PROVE  PathDiffExact
<1>1. PICK left, right : left = LabelPath(m) /\ right = LabelPath(n)
  OBVIOUS
<1>2. PICK A : left \in Seq(A)
  BY <1>1, LabelPathIs
<1>3. PICK B : right \in Seq(B)
  BY <1>1, LabelPathIs
<1>4. left \in Seq(A \cup B) /\ right \in Seq(A \cup B)
  BY <1>2, <1>3
<1>5. PathLines = <<UniqueLabels(left, right), UniqueLabels(right, left)>>
  BY <1>1 DEF PathLines
<1> DEFINE paths == <<LabelPath(chosen[1]), LabelPath(chosen[2])>>
<1>6. paths = <<left, right>>
  BY <1>1
<1>7. ASSUME NEW i \in 1 .. 2, NEW l \in ToSet(paths[i])
      PROVE  LET own == Copies(paths[i], l)
                 other == Copies(paths[3 - i], l)
             IN /\ other = 0 => l \in DOMAIN PathLines[i] /\ PathLines[i][l] = own
                /\ other = own => l \notin DOMAIN PathLines[i]
  <2> HIDE DEF paths
  <2>1. CASE i = 1
    <3>1. paths[i] = left /\ paths[3 - i] = right /\ PathLines[i] = UniqueLabels(left, right)
      BY <1>5, <1>6, <2>1
    <3> QED BY <1>4, <3>1, UniqueLabelsAre
  <2>2. CASE i = 2
    <3>1. paths[i] = right /\ paths[3 - i] = left /\ PathLines[i] = UniqueLabels(right, left)
      BY <1>5, <1>6, <2>2
    <3> QED BY <1>4, <3>1, UniqueLabelsAre
  <2> QED BY <2>1, <2>2
<1> QED BY <1>7 DEF PathDiffExact

-----------------------------------------------------------------------------
(* The window of similar subtrees is used *)

\* The analyses and the filter, of any tree and any status of its leaves.
HeightIn(tree, n) == 1 + GreatestOf({Len(m) - Len(n) : m \in BelowIn(tree, n)})
OfHeightIn(tree, groups, h) == {g \in groups : HeightIn(tree, First(g)) = h}
InitialIn(tree, st) ==
  LET leaves(x) == {n \in DOMAIN st : st[n] = x}
  IN [processed |-> {leaves("FAILED"), leaves("SOLVED")} \ {{}},
      remaining |-> {{n \in tree : ~(KidsIn(tree, n) = {})}} \ {{}}]
StepIn(tree, p, h) ==
  LET remaining == Separated(p.remaining, Marked(OfHeightIn(tree, p.processed, h)))
      done == OfHeightIn(tree, remaining, h + 1)
  IN [processed |-> p.processed \cup done, remaining |-> remaining \ done]
IdenticalIn(tree, st) ==
  LET At[h \in 1 .. HeightIn(tree, Root)] ==
        IF h = 1 THEN InitialIn(tree, st) ELSE StepIn(tree, At[h - 1], h - 1)
  IN At[HeightIn(tree, Root)].processed
PatternIn(tree, g) ==
  [nodes |-> g, height |-> HeightIn(tree, First(g)), size |-> Cardinality(BelowIn(tree, First(g)))]
AnalyseIn(tree, st, type, groups) ==
  {p \in {PatternIn(tree, g) : g \in IF type = "subtree" THEN IdenticalIn(tree, st) ELSE groups} :
     Cardinality(p.nodes) >= 2 /\ p.height >= 2}
KidsUnder(tree, P) == UNION {UNION {KidsIn(tree, n) : n \in p.nodes} : p \in P}
KeptIn(tree, P, w) ==
  LET filtered == {p \in P : Cardinality(p.nodes) >= w.minCount /\ p.height >= w.minHeight}
  IN IF w.subsumed THEN filtered
     ELSE {p \in filtered : ~(p.nodes \subseteq KidsUnder(tree, filtered))}

LEMMA InThisTree ==
  ASSUME NEW type, NEW groups, NEW P, NEW w
  PROVE  /\ Analyse(type, groups) = AnalyseIn(places, status, type, groups)
         /\ Kept(P, w) = KeptIn(places, P, w)
<1>1. IdenticalSubtrees = IdenticalIn(places, status)
  BY Zenon DEF IdenticalSubtrees, IdenticalIn, InitialPartition, InitialIn, PartitionStep, StepIn,
     OfHeight, OfHeightIn, HeightOf, HeightIn, Below, IsLeaf
<1>2. \A g : PatternOf(g) = PatternIn(places, g)
  BY DEF PatternOf, PatternIn, HeightOf, HeightIn, SizeOf, Below
<1>3. Analyse(type, groups) = AnalyseIn(places, status, type, groups)
  BY <1>1, <1>2 DEF Analyse, AnalyseIn, Count
<1>4. Kept(P, w) = KeptIn(places, P, w)
  BY DEF Kept, KeptIn, EliminateSubsumed, KidsOf, KidsUnder, Count
<1> QED BY <1>3, <1>4

WindowSettings ==
  [type : {"contour", "subtree"}, minHeight : Mins, minCount : Mins, subsumed : BOOLEAN,
   hideRest : BOOLEAN, sort : {"size", "count", "height"}]

Found(type) == AnalyseIn(places, status, type, contours)

\* The histogram shows what one of the two analyses has found.
ShowsFound(type) == ToSet(shown) = KeptIn(places, Found(type), window)

\* The nodes announced last are those of a pattern.
ChosenInv ==
  chosen = <<>> \/ (ToSet(chosen) \subseteq places /\ chosen[1] \in places /\ chosen[2] \in places)

OpenInv ==
  /\ window \in WindowSettings
  /\ result = Found(window.type)
  /\ ShowsFound(window.type) \/ ShowsFound(Other(window.type))
  /\ Len(shown) \in Nat /\ DOMAIN shown = 1 .. Len(shown) /\ selected \in 0 .. Len(shown)
  /\ ChosenInv
  /\ selected # 0 => ToSet(chosen) = shown[selected].nodes

PatternsInv ==
  /\ DOMAIN status \subseteq places /\ \A n \in DOMAIN status : status[n] \in {"FAILED", "SOLVED"}
  /\ contours \subseteq SUBSET places
  /\ changes \in 0 .. MaxChanges
  /\ \/ /\ window = Closed /\ status = <<>> /\ contours = {} /\ result = {} /\ shown = <<>>
        /\ selected = 0 /\ chosen = <<>>
     \/ OpenInv

\* All other windows leave it alone.
LEMMA OtherWindows ==
  ASSUME [Next]_vars
  PROVE  PatternsNext \/ UNCHANGED <<places, status, windowVars>>
BY DEF Next, vars, ShowPixelTree, AddCompression, ReduceCompression, ZoomPixels,
         ResizePixels, ScrollPixels, Drag, SelectNodes, UsePixels, SavePixelTree, Compress,
         ZoomIcicle, ResizeIcicle, ScrollIcicle, RedrawLater, ClickIcicle, UseIcicle, ShowIcicle,
         SlideLantern, LanternLater, patternVars, outlineVars

LEMMA FoundIs ==
  ASSUME TreeInv, PatternsInv, NEW type
  PROVE  IsFiniteSet(Found(type)) /\ \A p \in Found(type) : IsPattern(p)
BY AnalyseIs, InThisTree DEF PatternsInv, Found

\* Displaying shows what is kept, and marks nothing.
LEMMA Displayed ==
  ASSUME NEW F, IsFiniteSet(F), NEW w, DisplayPatterns(F, w)
  PROVE  /\ ToSet(shown') = KeptIn(places, F, w) /\ selected' = 0
         /\ Len(shown') \in Nat /\ DOMAIN shown' = 1 .. Len(shown')
<1>1. PICK s, K : s = shown' /\ K = Kept(F, w)
  OBVIOUS
<1>2. s \in Sorted(K, w.sort) /\ selected' = 0
  BY <1>1 DEF DisplayPatterns
<1>3. K \subseteq F
  BY <1>1, KeptBy
<1>4. IsFiniteSet(K)
  BY <1>3, FS_Subset
<1>5. ToSet(s) = K /\ Len(s) \in Nat /\ DOMAIN s = 1 .. Len(s)
  BY <1>2, <1>4, SortedIs
<1>6. K = KeptIn(places, F, w)
  BY <1>1, InThisTree
<1> QED BY <1>1, <1>2, <1>5, <1>6

LEMMA WindowOpens ==
  ASSUME TreeInv, PatternsInv, OpenWindow
  PROVE  PatternsInv'
<1>1. places' = places /\ chosen' = chosen /\ changes' = changes /\ ~IsOpen
  BY DEF OpenWindow, outlineVars
<1>2. chosen = <<>> /\ changes \in 0 .. MaxChanges
  BY <1>1 DEF PatternsInv, OpenInv, WindowSettings, IsOpen
<1>3. DOMAIN status' \subseteq places /\ \A n \in DOMAIN status' : status'[n] \in {"FAILED", "SOLVED"}
  BY DEF OpenWindow
<1>4. contours' \subseteq SUBSET places
  BY DEF OpenWindow, SimilarShapes
<1>5. PICK w, c, r, st : w = window' /\ c = contours' /\ r = result' /\ st = status'
  OBVIOUS
<1>6. w \in WindowSettings /\ w.type = "contour"
  BY <1>5, PatternBounds DEF OpenWindow, WindowSettings
<1>7. r = Analyse("contour", c) /\ DisplayPatterns(r, w)
  BY <1>5 DEF OpenWindow
<1>8. r = AnalyseIn(places, status, "contour", c)
  BY <1>7, InThisTree
<1>9. r = AnalyseIn(places, st, "contour", c)
  BY <1>8 DEF AnalyseIn
<1>10. IsFiniteSet(r)
  BY <1>4, <1>5, <1>7, AnalyseIs DEF PatternsInv
<1>11. /\ ToSet(shown') = KeptIn(places, r, w) /\ selected' = 0
       /\ Len(shown') \in Nat /\ DOMAIN shown' = 1 .. Len(shown')
  BY <1>7, <1>10, Displayed
<1>12. result' = Found(window.type)'
  BY <1>1, <1>5, <1>6, <1>9 DEF Found
<1>13. ShowsFound(window.type)'
  BY <1>1, <1>5, <1>6, <1>9, <1>11 DEF ShowsFound, Found
<1>14. ChosenInv'
  BY <1>1, <1>2 DEF ChosenInv
<1>15. selected' \in 0 .. Len(shown') /\ ~(selected' # 0)
  BY <1>11
<1>16. OpenInv'
  BY <1>5, <1>6, <1>11, <1>12, <1>13, <1>14, <1>15 DEF OpenInv
<1> QED BY <1>1, <1>2, <1>3, <1>4, <1>16 DEF PatternsInv

\* What is left to show where a setting has been changed.
LEMMA SettingChanged ==
  ASSUME PatternsInv, OpenInv, NEW w \in WindowSettings, Changed(w),
         result' = AnalyseIn(places, status, w.type, contours),
         \/ ToSet(shown') = KeptIn(places, AnalyseIn(places, status, w.type, contours), w)
         \/ ToSet(shown') = KeptIn(places, AnalyseIn(places, status, Other(w.type), contours), w),
         Len(shown') \in Nat, DOMAIN shown' = 1 .. Len(shown'), selected' \in 0 .. Len(shown'),
         selected' # 0 => shown' = shown /\ selected' = selected
  PROVE  PatternsInv'
<1>1. /\ places' = places /\ status' = status /\ contours' = contours /\ chosen' = chosen
      /\ window' = w /\ changes' \in 0 .. MaxChanges
  BY PatternBounds DEF Changed, outlineVars, PatternsInv
<1>2. result' = Found(window.type)'
  BY <1>1 DEF Found
<1>3. ShowsFound(window.type)' \/ ShowsFound(Other(window.type))'
  BY <1>1 DEF ShowsFound, Found, Other
<1>4. ChosenInv' /\ (selected' # 0 => ToSet(chosen') = shown'[selected'].nodes)
  BY <1>1 DEF OpenInv, ChosenInv
<1>5. OpenInv'
  BY <1>1, <1>2, <1>3, <1>4 DEF OpenInv
<1> QED BY <1>1, <1>5 DEF PatternsInv

LEMMA Redisplayed ==
  ASSUME TreeInv, PatternsInv, OpenInv, NEW w \in WindowSettings, w.type = window.type, Redisplay(w)
  PROVE  PatternsInv'
<1>1. Changed(w) /\ DisplayPatterns(result, w) /\ result' = result
  BY DEF Redisplay
<1>2. result = AnalyseIn(places, status, w.type, contours) /\ IsFiniteSet(result)
  BY FoundIs DEF OpenInv, Found
<1>3. PICK F : F = result
  OBVIOUS
<1>4. /\ ToSet(shown') = KeptIn(places, F, w) /\ selected' = 0
      /\ Len(shown') \in Nat /\ DOMAIN shown' = 1 .. Len(shown')
  BY <1>1, <1>2, <1>3, Displayed
<1>5. selected' \in 0 .. Len(shown')
  BY <1>4
<1> QED BY <1>1, <1>2, <1>3, <1>4, <1>5, SettingChanged

\* The settings but the type change what is kept only by three of them.
LEMMA KeptInBy ==
  ASSUME NEW tree, NEW P, NEW w, NEW v, v.minCount = w.minCount, v.minHeight = w.minHeight,
         v.subsumed = w.subsumed
  PROVE  KeptIn(tree, P, v) = KeptIn(tree, P, w)
BY DEF KeptIn

LEMMA TypeChosen ==
  ASSUME TreeInv, PatternsInv, OpenInv, NEW type \in {"contour", "subtree"}, ChooseType(type)
  PROVE  PatternsInv'
<1>1. PICK w : w = [window EXCEPT !.type = type]
  OBVIOUS
<1>2. /\ w \in WindowSettings /\ w.type = type /\ w.minCount = window.minCount
      /\ w.minHeight = window.minHeight /\ w.subsumed = window.subsumed
      /\ window.type \in {"contour", "subtree"}
  BY <1>1 DEF OpenInv, WindowSettings
<1>3. /\ Changed(w) /\ window.type # type
      /\ result' = Analyse(type, contours) /\ shown' = shown /\ selected' = selected
  BY <1>1 DEF ChooseType
<1>4. result' = AnalyseIn(places, status, w.type, contours)
  BY <1>2, <1>3, InThisTree
<1>5. Other(w.type) = window.type /\ Other(window.type) = w.type
  BY <1>2, <1>3 DEF Other
<1>6. \A P : KeptIn(places, P, w) = KeptIn(places, P, window)
  BY <1>2, KeptInBy
<1>7. \/ ToSet(shown') = KeptIn(places, AnalyseIn(places, status, w.type, contours), w)
      \/ ToSet(shown') = KeptIn(places, AnalyseIn(places, status, Other(w.type), contours), w)
  BY <1>3, <1>5, <1>6 DEF OpenInv, ShowsFound, Found
<1>8. Len(shown') \in Nat /\ DOMAIN shown' = 1 .. Len(shown') /\ selected' \in 0 .. Len(shown')
  BY <1>3 DEF OpenInv
<1> QED BY <1>2, <1>3, <1>4, <1>7, <1>8, SettingChanged

LEMMA RestToBeHidden ==
  ASSUME TreeInv, PatternsInv, OpenInv, HideNotSelected
  PROVE  PatternsInv'
<1>1. PICK w : w = [window EXCEPT !.hideRest = ~@]
  OBVIOUS
<1>2. /\ w \in WindowSettings /\ w.type = window.type /\ w.minCount = window.minCount
      /\ w.minHeight = window.minHeight /\ w.subsumed = window.subsumed
  BY <1>1 DEF OpenInv, WindowSettings
<1>3. Changed(w) /\ result' = result /\ shown' = shown /\ selected' = selected
  BY <1>1 DEF HideNotSelected
<1>4. result' = AnalyseIn(places, status, w.type, contours)
  BY <1>2, <1>3 DEF OpenInv, Found
<1>6. \A P : KeptIn(places, P, w) = KeptIn(places, P, window)
  BY <1>2, KeptInBy
<1>7. \/ ToSet(shown') = KeptIn(places, AnalyseIn(places, status, w.type, contours), w)
      \/ ToSet(shown') = KeptIn(places, AnalyseIn(places, status, Other(w.type), contours), w)
  BY <1>2, <1>3, <1>6 DEF OpenInv, ShowsFound, Found
<1>8. Len(shown') \in Nat /\ DOMAIN shown' = 1 .. Len(shown') /\ selected' \in 0 .. Len(shown')
  BY <1>3 DEF OpenInv
<1> QED BY <1>2, <1>3, <1>4, <1>7, <1>8, SettingChanged

LEMMA SettingsKept ==
  ASSUME TreeInv, PatternsInv, OpenInv, Settings
  PROVE  PatternsInv'
<1>1. CASE \E type \in {"contour", "subtree"} : ChooseType(type)
  BY <1>1, TypeChosen
<1>2. CASE HideNotSelected
  BY <1>2, RestToBeHidden
<1>3. CASE \E w \in WindowSettings : w.type = window.type /\ Redisplay(w)
  BY <1>3, Redisplayed
<1>4. window \in WindowSettings
  BY DEF OpenInv
<1>5. ASSUME NEW v \in Mins
      PROVE  /\ [window EXCEPT !.minHeight = v] \in WindowSettings
             /\ [window EXCEPT !.minHeight = v].type = window.type
             /\ [window EXCEPT !.minCount = v] \in WindowSettings
             /\ [window EXCEPT !.minCount = v].type = window.type
  BY <1>4 DEF WindowSettings
<1>6. ASSUME NEW sort \in {"size", "count", "height"}
      PROVE  /\ [window EXCEPT !.sort = sort] \in WindowSettings
             /\ [window EXCEPT !.sort = sort].type = window.type
  BY <1>4 DEF WindowSettings
<1>7. /\ [window EXCEPT !.subsumed = ~@] \in WindowSettings
      /\ [window EXCEPT !.subsumed = ~@].type = window.type
  BY <1>4 DEF WindowSettings
<1>8. CASE \E v \in Mins : FilterHeight(v) \/ FilterCount(v)
  BY <1>3, <1>5, <1>8 DEF FilterHeight, FilterCount
<1>9. CASE \E sort \in {"size", "count", "height"} : SortBy(sort)
  BY <1>3, <1>6, <1>9 DEF SortBy
<1>10. CASE KeepSubsumed
  BY <1>3, <1>7, <1>10 DEF KeepSubsumed
<1>11. CASE HistogramBy
  BY <1>3, <1>4, <1>11 DEF HistogramBy
<1> QED BY <1>1, <1>2, <1>8, <1>9, <1>10, <1>11 DEF Settings

\* The pattern that is announced.
LEMMA ShownIsPattern ==
  ASSUME TreeInv, PatternsInv, OpenInv, NEW idx \in DOMAIN shown
  PROVE  IsPattern(shown[idx])
<1>1. shown[idx] \in ToSet(shown)
  BY DEF ToSet
<1>2. \A P : KeptIn(places, P, window) \subseteq P
  BY DEF KeptIn
<1> QED BY <1>1, <1>2, FoundIs DEF OpenInv, ShowsFound

LEMMA Announced ==
  ASSUME TreeInv, NEW p, IsPattern(p), Announce(p)
  PROVE  /\ ToSet(chosen') = p.nodes /\ chosen'[1] \in places /\ chosen'[2] \in places
         /\ chosen' # <<>>
         /\ places' = places /\ hidden' = IF window.hideRest THEN HideRest(p.nodes) ELSE hidden
<1>1. PICK g, s : g = p.nodes /\ s = chosen'
  OBVIOUS
<1>2. g \subseteq places /\ Cardinality(g) >= 2 /\ IsFiniteSet(g) /\ g \subseteq PlaceSet
  BY <1>1, FS_Subset DEF IsPattern, TreeInv
<1>3. s = ById(g)
  BY <1>1 DEF Announce
<1>4. DOMAIN s = 1 .. Cardinality(g) /\ Cardinality(g) \in Nat /\ ToSet(s) = g
  BY <1>2, <1>3, ByIdIs
<1>5. 1 \in DOMAIN s /\ 2 \in DOMAIN s
  BY <1>2, <1>4
<1>6. s[1] \in g /\ s[2] \in g
  BY <1>4, <1>5 DEF ToSet
<1> QED BY <1>1, <1>2, <1>4, <1>5, <1>6 DEF Announce

LEMMA PatternSelected ==
  ASSUME TreeInv, PatternsInv, OpenInv, NEW idx, ChangeSelectedPattern(idx)
  PROVE  PatternsInv'
<1>1. /\ idx \in DOMAIN shown /\ Announce(shown[idx]) /\ selected' = IF idx = selected THEN 0 ELSE idx
      /\ status' = status /\ window' = window /\ contours' = contours /\ result' = result
      /\ shown' = shown /\ changes' = changes
  BY DEF ChangeSelectedPattern
<1>2. PICK p : p = shown[idx]
  OBVIOUS
<1>3. /\ ToSet(chosen') = p.nodes /\ chosen'[1] \in places /\ chosen'[2] \in places
      /\ places' = places /\ p.nodes \subseteq places
  BY <1>1, <1>2, ShownIsPattern, Announced DEF IsPattern
<1>4. ChosenInv'
  BY <1>3 DEF ChosenInv
<1>5. selected' \in 0 .. Len(shown) /\ (selected' # 0 => ToSet(chosen') = shown[selected'].nodes)
  BY <1>1, <1>2, <1>3 DEF OpenInv
<1>6. result' = Found(window.type)' /\ (ShowsFound(window.type)' \/ ShowsFound(Other(window.type))')
  BY <1>1, <1>3 DEF OpenInv, Found, ShowsFound, Other
<1>7. OpenInv'
  BY <1>1, <1>4, <1>5, <1>6 DEF OpenInv
<1> QED BY <1>1, <1>3, <1>7 DEF PatternsInv

LEMMA PatternsStep ==
  ASSUME TreeInv, PatternsInv, [Next]_vars
  PROVE  PatternsInv'
<1>1. CASE UNCHANGED <<places, status, windowVars>>
  BY <1>1 DEF PatternsInv, OpenInv, Found, ShowsFound, ChosenInv, Other, windowVars
<1>2. CASE EditTree
  <2>1. window = Closed /\ status = <<>> /\ UNCHANGED <<status, windowVars>>
    BY <1>2 DEF EditTree, PatternsInv, OpenInv, WindowSettings, IsOpen
  <2>2. DOMAIN status = {} /\ contours = {}
    BY <2>1 DEF PatternsInv, OpenInv, WindowSettings, Closed
  <2> QED BY <2>1, <2>2 DEF PatternsInv, OpenInv, WindowSettings, Closed, windowVars
<1>3. CASE OpenWindow
  BY <1>3, WindowOpens
<1>4. CASE UseWindow
  <2>1. OpenInv
    BY <1>4 DEF UseWindow, PatternsInv, IsOpen, Closed
  <2>2. Settings \/ \E idx : ChangeSelectedPattern(idx)
    BY <1>4 DEF UseWindow, NextPattern, PrevPattern, FindAndSelect
  <2> QED BY <2>1, <2>2, SettingsKept, PatternSelected
<1> QED BY <1>1, <1>2, <1>3, <1>4, OtherWindows DEF PatternsNext

LEMMA PatternsInvHolds == Spec => [](TreeInv /\ PatternsInv)
<1>1. Init => TreeInv /\ PatternsInv
  <2>1. Init => TreeInv
    BY TreeBegins DEF Init, PatternsInit
  <2>2. Init => PatternsInv
    BY PatternBounds DEF Init, PatternsInit, PatternsInv
  <2> QED BY <2>1, <2>2
<1>2. TreeInv /\ PatternsInv /\ [Next]_vars => (TreeInv /\ PatternsInv)'
  BY TreeStep, PatternsStep
<1> QED BY <1>1, <1>2, PTL DEF Spec

-----------------------------------------------------------------------------
(* What the histogram shows and what is marked in it *)

\* The histogram leaves out nothing that the settings ask for, whatever is
\* filtered, sorted and chosen.
THEOREM HistogramRight == Spec => []HistogramExact
<1>1. ASSUME TreeInv, PatternsInv PROVE HistogramExact
  <2>1. \A p \in result : IsPattern(p)
    BY <1>1, FoundIs DEF PatternsInv, OpenInv
  <2>2. SubsumedCovered
    BY <1>1, <2>1, SubsumedIsCovered DEF IsPattern
  <2>3. TypeOK
    <3>1. \A p \in result : p.nodes \subseteq places /\ p.nodes # {}
      BY <2>1 DEF IsPattern
    <3>2. CASE OpenInv
      <4>1. ToSet(chosen) \subseteq places
        BY <3>2 DEF OpenInv, ChosenInv, ToSet
      <4> QED BY <1>1, <3>1, <3>2, <4>1 DEF TypeOK, PatternsInv, OpenInv, WindowSettings
    <3>3. CASE ~OpenInv
      <4>1. ~IsOpen /\ chosen = <<>> /\ shown = <<>> /\ selected = 0
        BY <1>1, <3>3 DEF PatternsInv, IsOpen, Closed
      <4>2. ToSet(chosen) = {} /\ selected \in 0 .. Len(shown)
        BY <4>1, EmptySeq DEF ToSet
      <4> QED BY <1>1, <3>1, <4>1, <4>2 DEF TypeOK, PatternsInv
    <3> QED BY <3>2, <3>3
  <2>4. ShownAsSet
    <3> SUFFICES ASSUME IsOpen PROVE ShownAsSet
      BY DEF ShownAsSet
    <3>1. OpenInv
      BY <1>1 DEF PatternsInv, IsOpen, Closed
    <3>2. /\ Kept(result, window) = KeptIn(places, Found(window.type), window)
          /\ Kept(Analyse(Other(window.type), contours), window)
               = KeptIn(places, Found(Other(window.type)), window)
      BY <3>1, InThisTree DEF OpenInv, Found
    <3> QED BY <3>1, <3>2 DEF ShownAsSet, OpenInv, ShowsFound
  <2> QED BY <2>2, <2>3, <2>4 DEF HistogramExact
<1> QED BY <1>1, PatternsInvHolds, PTL

\* What the marked bar stands for is what the other parts of the window are
\* about, down to the labels of the two paths.
THEOREM SelectionRight == Spec => []SelectionExact
<1>1. ASSUME TreeInv, PatternsInv PROVE SelectionExact
  <2>1. CASE OpenInv
    <3>1. SelectionIsAnnounced
      BY <2>1 DEF OpenInv, SelectionIsAnnounced
    <3>2. PathDiffExact
      <4>1. CASE chosen = <<>>
        BY <4>1 DEF PathDiffExact
      <4>2. CASE chosen # <<>>
        <5>1. PICK m, n : m = chosen[1] /\ n = chosen[2]
          OBVIOUS
        <5>2. m \in PlaceSet /\ n \in PlaceSet
          BY <1>1, <2>1, <4>2, <5>1 DEF OpenInv, ChosenInv, TreeInv
        <5> QED BY <5>1, <5>2, PathDiffIs
      <4> QED BY <4>1, <4>2
    <3> QED BY <3>1, <3>2 DEF SelectionExact
  <2>2. CASE ~OpenInv
    <3>1. selected = 0 /\ chosen = <<>>
      BY <1>1, <2>2 DEF PatternsInv
    <3> QED BY <3>1 DEF SelectionExact, SelectionIsAnnounced, PathDiffExact
  <2> QED BY <2>1, <2>2
<1> QED BY <1>1, PatternsInvHolds, PTL

-----------------------------------------------------------------------------
(* The rest is hidden *)

\* LeadsTo, for a tree of which hid is hidden.
LeadsIn(tree, hid, nodes) ==
  LET seen == {n \in tree : \A h \in DOMAIN hid : ~IsStrictPrefix(h, n)} \ DOMAIN hid
  IN /\ nodes \subseteq seen
     /\ \A n \in seen : \E h \in nodes : IsAbove(n, h) \/ IsAbove(h, n)

\* What is left leads to the nodes.
LEMMA RestIsHidden ==
  ASSUME TreeInv, NEW nodes, nodes \subseteq places, NEW hid, hid = HideRest(nodes)
  PROVE  LeadsIn(places, hid, nodes)
<1>1. DOMAIN hid = {m \in Visited(nodes) : \A h \in nodes : ~IsPrefix(m, h)}
  BY HideRestIs
<1> DEFINE seen == {n \in places : \A d \in DOMAIN hid : ~IsStrictPrefix(d, n)}
<1>3. ASSUME NEW h \in nodes PROVE h \in seen \ DOMAIN hid
  <2>1. h \in places /\ h \in PlaceSet
    BY DEF TreeInv
  <2>2. h \notin DOMAIN hid
    BY <1>1, <2>1, PrefixOrder
  <2>3. \A d \in DOMAIN hid : ~IsStrictPrefix(d, h)
    BY <1>1 DEF IsStrictPrefix
  <2> QED BY <2>1, <2>2, <2>3
<1>4. ASSUME NEW n \in seen \ DOMAIN hid
      PROVE  \E h \in nodes : IsAbove(n, h) \/ IsAbove(h, n)
  <2>1. n \in places
    OBVIOUS
  <2>2. CASE n \in Visited(nodes)
    BY <1>1, <2>2 DEF IsAbove
  <2>3. CASE n \notin Visited(nodes)
    BY <2>1, <2>3 DEF Visited, IsAbove, IsStrictPrefix
  <2> QED BY <2>2, <2>3
<1> QED BY <1>3, <1>4 DEF LeadsIn

\* A pattern that is announced is what is left to be seen.
LEMMA PatternSeen ==
  ASSUME TreeInv, PatternsInv, Next, window.type # "closed", window.hideRest, chosen' # chosen
  PROVE  LeadsTo(ToSet(chosen))'
<1>1. PatternsNext
  BY OtherWindows DEF windowVars
<1>2. OpenInv
  BY DEF PatternsInv, Closed
<1>3. PICK idx : ChangeSelectedPattern(idx)
  BY <1>1 DEF PatternsNext, EditTree, OpenWindow, UseWindow, NextPattern, PrevPattern, FindAndSelect,
     Settings, ChooseType, FilterHeight, FilterCount, SortBy, KeepSubsumed, HistogramBy,
     HideNotSelected, Redisplay, Changed, windowVars
<1>4. PICK p : p = shown[idx]
  OBVIOUS
<1>5. IsPattern(p) /\ Announce(p)
  BY <1>2, <1>3, <1>4, ShownIsPattern DEF ChangeSelectedPattern
<1>6. PICK g, h : g = p.nodes /\ h = hidden'
  OBVIOUS
<1>7. ToSet(chosen') = g /\ places' = places /\ h = HideRest(g) /\ g \subseteq places
  BY <1>5, <1>6, Announced DEF IsPattern
<1>8. LeadsIn(places, h, g)
  BY <1>7, RestIsHidden
<1> QED BY <1>6, <1>7, <1>8 DEF LeadsTo, LeadsIn, Visible, VisibleWith, Flags

LEMMA SelectedInTree ==
  ASSUME NEW s, PixelSettings(pt, s), NEW slices, slices \subseteq 0 .. Len(pt.seq) - 1
  PROVE  SelectedNodes(pt, slices) \subseteq places
<1>1. pt.compression \in Nat \ {0} /\ PixelsOf(pt.seq) /\ Len(pt.seq) \in Nat
  BY PageIs DEF PixelSettings
<1>2. ASSUME NEW slice \in slices, NEW item \in ItemsOf(pt, slice) PROVE item.nid \in places
  <2>1. PICK idx \in Within(pt, slice) : item = pt.seq[idx + 1]
    BY DEF ItemsOf
  <2>2. slice \in Nat
    BY <1>1
  <2>3. slice * pt.compression \in Nat /\ (slice + 1) * pt.compression \in Nat
    BY <1>1, <2>2, Products
  <2>4. idx \in Nat /\ idx < Len(pt.seq)
    BY <2>3 DEF Within, Positions
  <2>5. idx + 1 \in 1 .. Len(pt.seq)
    BY <1>1, <2>4
  <2> QED BY <1>1, <2>1, <2>5 DEF PixelsOf
<1> QED BY <1>2 DEF SelectedNodes

\* What is selected, by its items.
LEMMA SameItems ==
  ASSUME NEW p, NEW q, q.seq = p.seq, q.compression = p.compression, NEW slices
  PROVE  SelectedNodes(q, slices) = SelectedNodes(p, slices)
BY DEF SelectedNodes, ItemsOf, Within, Positions

\* Drawing keeps the items and what is selected.
LEMMA RedrawKeeps ==
  ASSUME NEW p, DOMAIN p = PixelFields, RedrawPixels(p)
  PROVE  pt'.seq = p.seq /\ pt'.compression = p.compression /\ pt'.selected = p.selected
BY DEF RedrawPixels, Clamped, PixelFields

\* Only a selection changes what is selected.
LEMMA SelectionChanged ==
  ASSUME TreeInv, PixelInv, StepsInv, Next, pt.shown, pt'.selected # pt.selected
  PROVE  \E x, y : x \in Columns(pt) /\ y \in Columns(pt) /\ SelectNodes(x, y)
<1>1. PixelSettings(pt, steps) /\ DOMAIN pt = PixelFields
  BY DEF PixelInv, PixelSettings, NotShown
<1>2. ASSUME NEW p, DOMAIN p = PixelFields, p.selected = pt.selected, RedrawPixels(p) PROVE FALSE
  BY <1>2, RedrawKeeps
<1>3. CASE AddCompression
  <2>1. PICK p : p = [pt EXCEPT !.compression = @ + 10, !.reducible = TRUE]
    OBVIOUS
  <2> QED BY <1>1, <1>2, <1>3, <2>1 DEF AddCompression, PixelFields
<1>4. CASE ReduceCompression
  <2>1. PICK c, p : RedrawPixels(p) /\ p = [pt EXCEPT !.compression = c, !.reducible = c # 1]
    BY <1>4 DEF ReduceCompression
  <2> QED BY <1>1, <1>2, <2>1 DEF PixelFields
<1>5. CASE ZoomPixels
  <2>1. PICK size, p : RedrawPixels(p) /\ p = [pt EXCEPT !.pixelSize = size]
    BY <1>5 DEF ZoomPixels, Zoomed
  <2> QED BY <1>1, <1>2, <2>1 DEF PixelFields
<1>6. CASE ResizePixels
  <2>1. PICK w, p : RedrawPixels(p) /\ p = [pt EXCEPT !.viewport = w]
    BY <1>6 DEF ResizePixels
  <2> QED BY <1>1, <1>2, <2>1 DEF PixelFields
<1>7. CASE ScrollPixels
  <2>1. PICK v, p : RedrawPixels(p) /\ p = [pt EXCEPT !.scroll = v]
    BY <1>7 DEF ScrollPixels
  <2> QED BY <1>1, <1>2, <2>1 DEF PixelFields
<1>8. CASE Drag
  BY <1>8 DEF Drag
<1> QED BY <1>3, <1>4, <1>5, <1>6, <1>7, <1>8 DEF Next, pixelVars, ShowPixelTree, ShowIcicle,
     SavePixelTree, Compress, ZoomIcicle, ResizeIcicle, ScrollIcicle, RedrawLater, ClickIcicle,
     UseIcicle, SlideLantern, LanternLater

\* Slices that are selected are what is left to be seen.
LEMMA SlicesSeen ==
  ASSUME TreeInv, PixelInv, StepsInv, Next, pt.shown, pt'.selected # pt.selected
  PROVE  LeadsTo(SelectedNodes(pt, pt.selected))'
<1>1. PICK x, y : x \in Columns(pt) /\ y \in Columns(pt) /\ SelectNodes(x, y)
  BY SelectionChanged
<1>2. steps \in Nat /\ UsePixels
  BY <1>1, PixelBounds DEF StepsInv, SelectNodes
<1>3. PixelSettings(pt, steps) /\ DOMAIN pt = PixelFields
  BY <1>2, PixelsUsed DEF PixelSettings
<1>4. x \in Int /\ y \in Int
  <2>1. pt.scroll \in Nat /\ PageWidth(pt) \in Nat
    BY <1>3, PageIs, RunsOutsideIs
  <2>2. \A z \in Columns(pt) : z \in Int
    BY <2>1 DEF Columns
  <2> QED BY <1>1, <2>2
<1>5. PICK slices : slices = SelectedSlices(pt, x, y)
  OBVIOUS
<1>6. \A slice \in slices : ~RunsOutside(pt, slice)
  BY <1>1, <1>5 DEF SelectNodes
<1>7. PICK g, h, p : /\ g = SelectedNodes(pt, slices) /\ h = hidden'
                     /\ p = [pt EXCEPT !.selected = slices]
  OBVIOUS
<1>8. h = HideRest(g) /\ RedrawPixels(p) /\ places' = places
  BY <1>1, <1>5, <1>6, <1>7 DEF SelectNodes, UsePixels
<1>9. g \subseteq places
  BY <1>3, <1>4, <1>5, <1>6, <1>7, SelectedThere, SelectedInTree
<1>10. LeadsIn(places, h, g)
  BY <1>8, <1>9, RestIsHidden
<1>11. /\ DOMAIN p = PixelFields /\ p.seq = pt.seq /\ p.compression = pt.compression
       /\ p.selected = slices
  BY <1>3, <1>7 DEF PixelFields
<1>12. PICK q : q = pt'
  OBVIOUS
<1>13. q.seq = pt.seq /\ q.compression = pt.compression /\ q.selected = slices
  BY <1>8, <1>11, <1>12, RedrawKeeps
<1>14. SelectedNodes(q, q.selected) = g
  BY <1>7, <1>13, SameItems
<1>15. SelectedNodes(pt, pt.selected)' = g
  BY <1>12, <1>14 DEF SelectedNodes, ItemsOf, Within, Positions
<1> QED BY <1>7, <1>8, <1>10, <1>15 DEF LeadsTo, LeadsIn, Visible, VisibleWith, Flags

\* Hiding the rest leaves a pattern, and slices, to be seen, and what leads to
\* none of the nodes is closed, whatever was hidden before.
THEOREM RestIsHiddenAlways == Spec => RestHidden
<1>1. TreeInv /\ PatternsInv /\ [Next]_vars
        => [window.type # "closed" /\ window.hideRest /\ chosen' # chosen
              => LeadsTo(ToSet(chosen))']_patternVars
  <2> SUFFICES ASSUME TreeInv, PatternsInv, [Next]_vars, window.type # "closed", window.hideRest,
                      chosen' # chosen
               PROVE  LeadsTo(ToSet(chosen))'
    OBVIOUS
  <2>1. Next
    BY DEF vars, patternVars, windowVars
  <2> QED BY <2>1, PatternSeen
<1>2. UsedInv /\ [Next]_vars
        => [(pt.shown /\ pt'.selected # pt.selected /\ SelectedNodes(pt, pt'.selected) # {}) =>
              LeadsTo(SelectedNodes(pt, pt.selected))']_vars
  <2> SUFFICES ASSUME UsedInv, [Next]_vars, pt.shown, pt'.selected # pt.selected
               PROVE  LeadsTo(SelectedNodes(pt, pt.selected))'
    OBVIOUS
  <2>1. Next
    BY DEF vars, pixelVars
  <2> QED BY <2>1, SlicesSeen DEF UsedInv
<1>3. Spec => PatternVisible
  BY <1>1, PatternsInvHolds, PTL DEF Spec, PatternVisible
<1>4. Spec => SlicesVisible
  BY <1>2, UsedInvHolds, PTL DEF Spec, SlicesVisible
<1> QED BY <1>3, <1>4 DEF RestHidden

=============================================================================
