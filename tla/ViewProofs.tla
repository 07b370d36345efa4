------------------------------- MODULE ViewProofs -------------------------------
(***************************************************************************)
(* The view of a growing tree, for trees of every size, any number of      *)
(* commands and every interleaving of the builder with the main thread.    *)
(*                                                                         *)
(* A picture stays behind only if a difference between tree, flags and     *)
(* layout is noted nowhere.  Sound says where it is noted, at any time: a  *)
(* node without an entry in the layout is a child of a noted node or of    *)
(* one without, a dirty node is below one that is dirty, noted or hidden,  *)
(* and a node neither dirty nor noted has the shape it would be given now. *)
(* Rested adds what holds unless an update is about to be computed, and    *)
(* Settled that once computed it leaves nothing noted.  The closing flags  *)
(* of the tree are in ViewInv because they decide what "hide failed" and  *)
(* the lanterns hide.                                                      *)
(***************************************************************************)
EXTENDS View, Induction

\* The theorems about the tree, for the tree this view shows.
Proved == INSTANCE NodeTreeProofs

-----------------------------------------------------------------------------
(* The tree of the view is the tree the theorems are about *)

LEMMA SameOperators ==
  /\ Nodes = Proved!Nodes /\ Tree!Nodes = Proved!Nodes
  /\ Root = Proved!Root /\ Tree!Root = Proved!Root
  /\ NoNode = Proved!NoNode /\ Tree!NoNode = Proved!NoNode
  /\ \A n : Tree!RestartRoot(n) <=> Proved!RestartRoot(n)
  /\ \A n : Tree!Pending(n) <=> Proved!Pending(n)
BY DEF Nodes, Tree!Nodes, Proved!Nodes, Root, Tree!Root, Proved!Root,
       NoNode, Tree!NoNode, Proved!NoNode, Tree!RestartRoot, Proved!RestartRoot,
       Tree!Pending, Proved!Pending

LEMMA SamePromote == \A n, k, st : Tree!Promote(n, k, st) <=> Proved!Promote(n, k, st)
BY DEF Tree!Promote, Proved!Promote, Tree!ClosedBy, Proved!ClosedBy, Tree!Nodes, Proved!Nodes,
       Tree!NoNode, Proved!NoNode, Tree!AllClosed, Proved!AllClosed, Tree!AddEntries,
       Proved!AddEntries, Tree!NewKids, Proved!NewKids, Tree!SolvedBy, Proved!SolvedBy,
       Tree!Ancestors, Proved!Ancestors, Tree!StatsAfter, Proved!StatsAfter, Tree!Larger,
       Proved!Larger, Tree!Depth, Proved!Depth, Tree!IsClosing, Proved!IsClosing,
       Tree!Cardinality, Proved!Cardinality

LEMMA SameGrowth ==
  /\ \A k : Tree!CreateRoot(k) <=> Proved!CreateRoot(k)
  /\ \A n : Tree!AddExtraChild(n) <=> Proved!AddExtraChild(n)
BY DEF Tree!CreateRoot, Proved!CreateRoot, Tree!RootWith, Proved!RootWith, Tree!Root, Proved!Root,
       Tree!NoNode, Proved!NoNode, Tree!AddExtraChild, Proved!AddExtraChild,
       Tree!AddEntries, Proved!AddEntries

\* What the builder does is a step of the tree.
LEMMA BuildIsNext == Build => Proved!Next
<1>1. \A p, a, r : Tree!PromoteNode(p, a, r) <=> Proved!PromoteNode(p, a, r)
  BY SamePromote, SameOperators DEF Tree!PromoteNode, Proved!PromoteNode,
     Tree!ChildrenCount, Proved!ChildrenCount, Tree!GetChild, Proved!GetChild
<1>2. Tree!Reports = Proved!Reports
  BY DEF Tree!Reports, Proved!Reports
<1>3. 1 .. MaxKids \subseteq 0 .. MaxKids
  BY BoundsAssumption
<1> QED BY <1>1, <1>2, <1>3, SameGrowth, SameOperators DEF Build, Proved!Next

LEMMA SameInit == Tree!Init => Proved!Init
BY DEF Tree!Init, Proved!Init, Tree!RootWith, Proved!RootWith, Tree!Root, Proved!Root,
       Tree!NoNode, Proved!NoNode

-----------------------------------------------------------------------------
(* Induction along the links *)

\* What the links of the tree are known to be.
Links ==
  /\ nodeCount \in Nat
  /\ Nodes = 0 .. nodeCount - 1
  /\ Root = 0 /\ NoNode = -1
  /\ kids \in [Nodes -> Seq(Nodes)]
  /\ \A n \in Nodes \ {Root} :
       /\ parent[n] \in Nodes /\ parent[n] < n
       /\ \E i \in DOMAIN kids[parent[n]] : kids[parent[n]][i] = n
  /\ \A n \in Nodes : \A i \in DOMAIN kids[n] :
       kids[n][i] \in Nodes \ {Root} /\ parent[kids[n][i]] = n

LEMMA TreeLinks == Proved!ClosingInv => Links
<1> SUFFICES ASSUME Proved!ClosingInv PROVE Links
  OBVIOUS
<1>1. Proved!TypeOK /\ Proved!TreeShape
  BY DEF Proved!ClosingInv, Proved!TreeInv
<1>2. /\ nodeCount \in Nat /\ Nodes = 0 .. nodeCount - 1 /\ Root = 0 /\ NoNode = -1
      /\ kids \in [Nodes -> Seq(Nodes)] /\ parent \in [Nodes -> Nodes \cup {NoNode}]
  BY <1>1, SameOperators, BoundsAssumption
     DEF Proved!TypeOK, Proved!Nodes, Proved!Root, Proved!NoNode
<1>3. ASSUME NEW n \in Nodes \ {Root}
      PROVE  /\ parent[n] \in Nodes /\ parent[n] < n
             /\ \E i \in DOMAIN kids[parent[n]] : kids[parent[n]][i] = n
  BY <1>1, <1>2, SameOperators DEF Proved!TreeShape
<1>4. ASSUME NEW n \in Nodes, NEW i \in DOMAIN kids[n]
      PROVE  kids[n][i] \in Nodes \ {Root} /\ parent[kids[n][i]] = n
  <2>1. kids[n] \in Seq(Nodes)
    BY <1>2
  <2>2. kids[n][i] \in Nodes /\ parent[kids[n][i]] = n
    BY <1>1, <2>1, SameOperators DEF Proved!TreeShape
  <2>3. parent[Root] = NoNode \/ Root \notin Nodes
    BY <1>1, SameOperators DEF Proved!TreeShape
  <2>4. n # NoNode
    BY <1>2
  <2> QED BY <2>2, <2>3, <2>4
<1> QED BY <1>2, <1>3, <1>4 DEF Links

\* From the root downwards.
LEMMA DownInduction ==
  Links => \A S : (\A n \in Nodes : (n # Root => parent[n] \in S) => n \in S) => Nodes \subseteq S
<1> SUFFICES ASSUME Links, NEW S, \A n \in Nodes : (n # Root => parent[n] \in S) => n \in S
             PROVE  Nodes \subseteq S
  OBVIOUS
<1> DEFINE N == {k \in Nat : \A n \in Nodes : n < k => n \in S}
<1>1. /\ \A n \in Nodes : n \in Nat /\ n < nodeCount
      /\ \A n \in Nodes \ {Root} : parent[n] \in Nodes /\ parent[n] < n
      /\ nodeCount \in Nat
  BY DEF Links
<1>2. 0 \in N
  BY <1>1
<1>3. ASSUME NEW k \in Nat, k \in N PROVE k + 1 \in N
  <2> SUFFICES ASSUME NEW n \in Nodes, n < k + 1 PROVE n \in S
    OBVIOUS
  <2>1. n # Root => parent[n] \in Nodes /\ parent[n] \in Nat /\ parent[n] < n
    BY <1>1
  <2>2. n # Root => parent[n] < k
    BY <1>1, <2>1
  <2> QED BY <1>3, <2>1, <2>2
<1>4. nodeCount \in N
  <2> HIDE DEF N
  <2> QED BY <1>1, <1>2, <1>3, SetInduction
<1> QED BY <1>1, <1>4

\* From the leaves upwards.
LEMMA UpInduction ==
  Links => \A S : (\A n \in Nodes : (\A i \in DOMAIN kids[n] : kids[n][i] \in S) => n \in S)
                    => Nodes \subseteq S
<1> SUFFICES ASSUME Links, NEW S,
                    \A n \in Nodes : (\A i \in DOMAIN kids[n] : kids[n][i] \in S) => n \in S
             PROVE  Nodes \subseteq S
  OBVIOUS
<1> DEFINE N == {k \in Nat : \A n \in Nodes : n + k >= nodeCount => n \in S}
<1>1. /\ \A n \in Nodes : n \in Nat /\ n < nodeCount
      /\ \A n \in Nodes : \A i \in DOMAIN kids[n] : kids[n][i] \in Nodes /\ n < kids[n][i]
      /\ nodeCount \in Nat
  <2>1. nodeCount \in Nat /\ \A n \in Nodes : n \in Nat /\ n < nodeCount
    BY DEF Links
  <2>2. ASSUME NEW n \in Nodes, NEW i \in DOMAIN kids[n]
        PROVE  kids[n][i] \in Nodes /\ n < kids[n][i]
    <3>1. kids[n][i] \in Nodes \ {Root} /\ parent[kids[n][i]] = n
      BY DEF Links
    <3>2. parent[kids[n][i]] < kids[n][i]
      BY <3>1 DEF Links
    <3> QED BY <3>1, <3>2
  <2> QED BY <2>1, <2>2
<1>2. 0 \in N
  BY <1>1
<1>3. ASSUME NEW k \in Nat, k \in N PROVE k + 1 \in N
  <2> SUFFICES ASSUME NEW n \in Nodes, n + (k + 1) >= nodeCount PROVE n \in S
    OBVIOUS
  <2>1. ASSUME NEW i \in DOMAIN kids[n] PROVE kids[n][i] \in S
    <3>1. kids[n][i] \in Nodes /\ kids[n][i] \in Nat /\ n < kids[n][i] /\ n \in Nat
      BY <1>1
    <3>2. kids[n][i] + k >= nodeCount
      BY <1>1, <3>1
    <3> QED BY <1>3, <3>1, <3>2
  <2> QED BY <2>1
<1>4. nodeCount \in N
  <2> HIDE DEF N
  <2> QED BY <1>1, <1>2, <1>3, SetInduction
<1> QED BY <1>1, <1>4

-----------------------------------------------------------------------------
(* Walks to the root *)

Walks ==
  \A n \in Nodes :
    /\ Ancestors(n) = Proved!Ancestors(n)
    /\ Ancestors(n) = {n} \cup IF n = Root THEN {} ELSE Ancestors(parent[n])
    /\ n \in Ancestors(n) /\ Root \in Ancestors(n) /\ Ancestors(n) \subseteq Nodes
    /\ \A a \in Ancestors(n) :
         /\ a <= n /\ Ancestors(a) \subseteq Ancestors(n)
         /\ a # Root => parent[a] \in Ancestors(n)

Climbs(up) == up = [m \in Nodes |-> {m} \cup IF m = Root THEN {} ELSE up[parent[m]]]

LEMMA TreeWalks == Proved!ClosingInv => Walks
<1> SUFFICES ASSUME Proved!ClosingInv PROVE Walks
  OBVIOUS
<1>1. Proved!TypeOK /\ Proved!TreeShape /\ Links
  BY TreeLinks DEF Proved!ClosingInv, Proved!TreeInv
<1>2. \A n \in Nodes \ {Root} : n \in Proved!Nodes /\ parent[n] # Proved!NoNode
  BY <1>1, SameOperators DEF Links
<1> DEFINE up == [m \in Nodes |-> Proved!Ancestors(m)]
<1>3. Climbs(up)
  <2>1. ASSUME NEW m \in Nodes
        PROVE  up[m] = {m} \cup IF m = Root THEN {} ELSE up[parent[m]]
    <3>1. CASE m = Root
      BY <1>1, <3>1, SameOperators, BoundsAssumption, Proved!WalkOfRoot
    <3>2. CASE m # Root
      <4>1. m \in Proved!Nodes /\ parent[m] # Proved!NoNode
        BY <1>2, <3>2
      <4>2. Proved!Ancestors(m) = {m} \cup Proved!Ancestors(parent[m])
        BY <1>1, <4>1, BoundsAssumption, Proved!WalkStep
      <4>3. parent[m] \in Nodes
        BY <1>1, <3>2 DEF Links
      <4> QED BY <3>2, <4>2, <4>3
    <3> QED BY <3>1, <3>2
  <2> QED BY <2>1 DEF Climbs
<1> HIDE DEF up
<1> DEFINE some == CHOOSE f : Climbs(f)
<1>4. Climbs(some)
  BY <1>3
<1>5. \A n : Ancestors(n) = some[n]
  BY DEF Ancestors, Climbs
<1> HIDE DEF some
<1>6. Nodes \subseteq {n \in Nodes : some[n] = up[n]}
  <2> DEFINE S == {n \in Nodes : some[n] = up[n]}
  <2>1. ASSUME NEW n \in Nodes, n # Root => parent[n] \in S PROVE n \in S
    <3>1. some[n] = {n} \cup IF n = Root THEN {} ELSE some[parent[n]]
      BY <1>4 DEF Climbs
    <3>2. up[n] = {n} \cup IF n = Root THEN {} ELSE up[parent[n]]
      BY <1>3 DEF Climbs
    <3> QED BY <2>1, <3>1, <3>2
  <2> HIDE DEF S
  <2>2. Nodes \subseteq S
    BY <1>1, <2>1, DownInduction
  <2> QED BY <2>2 DEF S
<1>7. \A n \in Nodes : Ancestors(n) = Proved!Ancestors(n)
  BY <1>5, <1>6 DEF up
<1>8. \A n \in Nodes : Ancestors(n) = {n} \cup IF n = Root THEN {} ELSE Ancestors(parent[n])
  BY <1>4, <1>5 DEF Climbs
<1>9. \A n \in Nodes :
        /\ n \in Ancestors(n) /\ Ancestors(n) \subseteq Nodes
        /\ \A a \in Ancestors(n) : a <= n /\ Ancestors(a) \subseteq Ancestors(n)
  BY <1>1, <1>7, SameOperators, BoundsAssumption, Proved!WalkWithin, Proved!WalkOlder
<1>10. \A n \in Nodes : \A a \in Ancestors(n) : a # Root => parent[a] \in Ancestors(n)
  <2> SUFFICES ASSUME NEW n \in Nodes, NEW a \in Ancestors(n), a # Root
               PROVE  parent[a] \in Ancestors(n)
    OBVIOUS
  <2>1. a \in Nodes /\ parent[a] \in Nodes
    BY <1>1, <1>9 DEF Links
  <2>2. parent[a] \in Ancestors(a)
    BY <1>8, <1>9, <2>1
  <2> QED BY <1>9, <2>2
<1>11. Nodes \subseteq {n \in Nodes : Root \in Ancestors(n)}
  <2> DEFINE S == {n \in Nodes : Root \in Ancestors(n)}
  <2>1. ASSUME NEW n \in Nodes, n # Root => parent[n] \in S PROVE n \in S
    BY <1>8, <1>9, <2>1
  <2> HIDE DEF S
  <2>2. Nodes \subseteq S
    BY <1>1, <2>1, DownInduction
  <2> QED BY <2>2 DEF S
<1> QED BY <1>7, <1>8, <1>9, <1>10, <1>11 DEF Walks

\* Of two nodes on a walk, one is on the walk of the other.
LEMMA WalksTotal ==
  Proved!ClosingInv => \A n \in Nodes : \A a, b \in Ancestors(n) : a \in Ancestors(b) \/ b \in Ancestors(a)
<1> SUFFICES ASSUME Proved!ClosingInv, NEW n \in Nodes, NEW a \in Ancestors(n), NEW b \in Ancestors(n)
             PROVE  a \in Ancestors(b) \/ b \in Ancestors(a)
  OBVIOUS
<1>1. Proved!TypeOK /\ Walks
  BY TreeWalks DEF Proved!ClosingInv, Proved!TreeInv
<1>2. /\ n \in Nodes /\ a \in Nodes /\ b \in Nodes
      /\ \A m \in Nodes : Ancestors(m) = Proved!Ancestors(m)
  BY <1>1 DEF Walks
<1> QED BY <1>1, <1>2, SameOperators, BoundsAssumption, Proved!WalkTotal

-----------------------------------------------------------------------------
(* What the cursors do *)

\* What a shape of n encloses that is made from the shapes of its children.
Enclosed(f, n, shape) ==
  {Look(f, n)} \cup IF n \in f.hidden THEN {}
                    ELSE UNION {shape[kids[n][i]] : i \in DOMAIN kids[n]}

LEMMA EnclosedSame ==
  \A f, n, g, h : (\A i \in DOMAIN kids[n] : g[kids[n][i]] = h[kids[n][i]])
                    => Enclosed(f, n, g) = Enclosed(f, n, h)
<1> SUFFICES ASSUME NEW f, NEW n, NEW g, NEW h,
                    \A i \in DOMAIN kids[n] : g[kids[n][i]] = h[kids[n][i]]
             PROVE  Enclosed(f, n, g) = Enclosed(f, n, h)
  OBVIOUS
<1>1. {g[kids[n][i]] : i \in DOMAIN kids[n]} = {h[kids[n][i]] : i \in DOMAIN kids[n]}
  OBVIOUS
<1> QED BY <1>1 DEF Enclosed

Shaped(f, l, V, g) ==
  g = [n \in Nodes |-> IF n \notin V THEN l.shape[n] ELSE Enclosed(f, n, g)]

\* The run of the cursor over the nodes of V comes to an end.
LEMMA ShapesExist == Links => \A f, l, V : \E g : Shaped(f, l, V, g)
<1> SUFFICES ASSUME Links, NEW f, NEW l, NEW V PROVE \E g : Shaped(f, l, V, g)
  OBVIOUS
<1> DEFINE Next1(g, n) == IF n \notin V THEN l.shape[n] ELSE Enclosed(f, n, g)
           From(k, g) == /\ g = [n \in Nodes |-> g[n]]
                         /\ \A n \in Nodes : n + k >= nodeCount => g[n] = Next1(g, n)
           N == {k \in Nat : \E g : From(k, g)}
<1>1. /\ \A n \in Nodes : n \in Nat /\ n < nodeCount
      /\ \A n \in Nodes : \A i \in DOMAIN kids[n] : kids[n][i] \in Nodes /\ n < kids[n][i]
      /\ nodeCount \in Nat
  <2>1. nodeCount \in Nat /\ \A n \in Nodes : n \in Nat /\ n < nodeCount
    BY DEF Links
  <2>2. ASSUME NEW n \in Nodes, NEW i \in DOMAIN kids[n]
        PROVE  kids[n][i] \in Nodes /\ n < kids[n][i]
    <3>1. kids[n][i] \in Nodes \ {Root} /\ parent[kids[n][i]] = n
      BY DEF Links
    <3>2. parent[kids[n][i]] < kids[n][i]
      BY <3>1 DEF Links
    <3> QED BY <3>1, <3>2
  <2> QED BY <2>1, <2>2
<1>2. 0 \in N
  <2>1. From(0, [n \in Nodes |-> {}])
    BY <1>1
  <2> HIDE DEF From
  <2> QED BY <2>1
<1>3. ASSUME NEW k \in Nat, k \in N PROVE k + 1 \in N
  <2>1. PICK g : From(k, g)
    BY <1>3
  <2> DEFINE h == [n \in Nodes |-> IF n + (k + 1) = nodeCount THEN Next1(g, n) ELSE g[n]]
  <2>2. ASSUME NEW n \in Nodes, n + (k + 1) >= nodeCount PROVE h[n] = Next1(h, n)
    <3>1. ASSUME NEW i \in DOMAIN kids[n] PROVE h[kids[n][i]] = g[kids[n][i]]
      <4>1. kids[n][i] \in Nodes /\ kids[n][i] \in Nat /\ n < kids[n][i] /\ n \in Nat
        BY <1>1
      <4>2. kids[n][i] + (k + 1) # nodeCount
        BY <1>1, <2>2, <4>1
      <4> QED BY <4>1, <4>2
    <3>2. Enclosed(f, n, h) = Enclosed(f, n, g)
      <4> HIDE DEF h
      <4> QED BY <3>1, EnclosedSame
    <3>3. h[n] = Next1(g, n)
      <4>1. CASE n + (k + 1) = nodeCount
        BY <4>1
      <4>2. CASE n + (k + 1) # nodeCount
        <5>1. n + k >= nodeCount
          BY <1>1, <2>2, <4>2
        <5>2. g[n] = Next1(g, n)
          BY <2>1, <5>1
        <5> QED BY <4>2, <5>2
      <4> QED BY <4>1, <4>2
    <3> QED BY <3>2, <3>3
  <2>3. From(k + 1, h)
    <3>1. h = [n \in Nodes |-> h[n]]
      OBVIOUS
    <3> HIDE DEF h, Next1
    <3> QED BY <2>2, <3>1
  <2> HIDE DEF h, From
  <2> QED BY <2>3
<1>4. nodeCount \in N
  <2> HIDE DEF N
  <2> QED BY <1>1, <1>2, <1>3, SetInduction
<1>5. PICK g : From(nodeCount, g)
  BY <1>4
<1>6. \A n \in Nodes : g[n] = Next1(g, n)
  BY <1>1, <1>5
<1>7. Shaped(f, l, V, g)
  BY <1>5, <1>6 DEF Shaped
<1> QED BY <1>7

\* What a run of the layout cursor leaves behind.
LaidOut(f, l, l2) ==
  /\ l2 = [dirty |-> l2.dirty, done |-> l2.done, shape |-> l2.shape]
  /\ l2.dirty = l.dirty \ Visit(f, l)
  /\ l2.done = l.done \cup Visit(f, l)
  /\ Allocated(l2) = Nodes
  /\ \A n \in Nodes : l2.shape[n] = IF n \notin Visit(f, l) THEN l.shape[n]
                                    ELSE Enclosed(f, n, l2.shape)

LEMMA LayOutIs == Links => \A f, l : LaidOut(f, l, LayOut(f, l))
<1> SUFFICES ASSUME Links, NEW f, NEW l PROVE LaidOut(f, l, LayOut(f, l))
  OBVIOUS
<1> DEFINE g == CHOOSE g : Shaped(f, l, Visit(f, l), g)
<1>1. LayOut(f, l) =
        [dirty |-> l.dirty \ Visit(f, l), done |-> l.done \cup Visit(f, l), shape |-> g]
  BY DEF LayOut, Shaped, Enclosed
<1>2. Shaped(f, l, Visit(f, l), g)
  BY ShapesExist
<1> HIDE DEF g
<1>3. /\ DOMAIN g = Nodes
      /\ \A n \in Nodes : g[n] = IF n \notin Visit(f, l) THEN l.shape[n] ELSE Enclosed(f, n, g)
  BY <1>2 DEF Shaped
<1> QED BY <1>1, <1>3 DEF LaidOut, Allocated

\* dirtyUp leaves no node dirty below a clean one it has come from.
LEMMA DirtyUpReaches ==
  Proved!ClosingInv => \A n \in Nodes : \A dirty :
    /\ n \in dirty \cup DirtyUp(n, dirty)
    /\ DirtyUp(n, dirty) \subseteq Nodes
    /\ \A a \in DirtyUp(n, dirty) \ {Root} : parent[a] \in dirty \cup DirtyUp(n, dirty)
<1> SUFFICES ASSUME Proved!ClosingInv, NEW n \in Nodes, NEW dirty
             PROVE  /\ n \in dirty \cup DirtyUp(n, dirty)
                    /\ DirtyUp(n, dirty) \subseteq Nodes
                    /\ \A a \in DirtyUp(n, dirty) \ {Root} :
                         parent[a] \in dirty \cup DirtyUp(n, dirty)
  OBVIOUS
<1>1. Walks /\ Links
  BY TreeWalks, TreeLinks
<1>2. \A m \in Nodes : m \in Int
  BY <1>1 DEF Links
<1>3. \A b, c \in Ancestors(n) : b \in Ancestors(c) /\ c \in Ancestors(b) => b = c
  <2> SUFFICES ASSUME NEW b \in Ancestors(n), NEW c \in Ancestors(n),
                      b \in Ancestors(c), c \in Ancestors(b)
               PROVE  b = c
    OBVIOUS
  <2>1. b \in Nodes /\ c \in Nodes
    BY <1>1 DEF Walks
  <2>2. b <= c /\ c <= b
    BY <1>1, <2>1 DEF Walks
  <2> QED BY <1>2, <2>1, <2>2
<1>4. n \in Ancestors(n) /\ Ancestors(n) \subseteq Nodes
  BY <1>1 DEF Walks
<1>5. n \in dirty \cup DirtyUp(n, dirty)
  BY <1>3, <1>4 DEF DirtyUp
<1>6. ASSUME NEW a \in DirtyUp(n, dirty), a # Root, parent[a] \notin dirty
      PROVE  parent[a] \in DirtyUp(n, dirty)
  <2>1. /\ a \in Ancestors(n) /\ a \in Nodes
        /\ \A b \in Ancestors(n) : a \in Ancestors(b) => b \notin dirty
    BY <1>4 DEF DirtyUp
  <2>2. parent[a] \in Ancestors(n) /\ parent[a] \in Nodes
    BY <1>1, <1>4, <1>6, <2>1 DEF Walks
  <2>3. Ancestors(a) = {a} \cup Ancestors(parent[a])
    BY <1>1, <1>6, <2>1 DEF Walks
  <2>4. ASSUME NEW b \in Ancestors(n), parent[a] \in Ancestors(b) PROVE b \notin dirty
    <3>1. CASE a \in Ancestors(b)
      BY <2>1, <3>1
    <3>2. CASE b \in Ancestors(a)
      <4>1. CASE b = a
        BY <2>1, <2>3, <4>1
      <4>2. CASE b \in Ancestors(parent[a])
        <5>1. b = parent[a]
          BY <1>3, <2>2, <2>4, <4>2
        <5> QED BY <1>6, <5>1
      <4> QED BY <2>3, <3>2, <4>1, <4>2
    <3> QED BY <2>1, <3>1, <3>2, WalksTotal
  <2> QED BY <2>2, <2>4 DEF DirtyUp
<1>7. DirtyUp(n, dirty) \subseteq Nodes
  BY <1>4 DEF DirtyUp
<1> QED BY <1>5, <1>6, <1>7

\* The layout cursor visits a dirty node exactly if it visits its parent and
\* that is not hidden.
LEMMA VisitDescends ==
  Proved!ClosingInv => \A f, l : l.dirty \subseteq Nodes =>
    /\ Visit(f, l) \subseteq l.dirty
    /\ Root \in l.dirty => Root \in Visit(f, l)
    /\ \A n \in Visit(f, l) \ {Root} : parent[n] \in Visit(f, l) /\ parent[n] \notin f.hidden
    /\ \A n \in l.dirty \ {Root} :
         parent[n] \in Visit(f, l) /\ parent[n] \notin f.hidden => n \in Visit(f, l)
<1> SUFFICES ASSUME Proved!ClosingInv, NEW f, NEW l, l.dirty \subseteq Nodes
             PROVE  /\ Visit(f, l) \subseteq l.dirty
                    /\ Root \in l.dirty => Root \in Visit(f, l)
                    /\ \A n \in Visit(f, l) \ {Root} :
                         parent[n] \in Visit(f, l) /\ parent[n] \notin f.hidden
                    /\ \A n \in l.dirty \ {Root} :
                         parent[n] \in Visit(f, l) /\ parent[n] \notin f.hidden
                           => n \in Visit(f, l)
  OBVIOUS
<1>1. Walks /\ Links
  BY TreeWalks, TreeLinks
<1>2. Root \in l.dirty => Ancestors(Root) \ {Root} = {}
  BY <1>1 DEF Walks
<1>3. ASSUME NEW n \in l.dirty, n # Root
      PROVE  /\ Ancestors(n) \ {n} = Ancestors(parent[n])
             /\ parent[n] \in Ancestors(parent[n]) /\ parent[n] \in Nodes
  <2>1. n \in Nodes /\ parent[n] \in Nodes /\ parent[n] < n
    BY <1>1, <1>3 DEF Links
  <2>2. Ancestors(n) = {n} \cup Ancestors(parent[n]) /\ parent[n] \in Ancestors(parent[n])
    BY <1>1, <1>3, <2>1 DEF Walks
  <2>3. n \notin Ancestors(parent[n])
    <3>1. n \in Int /\ parent[n] \in Int
      BY <1>1, <2>1 DEF Links
    <3>2. n \in Ancestors(parent[n]) => n <= parent[n]
      BY <1>1, <2>1 DEF Walks
    <3> QED BY <2>1, <3>1, <3>2
  <2> QED BY <2>1, <2>2, <2>3
<1>4. ASSUME NEW n \in Visit(f, l), n # Root
      PROVE  parent[n] \in Visit(f, l) /\ parent[n] \notin f.hidden
  <2>1. n \in l.dirty /\ \A a \in Ancestors(n) \ {n} : a \in l.dirty \ f.hidden
    BY DEF Visit
  <2> QED BY <1>3, <1>4, <2>1 DEF Visit
<1>5. ASSUME NEW n \in l.dirty, n # Root, parent[n] \in Visit(f, l), parent[n] \notin f.hidden
      PROVE  n \in Visit(f, l)
  <2>1. /\ parent[n] \in l.dirty
        /\ \A a \in Ancestors(parent[n]) \ {parent[n]} : a \in l.dirty \ f.hidden
    BY <1>5 DEF Visit
  <2>2. \A a \in Ancestors(n) \ {n} : a \in l.dirty \ f.hidden
    BY <1>3, <1>5, <2>1
  <2> QED BY <2>2 DEF Visit
<1> QED BY <1>2, <1>4, <1>5 DEF Visit

-----------------------------------------------------------------------------
(* The invariant *)

FlagsTyped(f) ==
  /\ f = [hidden |-> f.hidden, labelled |-> f.labelled, lantern |-> f.lantern]
  /\ f.hidden \subseteq {n \in Nodes : ~IsLeaf(n)} /\ f.labelled \subseteq Nodes
  /\ DOMAIN f.lantern \subseteq Nodes
  /\ \A n \in DOMAIN f.lantern : f.lantern[n] \in 0 .. MaxLantern

LayoutTyped(l) ==
  /\ l = [dirty |-> l.dirty, done |-> l.done, shape |-> l.shape]
  /\ Allocated(l) \subseteq Nodes
  /\ l.dirty \subseteq Allocated(l) /\ l.done \subseteq Allocated(l)
  /\ \A n \in Allocated(l) : l.shape[n] \subseteq Looks
  /\ \A n \in Allocated(l) \ {Root} : parent[n] \in Allocated(l)

\* A node the layout has no entry for was announced to the layout computer with
\* its parent, or its parent has no entry either.
NewAreNoted(l, D) ==
  \A n \in Nodes \ Allocated(l) : n = Root \/ parent[n] \in D \/ parent[n] \notin Allocated(l)

\* A dirty node is not forgotten below a clean one: the cursor comes by when it
\* visits the parent, unless that is hidden.
DirtyAreLinked(f, l, D) ==
  \A n \in l.dirty \ {Root} : parent[n] \in l.dirty \cup f.hidden \cup D

\* The shape of n is what it would be if it was laid out now.
ShapeIsRight(f, l, n) ==
  /\ n \notin f.hidden => \A i \in DOMAIN kids[n] : kids[n][i] \in Allocated(l)
  /\ Unlabelled(l.shape[n]) = Unlabelled(Enclosed(f, n, l.shape))

\* What is neither dirty nor noted needs no layout.
CleanAreRight(f, l, D) ==
  \A n \in Allocated(l) \ (l.dirty \cup D) : ShapeIsRight(f, l, n) /\ n \in l.done

Held(S) == {x.node : x \in S}

OwnShapes(l) == \A n \in l.done : n \in Held(l.shape[n])

\* What holds of flags f, a layout l and noted nodes D at any time.
Sound(f, l, D) ==
  /\ FlagsTyped(f) /\ LayoutTyped(l) /\ D \subseteq Nodes
  /\ NewAreNoted(l, D)
  /\ DirtyAreLinked(f, l, D)
  /\ CleanAreRight(f, l, D)
  /\ OwnShapes(l)

\* What holds besides when no command has left the flags ahead of the layout:
\* on the way to what may be drawn nothing is dirty, and shapes lie within those
\* above them.
Rested(f, l) ==
  /\ Root \notin l.dirty
  /\ DirtyAreLinked(f, l, {})
  /\ \A n \in l.done \ {Root} :
       parent[n] \in Allocated(l) \ (l.dirty \cup f.hidden)
         => Held(l.shape[n]) \subseteq Held(l.shape[parent[n]])

\* What holds when nothing is due: what is left noted is a label of the root.
Settled(f, l, D) ==
  /\ Allocated(l) = Nodes
  /\ D \subseteq {Root}
  /\ \A n \in Nodes \ l.dirty : ShapeIsRight(f, l, n) /\ n \in l.done

ViewInv ==
  /\ Proved!ClosingInv
  /\ Sound(flags, layout, du)
  /\ main # "compute" => Rested(flags, layout)
  /\ ~posted /\ (main = "clear" \/ (main = "idle" /\ ~stale)) => Settled(flags, layout, du)
  /\ stale \in BOOLEAN /\ posted \in BOOLEAN /\ building \in BOOLEAN /\ fault \in BOOLEAN
  /\ main \in {"idle", "compute", "clear"}
  /\ commands \in 0 .. MaxCommands
  /\ AtRestIsSafe

-----------------------------------------------------------------------------
(* compute *)

\* What growDataStructures and dirtyUp for the noted nodes leave behind.
Noted(f, l, D, l1) ==
  /\ l.dirty \cup D \cup (Nodes \ Allocated(l)) \subseteq l1.dirty /\ l1.dirty \subseteq Nodes
  /\ l1.done = l.done
  /\ Allocated(l1) = Nodes
  /\ \A n \in Nodes : l1.shape[n] = IF n \in Allocated(l) THEN l.shape[n] ELSE {}
  /\ \A n \in l1.dirty \ {Root} : parent[n] \in l1.dirty \cup f.hidden

LEMMA AllNoted ==
  Proved!ClosingInv => \A f, l, D : Sound(f, l, D) => Noted(f, l, D, DirtyUpAll(Grow(l), D))
<1> SUFFICES ASSUME Proved!ClosingInv, NEW f, NEW l, NEW D, Sound(f, l, D)
             PROVE  Noted(f, l, D, DirtyUpAll(Grow(l), D))
  OBVIOUS
<1> DEFINE g == Grow(l)
           spread == UNION {DirtyUp(n, g.dirty) : n \in D}
           l1 == DirtyUpAll(g, D)
<1>1. /\ D \subseteq Nodes /\ l.dirty \subseteq Allocated(l) /\ Allocated(l) \subseteq Nodes
  BY DEF Sound, LayoutTyped
<1>2. /\ g.dirty = l.dirty \cup (Nodes \ Allocated(l)) /\ g.done = l.done
      /\ g.shape = [n \in Nodes |-> IF n \in Allocated(l) THEN l.shape[n] ELSE {}]
      /\ g = [dirty |-> g.dirty, done |-> g.done, shape |-> g.shape]
  BY DEF Grow
<1> HIDE DEF g
<1>3. l1.dirty = g.dirty \cup spread /\ l1.done = g.done /\ l1.shape = g.shape
  <2> HIDE DEF spread
  <2>1. l1 = [g EXCEPT !.dirty = @ \cup spread]
    BY DEF DirtyUpAll, spread
  <2> QED BY <1>2, <2>1
<1> HIDE DEF l1
<1>4. spread \subseteq Nodes /\ D \subseteq g.dirty \cup spread
  BY <1>1, DirtyUpReaches
<1>5. \A a \in spread \ {Root} : parent[a] \in g.dirty \cup spread
  BY <1>1, DirtyUpReaches
<1> HIDE DEF spread
<1>6. /\ Allocated(l1) = Nodes
      /\ \A n \in Nodes : l1.shape[n] = IF n \in Allocated(l) THEN l.shape[n] ELSE {}
  BY <1>1, <1>2, <1>3 DEF Allocated
<1>7. ASSUME NEW n \in l1.dirty, n # Root PROVE parent[n] \in l1.dirty \cup f.hidden
  <2>1. n \in Nodes
    BY <1>1, <1>2, <1>3, <1>4
  <2>2. parent[n] \in Nodes
    BY <1>7, <2>1, TreeLinks DEF Links
  <2>3. CASE n \in spread
    BY <1>3, <1>5, <1>7, <2>3
  <2>4. CASE n \in l.dirty
    <3>1. parent[n] \in l.dirty \cup f.hidden \cup D
      BY <1>7, <2>4 DEF Sound, DirtyAreLinked
    <3> QED BY <1>2, <1>3, <1>4, <3>1
  <2>5. CASE n \in Nodes \ Allocated(l)
    <3>1. parent[n] \in D \/ parent[n] \notin Allocated(l)
      BY <1>7, <2>5 DEF Sound, NewAreNoted
    <3> QED BY <1>2, <1>3, <1>4, <2>2, <3>1
  <2> QED BY <1>2, <1>3, <2>3, <2>4, <2>5
<1>8. l.dirty \cup D \cup (Nodes \ Allocated(l)) \subseteq l1.dirty /\ l1.dirty \subseteq Nodes
  BY <1>1, <1>2, <1>3, <1>4
<1> QED BY <1>2, <1>3, <1>6, <1>7, <1>8 DEF Noted, l1, g

LEMMA LooksTyped ==
  Links => \A f : FlagsTyped(f) => \A n \in Nodes : Look(f, n) \in Looks /\ Look(f, n).node = n
<1> SUFFICES ASSUME Links, NEW f, FlagsTyped(f), NEW n \in Nodes
             PROVE  Look(f, n) \in Looks /\ Look(f, n).node = n
  OBVIOUS
<1>1. Label(f, n) \in {"none", "empty", "left", "right"}
  BY DEF Label
<1>2. LabelRoom(f, n) \in {"none", "empty", "left", "right"}
  BY <1>1 DEF LabelRoom
<1>3. LanternSize(f, n) \in -1 .. MaxLantern
  BY DEF LanternSize, FlagsTyped, MaxLantern
<1> QED BY <1>2, <1>3 DEF Look, Looks

\* Labels aside, a shape tells which nodes it holds.
LEMMA HeldUnlabelled ==
  \A S, T \in SUBSET Looks : Unlabelled(S) = Unlabelled(T) => Held(S) = Held(T)
<1>1. ASSUME NEW S \in SUBSET Looks PROVE Held(S) = Held(Unlabelled(S))
  <2>1. \A x \in S : [x EXCEPT !.label = "none"].node = x.node
    BY DEF Looks
  <2>2. \A y \in Unlabelled(S) : \E x \in S : y = [x EXCEPT !.label = "none"]
    BY DEF Unlabelled
  <2>3. \A x \in S : [x EXCEPT !.label = "none"] \in Unlabelled(S)
    BY DEF Unlabelled
  <2>4. \A m : m \in Held(S) <=> \E x \in S : m = x.node
    BY DEF Held
  <2>5. \A m : m \in Held(Unlabelled(S)) <=> \E y \in Unlabelled(S) : m = y.node
    BY DEF Held
  <2>6. ASSUME NEW m PROVE m \in Held(S) => m \in Held(Unlabelled(S))
    BY <2>1, <2>3, <2>4, <2>5
  <2>7. ASSUME NEW m PROVE m \in Held(Unlabelled(S)) => m \in Held(S)
    <3> SUFFICES ASSUME m \in Held(Unlabelled(S)) PROVE m \in Held(S)
      OBVIOUS
    <3>1. PICK y \in Unlabelled(S) : m = y.node
      BY <2>5
    <3>2. PICK x \in S : y = [x EXCEPT !.label = "none"]
      BY <2>2
    <3>3. m = x.node
      BY <2>1, <3>1, <3>2
    <3> QED BY <2>4, <3>3
  <2> QED BY <2>6, <2>7
<1> QED BY <1>1

\* The shape of a node that is right and not hidden holds what its children's do.
LEMMA RightShapesHold ==
  Links => \A f, l : \A n \in Nodes :
    /\ FlagsTyped(f) /\ LayoutTyped(l) /\ n \in Allocated(l)
    /\ ShapeIsRight(f, l, n) /\ n \notin f.hidden
    => \A i \in DOMAIN kids[n] : Held(l.shape[kids[n][i]]) \subseteq Held(l.shape[n])
<1> SUFFICES ASSUME Links, NEW f, NEW l, NEW n \in Nodes,
                    FlagsTyped(f), LayoutTyped(l), n \in Allocated(l),
                    ShapeIsRight(f, l, n), n \notin f.hidden, NEW i \in DOMAIN kids[n]
             PROVE  Held(l.shape[kids[n][i]]) \subseteq Held(l.shape[n])
  OBVIOUS
<1>1. \A j \in DOMAIN kids[n] : l.shape[kids[n][j]] \subseteq Looks
  BY DEF ShapeIsRight, LayoutTyped
<1>2. Enclosed(f, n, l.shape) = {Look(f, n)} \cup UNION {l.shape[kids[n][j]] : j \in DOMAIN kids[n]}
  BY DEF Enclosed
<1>3. Enclosed(f, n, l.shape) \subseteq Looks
  <2>1. Look(f, n) \in Looks
    BY LooksTyped
  <2> QED BY <1>1, <1>2, <2>1
<1>4. l.shape[n] \subseteq Looks
  BY DEF LayoutTyped
<1>5. Held(l.shape[n]) = Held(Enclosed(f, n, l.shape))
  BY <1>3, <1>4, HeldUnlabelled DEF ShapeIsRight
<1>6. l.shape[kids[n][i]] \subseteq Enclosed(f, n, l.shape)
  BY <1>2
<1> QED BY <1>5, <1>6 DEF Held

\* After compute everything that was noted has been laid out or is hidden.
LEMMA ComputeSettles ==
  Proved!ClosingInv /\ nodeCount > 0 => \A f, l, D : Sound(f, l, D) =>
    /\ Sound(f, Compute(f, l, D), {})
    /\ Rested(f, Compute(f, l, D))
    /\ Settled(f, Compute(f, l, D), {})
<1> SUFFICES ASSUME Proved!ClosingInv, nodeCount > 0, NEW f, NEW l, NEW D, Sound(f, l, D)
             PROVE  /\ Sound(f, Compute(f, l, D), {})
                    /\ Rested(f, Compute(f, l, D))
                    /\ Settled(f, Compute(f, l, D), {})
  OBVIOUS
<1>1. Links
  BY TreeLinks
<1>2. PICK l1 : l1 = DirtyUpAll(Grow(l), D)
  OBVIOUS
<1>3. PICK l2 : l2 = LayOut(f, l1)
  OBVIOUS
<1>4. Compute(f, l, D) = l2
  <2>1. nodeCount # 0
    BY <1>1 DEF Links
  <2> QED BY <1>2, <1>3, <2>1 DEF Compute
<1>5. Noted(f, l, D, l1)
  BY <1>2, AllNoted
<1>6. LaidOut(f, l1, l2)
  BY <1>1, <1>3, LayOutIs
<1>7. PICK V : V = Visit(f, l1)
  OBVIOUS
<1>8. /\ V \subseteq l1.dirty /\ V \subseteq Nodes
      /\ Root \in l1.dirty => Root \in V
      /\ \A n \in V \ {Root} : parent[n] \in V /\ parent[n] \notin f.hidden
      /\ \A n \in l1.dirty \ {Root} : parent[n] \in V /\ parent[n] \notin f.hidden => n \in V
  BY <1>5, <1>7, VisitDescends DEF Noted
<1>9. /\ l2 = [dirty |-> l2.dirty, done |-> l2.done, shape |-> l2.shape]
      /\ l2.dirty = l1.dirty \ V
      /\ l2.done = l.done \cup V
      /\ Allocated(l2) = Nodes
      /\ \A n \in V : l2.shape[n] = Enclosed(f, n, l2.shape)
      /\ \A n \in Nodes \ V : l2.shape[n] = l1.shape[n]
  BY <1>5, <1>6, <1>7, <1>8 DEF LaidOut, Noted
<1>10. /\ FlagsTyped(f) /\ LayoutTyped(l)
       /\ Allocated(l) \subseteq Nodes /\ l.done \subseteq Allocated(l)
       /\ l1.dirty \subseteq Nodes
       /\ \A n \in Nodes \ l1.dirty : n \in Allocated(l) \ (l.dirty \cup D)
  BY <1>5 DEF Sound, LayoutTyped, Noted
<1>11. \A n \in Allocated(l) \ V : l2.shape[n] = l.shape[n]
  BY <1>5, <1>9, <1>10 DEF Noted
<1>12. ASSUME NEW n \in Nodes \ l2.dirty
       PROVE  ShapeIsRight(f, l2, n) /\ n \in l2.done
  <2>1. CASE n \in V
    <3>1. \A i \in DOMAIN kids[n] : kids[n][i] \in Allocated(l2)
      BY <1>1, <1>9 DEF Links
    <3>2. l2.shape[n] = Enclosed(f, n, l2.shape) /\ n \in l2.done
      BY <1>9, <2>1
    <3> QED BY <3>1, <3>2 DEF ShapeIsRight
  <2>2. CASE n \notin V
    <3>1. n \in Allocated(l) \ (l.dirty \cup D)
      BY <1>9, <1>10, <2>2
    <3>2. ShapeIsRight(f, l, n) /\ n \in l.done
      BY <3>1 DEF Sound, CleanAreRight
    <3>3. ASSUME NEW i \in DOMAIN kids[n] PROVE kids[n][i] \in Nodes /\ kids[n][i] \notin V
      <4>1. kids[n][i] \in Nodes \ {Root} /\ parent[kids[n][i]] = n
        BY <1>1 DEF Links
      <4> QED BY <1>8, <2>2, <4>1
    <3>4. Enclosed(f, n, l2.shape) = Enclosed(f, n, l.shape)
      <4>1. CASE n \in f.hidden
        BY <4>1 DEF Enclosed
      <4>2. CASE n \notin f.hidden
        <5>1. \A i \in DOMAIN kids[n] : l2.shape[kids[n][i]] = l.shape[kids[n][i]]
          BY <1>11, <3>2, <3>3, <4>2 DEF ShapeIsRight
        <5> QED BY <5>1, EnclosedSame
      <4> QED BY <4>1, <4>2
    <3>5. l2.shape[n] = l.shape[n]
      BY <1>11, <2>2, <3>1
    <3>6. \A i \in DOMAIN kids[n] : kids[n][i] \in Allocated(l2)
      BY <1>9, <3>3
    <3>7. Unlabelled(l2.shape[n]) = Unlabelled(Enclosed(f, n, l2.shape))
      BY <3>2, <3>4, <3>5 DEF ShapeIsRight
    <3> QED BY <1>9, <3>2, <3>6, <3>7 DEF ShapeIsRight
  <2> QED BY <2>1, <2>2
<1>13. \A n \in Nodes : l2.shape[n] \subseteq Looks
  <2> DEFINE S == {n \in Nodes : l2.shape[n] \subseteq Looks}
  <2>1. ASSUME NEW n \in Nodes, \A i \in DOMAIN kids[n] : kids[n][i] \in S PROVE n \in S
    <3>1. CASE n \in V
      <4>1. UNION {l2.shape[kids[n][i]] : i \in DOMAIN kids[n]} \subseteq Looks
        BY <2>1
      <4>2. Look(f, n) \in Looks
        BY <1>1, <1>10, LooksTyped
      <4>3. l2.shape[n] = Enclosed(f, n, l2.shape)
        BY <1>9, <3>1
      <4> QED BY <4>1, <4>2, <4>3 DEF Enclosed
    <3>2. CASE n \notin V
      <4>1. l2.shape[n] = IF n \in Allocated(l) THEN l.shape[n] ELSE {}
        BY <1>5, <1>9, <3>2 DEF Noted
      <4>2. n \in Allocated(l) => l.shape[n] \subseteq Looks
        BY <1>10 DEF LayoutTyped
      <4> QED BY <4>1, <4>2
    <3> QED BY <3>1, <3>2
  <2> HIDE DEF S
  <2>2. Nodes \subseteq S
    BY <1>1, <2>1, UpInduction
  <2> QED BY <2>2 DEF S
<1>14. LayoutTyped(l2)
  <2>1. l2.dirty \subseteq Nodes /\ l2.done \subseteq Nodes
    BY <1>8, <1>9, <1>10
  <2>2. \A n \in Nodes \ {Root} : parent[n] \in Nodes
    BY <1>1 DEF Links
  <2> QED BY <1>9, <1>13, <2>1, <2>2 DEF LayoutTyped
<1>15. Root \notin l2.dirty
  BY <1>8, <1>9
<1>16. DirtyAreLinked(f, l2, {})
  <2> SUFFICES ASSUME NEW n \in l2.dirty \ {Root} PROVE parent[n] \in l2.dirty \cup f.hidden
    BY DEF DirtyAreLinked
  <2>1. n \in l1.dirty /\ n \notin V
    BY <1>9
  <2>2. parent[n] \in l1.dirty \cup f.hidden
    BY <1>5, <2>1 DEF Noted
  <2> QED BY <1>8, <1>9, <2>1, <2>2
<1>17. OwnShapes(l2)
  <2> SUFFICES ASSUME NEW n \in l2.done PROVE n \in Held(l2.shape[n])
    BY DEF OwnShapes
  <2>1. CASE n \in V
    <3>1. Look(f, n) \in l2.shape[n] /\ Look(f, n).node = n
      BY <1>1, <1>8, <1>9, <1>10, <2>1, LooksTyped DEF Enclosed
    <3> QED BY <3>1 DEF Held
  <2>2. CASE n \notin V
    <3>1. n \in l.done /\ n \in Allocated(l)
      BY <1>9, <1>10, <2>2
    <3>2. l2.shape[n] = l.shape[n]
      BY <1>11, <2>2, <3>1
    <3> QED BY <3>1, <3>2 DEF Sound, OwnShapes
  <2> QED BY <2>1, <2>2
<1>18. ASSUME NEW n \in l2.done \ {Root}, parent[n] \in Allocated(l2) \ (l2.dirty \cup f.hidden)
       PROVE  Held(l2.shape[n]) \subseteq Held(l2.shape[parent[n]])
  <2>1. n \in Nodes \ {Root} /\ parent[n] \in Nodes /\ parent[n] \in Nodes \ l2.dirty
        /\ parent[n] \notin f.hidden
    BY <1>9, <1>14, <1>18 DEF LayoutTyped
  <2>2. PICK i \in DOMAIN kids[parent[n]] : kids[parent[n]][i] = n
    BY <1>1, <2>1 DEF Links
  <2>3. ShapeIsRight(f, l2, parent[n])
    BY <1>12, <2>1
  <2>4. Held(l2.shape[kids[parent[n]][i]]) \subseteq Held(l2.shape[parent[n]])
    BY <1>1, <1>9, <1>10, <1>14, <2>1, <2>3, RightShapesHold
  <2> QED BY <2>2, <2>4
<1>19. Rested(f, l2)
  BY <1>15, <1>16, <1>18 DEF Rested
<1>20. Settled(f, l2, {})
  BY <1>9, <1>12 DEF Settled
<1>21. Sound(f, l2, {})
  <2>1. NewAreNoted(l2, {})
    BY <1>9 DEF NewAreNoted
  <2>2. CleanAreRight(f, l2, {})
    BY <1>9, <1>12 DEF CleanAreRight
  <2> QED BY <1>10, <1>14, <1>16, <1>17, <2>1, <2>2 DEF Sound
<1> QED BY <1>4, <1>19, <1>20, <1>21

-----------------------------------------------------------------------------
(* What a command may change *)

\* The step from (f, l, D) to (f2, l2, D2) notes or marks as dirty whatever it
\* makes look different.
Touches(f, l, D, f2, l2, D2) ==
  /\ FlagsTyped(f2)
  /\ l2 = [dirty |-> l2.dirty, done |-> l2.done, shape |-> l.shape]
  /\ l.dirty \subseteq l2.dirty /\ l2.dirty \subseteq Allocated(l)
  /\ l2.done \subseteq l.done
  /\ D \subseteq D2 /\ D2 \subseteq Nodes
  /\ \A n \in l2.dirty \ l.dirty : n # Root => parent[n] \in l2.dirty
  /\ \A n \in Nodes \ (D2 \cup l2.dirty) :
       /\ n \in f2.hidden <=> n \in f.hidden
       /\ LanternSize(f2, n) = LanternSize(f, n)
       /\ n \in l.done => n \in l2.done

\* Only the hidden flag and the lantern of a node decide what its shape is like.
LEMMA LooksAlike ==
  \A f, f2, n, shape :
    (n \in f2.hidden <=> n \in f.hidden) /\ LanternSize(f2, n) = LanternSize(f, n)
      => Unlabelled(Enclosed(f2, n, shape)) = Unlabelled(Enclosed(f, n, shape))
<1> SUFFICES ASSUME NEW f, NEW f2, NEW n, NEW shape,
                    n \in f2.hidden <=> n \in f.hidden, LanternSize(f2, n) = LanternSize(f, n)
             PROVE  Unlabelled(Enclosed(f2, n, shape)) = Unlabelled(Enclosed(f, n, shape))
  OBVIOUS
<1>1. PICK X : X = IF n \in f.hidden THEN {} ELSE UNION {shape[kids[n][i]] : i \in DOMAIN kids[n]}
  OBVIOUS
<1>2. Enclosed(f2, n, shape) = {Look(f2, n)} \cup X /\ Enclosed(f, n, shape) = {Look(f, n)} \cup X
  BY <1>1 DEF Enclosed
<1>3. [Look(f2, n) EXCEPT !.label = "none"] = [Look(f, n) EXCEPT !.label = "none"]
  BY DEF Look
<1>4. ASSUME NEW y PROVE Unlabelled({y} \cup X) = {[y EXCEPT !.label = "none"]} \cup Unlabelled(X)
  BY DEF Unlabelled
<1>5. /\ Unlabelled({Look(f2, n)} \cup X) =
           {[Look(f2, n) EXCEPT !.label = "none"]} \cup Unlabelled(X)
      /\ Unlabelled({Look(f, n)} \cup X) =
           {[Look(f, n) EXCEPT !.label = "none"]} \cup Unlabelled(X)
  BY <1>4, Zenon
<1> QED BY <1>2, <1>3, <1>5, Zenon

LEMMA TouchedIsSound ==
  Links => \A f, l, D, f2, l2, D2 :
    Sound(f, l, D) /\ Touches(f, l, D, f2, l2, D2) => Sound(f2, l2, D2)
<1> SUFFICES ASSUME Links, NEW f, NEW l, NEW D, NEW f2, NEW l2, NEW D2,
                    Sound(f, l, D), Touches(f, l, D, f2, l2, D2)
             PROVE  Sound(f2, l2, D2)
  OBVIOUS
<1>1. /\ Allocated(l2) = Allocated(l) /\ l2.shape = l.shape
      /\ l2 = [dirty |-> l2.dirty, done |-> l2.done, shape |-> l2.shape]
      /\ l.dirty \subseteq l2.dirty /\ l2.dirty \subseteq Allocated(l)
      /\ l2.done \subseteq l.done
      /\ D \subseteq D2 /\ D2 \subseteq Nodes
      /\ FlagsTyped(f2)
  BY DEF Touches, Allocated
<1>2. FlagsTyped(f) /\ LayoutTyped(l)
  BY DEF Sound
<1>3. LayoutTyped(l2)
  BY <1>1, <1>2 DEF LayoutTyped
<1>4. NewAreNoted(l2, D2)
  BY <1>1 DEF Sound, NewAreNoted
<1>5. DirtyAreLinked(f2, l2, D2)
  <2> SUFFICES ASSUME NEW n \in l2.dirty \ {Root}
               PROVE  parent[n] \in l2.dirty \cup f2.hidden \cup D2
    BY DEF DirtyAreLinked
  <2>1. CASE n \in l.dirty
    <3>1. parent[n] \in l.dirty \cup f.hidden \cup D
      BY <2>1 DEF Sound, DirtyAreLinked
    <3>2. n \in Nodes /\ parent[n] \in Nodes
      BY <1>2, <2>1 DEF LayoutTyped, Links
    <3> QED BY <1>1, <3>1, <3>2 DEF Touches
  <2>2. CASE n \notin l.dirty
    BY <2>2 DEF Touches
  <2> QED BY <2>1, <2>2
<1>6. CleanAreRight(f2, l2, D2)
  <2> SUFFICES ASSUME NEW n \in Allocated(l2) \ (l2.dirty \cup D2)
               PROVE  ShapeIsRight(f2, l2, n) /\ n \in l2.done
    BY DEF CleanAreRight
  <2>1. n \in Allocated(l) \ (l.dirty \cup D) /\ n \in Nodes \ (D2 \cup l2.dirty)
    BY <1>1, <1>2 DEF LayoutTyped
  <2>2. ShapeIsRight(f, l, n) /\ n \in l.done
    BY <2>1 DEF Sound, CleanAreRight
  <2>3. /\ n \in f2.hidden <=> n \in f.hidden
        /\ LanternSize(f2, n) = LanternSize(f, n)
        /\ n \in l2.done
    BY <2>1, <2>2 DEF Touches
  <2>4. Unlabelled(Enclosed(f2, n, l.shape)) = Unlabelled(Enclosed(f, n, l.shape))
    BY <2>3, LooksAlike
  <2> QED BY <1>1, <2>2, <2>3, <2>4 DEF ShapeIsRight
<1>7. OwnShapes(l2)
  BY <1>1 DEF Sound, OwnShapes
<1> QED BY <1>1, <1>3, <1>4, <1>5, <1>6, <1>7 DEF Sound

-----------------------------------------------------------------------------
(* Steps that leave the tree alone *)

LEMMA SameTree ==
  UNCHANGED treeVars =>
    /\ Proved!ClosingInv => Proved!ClosingInv'
    /\ \A f, l, D : Sound(f, l, D) => Sound(f, l, D)'
    /\ \A f, l : Rested(f, l) => Rested(f, l)'
    /\ \A f, l, D : Settled(f, l, D) => Settled(f, l, D)'
<1> SUFFICES ASSUME UNCHANGED treeVars
             PROVE  /\ Proved!ClosingInv => Proved!ClosingInv'
                    /\ \A f, l, D : Sound(f, l, D) => Sound(f, l, D)'
                    /\ \A f, l : Rested(f, l) => Rested(f, l)'
                    /\ \A f, l, D : Settled(f, l, D) => Settled(f, l, D)'
  OBVIOUS
<1>1. /\ nodeCount' = nodeCount /\ parent' = parent /\ kids' = kids /\ status' = status
      /\ Nodes' = Nodes /\ Root' = Root
  BY DEF treeVars, Nodes, Tree!Nodes
<1>2. Proved!ClosingInv => Proved!ClosingInv'
  <2>1. UNCHANGED Proved!vars
    BY DEF treeVars, Proved!vars
  <2> QED BY <2>1, BoundsAssumption, Proved!ClosingInvStep
<1>3. \A f, n : Look(f, n)' = Look(f, n)
  BY <1>1 DEF Look, LanternSize, LabelRoom, Label, IsRightMostChild, LastOf
<1>4. \A f, n, shape : Enclosed(f, n, shape)' = Enclosed(f, n, shape)
  BY <1>1, <1>3 DEF Enclosed
<1>5. \A f, l, n : ShapeIsRight(f, l, n) => ShapeIsRight(f, l, n)'
  BY <1>1, <1>4 DEF ShapeIsRight, Unlabelled, Allocated
<1>6. \A f : FlagsTyped(f) => FlagsTyped(f)'
  BY <1>1 DEF FlagsTyped, IsLeaf, MaxLantern
<1>7. \A l : LayoutTyped(l) => LayoutTyped(l)'
  BY <1>1 DEF LayoutTyped, Allocated, Looks, MaxLantern
<1>8. \A f, l, D : Sound(f, l, D) => Sound(f, l, D)'
  BY <1>1, <1>5, <1>6, <1>7
     DEF Sound, NewAreNoted, DirtyAreLinked, CleanAreRight, OwnShapes, Held, Allocated
<1>9. \A f, l : Rested(f, l) => Rested(f, l)'
  BY <1>1 DEF Rested, DirtyAreLinked, Held, Allocated
<1>10. \A f, l, D : Settled(f, l, D) => Settled(f, l, D)'
  BY <1>1, <1>5 DEF Settled, Allocated
<1> QED BY <1>2, <1>8, <1>9, <1>10

\* A command after which the layout is computed later ...
LEMMA LaterIsInvariant ==
  ASSUME ViewInv, Command, main' = "compute", fault' = FALSE, UNCHANGED stale,
         Sound(flags', layout', du')
  PROVE  ViewInv'
<1>1. /\ UNCHANGED treeVars /\ UNCHANGED <<posted, building>>
      /\ commands' \in 0 .. MaxCommands
  BY BoundsAssumption DEF Command, ViewInv
<1>2. Proved!ClosingInv' /\ Sound(flags, layout, du)'
  BY <1>1, SameTree DEF ViewInv
<1>3. AtRestIsSafe'
  BY DEF AtRestIsSafe
<1> QED BY <1>1, <1>2, <1>3 DEF ViewInv

\* ... one that computes it ...
LEMMA NowIsInvariant ==
  ASSUME ViewInv, Command, nodeCount > 0,
         NEW f, NEW l, NEW D, UpdateNow(f, l, D), Sound(f, l, D)
  PROVE  ViewInv'
<1>1. /\ UNCHANGED treeVars /\ UNCHANGED <<posted, building, main, fault>>
      /\ commands' \in 0 .. MaxCommands /\ main = "idle" /\ ~fault
      /\ flags' = f /\ layout' = Compute(f, l, D) /\ du' = {} /\ stale' = FALSE
  BY BoundsAssumption DEF Command, ViewInv, UpdateNow
<1>2. /\ Sound(flags', layout', du')
      /\ Rested(flags', layout')
      /\ Settled(flags', layout', du')
  BY <1>1, ComputeSettles DEF ViewInv
<1>3. /\ Proved!ClosingInv' /\ Sound(flags, layout, du)'
      /\ Rested(flags, layout)' /\ Settled(flags, layout, du)'
  BY <1>1, <1>2, SameTree DEF ViewInv
<1>4. AtRestIsSafe'
  BY <1>1 DEF AtRestIsSafe
<1> QED BY <1>1, <1>3, <1>4 DEF ViewInv

\* ... and one that needs none.
LEMMA NothingIsInvariant ==
  ASSUME ViewInv, Command, UNCHANGED <<layout, stale, main, fault>>,
         Sound(flags', layout', du'), Rested(flags', layout'),
         Settled(flags, layout, du) => Settled(flags', layout', du')
  PROVE  ViewInv'
<1>1. /\ UNCHANGED treeVars /\ UNCHANGED <<posted, building, stale, main, fault>>
      /\ commands' \in 0 .. MaxCommands /\ main = "idle" /\ ~fault
  BY BoundsAssumption DEF Command, ViewInv
<1>2. /\ Proved!ClosingInv' /\ Sound(flags, layout, du)' /\ Rested(flags, layout)'
      /\ Settled(flags, layout, du) => Settled(flags, layout, du)'
  BY <1>1, SameTree DEF ViewInv
<1>3. AtRestIsSafe'
  BY <1>1 DEF AtRestIsSafe
<1> QED BY <1>1, <1>2, <1>3 DEF ViewInv

\* A command that goes wrong does so where AtRestIsSafe allows for it.
LEMMA UndefinedIsInvariant ==
  ASSUME ViewInv, Command, Undefined, nodeCount = 0 \/ building \/ ~Quiet
  PROVE  ViewInv'
<1>1. /\ UNCHANGED treeVars /\ UNCHANGED <<posted, building, stale, main, flags, layout, du>>
      /\ commands' \in 0 .. MaxCommands /\ fault' = TRUE
  BY BoundsAssumption DEF Command, Undefined, ViewInv
<1>2. /\ Proved!ClosingInv' /\ Sound(flags, layout, du)'
      /\ Rested(flags, layout) => Rested(flags, layout)'
      /\ Settled(flags, layout, du) => Settled(flags, layout, du)'
  BY <1>1, SameTree DEF ViewInv
<1>3. nodeCount' = nodeCount
  BY <1>1 DEF treeVars
<1>4. AtRestIsSafe'
  BY <1>1, <1>3 DEF AtRestIsSafe, Quiet
<1> QED BY <1>1, <1>2, <1>4 DEF ViewInv

-----------------------------------------------------------------------------
(* The commands *)

\* What a command finds.
LEMMA CommandFacts ==
  ASSUME ViewInv, Command
  PROVE  /\ Links /\ Walks /\ Proved!ClosingInv
         /\ Sound(flags, layout, du) /\ Rested(flags, layout)
         /\ FlagsTyped(flags) /\ LayoutTyped(layout) /\ du \subseteq Nodes
         /\ main = "idle" /\ fault = FALSE
         /\ Quiet => Settled(flags, layout, du)
BY TreeLinks, TreeWalks DEF ViewInv, Command, Sound, Quiet

\* Changing the flags of noted nodes only, but for labels.
LEMMA FlagsTouched ==
  ASSUME ViewInv, Command, NEW f2, NEW D2 \in SUBSET Nodes, du \subseteq D2,
         FlagsTyped(f2), f2.lantern = flags.lantern,
         \A n \in Nodes \ D2 : n \in f2.hidden <=> n \in flags.hidden
  PROVE  Sound(f2, layout, D2)
<1>1. /\ Links /\ Sound(flags, layout, du) /\ LayoutTyped(layout)
  BY CommandFacts
<1>2. \A n \in Nodes \ D2 : LanternSize(f2, n) = LanternSize(flags, n)
  BY DEF LanternSize
<1>3. Touches(flags, layout, du, f2, layout, D2)
  BY <1>1, <1>2 DEF Touches, LayoutTyped
<1> QED BY <1>1, <1>3, TouchedIsSound

LEMMA ToggleHiddenKeeps == ViewInv => \A n \in Nodes : ToggleHidden(n) => ViewInv'
<1> SUFFICES ASSUME ViewInv, NEW n \in Nodes, ToggleHidden(n) PROVE ViewInv'
  OBVIOUS
<1>1. Command /\ ~IsLeaf(n)
  BY DEF ToggleHidden
<1>2. CASE building
  BY <1>1, <1>2, UndefinedIsInvariant DEF ToggleHidden
<1>3. CASE ~building
  <2> DEFINE f2 == IF n \in flags.hidden THEN Unhide(flags, {n}) ELSE Hide(flags, {n})
  <2>1. LaterUpdate(f2, {n})
    BY <1>3 DEF ToggleHidden
  <2>2. FlagsTyped(flags) /\ du \subseteq Nodes
    BY <1>1, CommandFacts
  <2>3. /\ FlagsTyped(f2) /\ f2.lantern = flags.lantern
        /\ \A m \in Nodes \ {n} : m \in f2.hidden <=> m \in flags.hidden
    BY <1>1, <2>2 DEF Hide, Unhide, FlagsTyped
  <2> HIDE DEF f2
  <2>4. Sound(f2, layout, du \cup {n})
    BY <1>1, <2>2, <2>3, FlagsTouched
  <2>5. /\ flags' = f2 /\ layout' = layout /\ du' = du \cup {n}
        /\ main' = "compute" /\ stale' = stale /\ fault' = FALSE
    BY <1>1, <2>1, CommandFacts DEF LaterUpdate
  <2>6. Sound(flags', layout', du')
    BY <2>4, <2>5
  <2> QED BY <1>1, <2>5, <2>6, LaterIsInvariant
<1> QED BY <1>2, <1>3

LEMMA HideFailedKeeps == ViewInv => \A n \in Nodes : HideFailed(n) => ViewInv'
<1> SUFFICES ASSUME ViewInv, NEW n \in Nodes, HideFailed(n) PROVE ViewInv'
  OBVIOUS
<1>1. Command
  BY DEF HideFailed
<1>2. CASE building
  BY <1>1, <1>2, UndefinedIsInvariant DEF HideFailed
<1>3. CASE ~building /\ FailedBelow(n) = {}
  <2>1. Nothing
    BY <1>3 DEF HideFailed
  <2> QED BY <1>1, <2>1, CommandFacts, NothingIsInvariant DEF Nothing
<1>4. CASE ~building /\ FailedBelow(n) # {}
  <2>1. PICK F : F = FailedBelow(n)
    OBVIOUS
  <2>2. F \subseteq {d \in Nodes : ~IsLeaf(d)}
    BY <2>1 DEF FailedBelow, Subtree, ShouldHide
  <2>3. PICK f2 : f2 = Hide(flags, F)
    OBVIOUS
  <2>4. LaterUpdate(f2, F)
    BY <1>4, <2>1, <2>3 DEF HideFailed
  <2>5. FlagsTyped(flags) /\ du \subseteq Nodes
    BY <1>1, CommandFacts
  <2>6. /\ FlagsTyped(f2) /\ f2.lantern = flags.lantern
        /\ \A m \in Nodes \ F : m \in f2.hidden <=> m \in flags.hidden
    BY <2>2, <2>3, <2>5 DEF Hide, FlagsTyped
  <2>7. Sound(f2, layout, du \cup F)
    BY <1>1, <2>2, <2>5, <2>6, FlagsTouched
  <2>8. /\ flags' = f2 /\ layout' = layout /\ du' = du \cup F
        /\ main' = "compute" /\ stale' = stale /\ fault' = FALSE
    BY <1>1, <2>4, CommandFacts DEF LaterUpdate
  <2>9. Sound(flags', layout', du')
    BY <2>7, <2>8
  <2> QED BY <1>1, <2>8, <2>9, LaterIsInvariant
<1> QED BY <1>2, <1>3, <1>4

\* Showing or hiding labels notes the nodes.
LEMMA LabelsLaterKeeps ==
  ASSUME ViewInv, Command, NEW S \in SUBSET Nodes, NEW shown,
         LaterUpdate(SetLabels(flags, S, shown), S)
  PROVE  ViewInv'
<1>1. PICK f2 : f2 = SetLabels(flags, S, shown)
  OBVIOUS
<1>2. FlagsTyped(flags) /\ du \subseteq Nodes
  BY CommandFacts
<1>3. /\ FlagsTyped(f2) /\ f2.lantern = flags.lantern /\ f2.hidden = flags.hidden
  BY <1>1, <1>2 DEF SetLabels, FlagsTyped
<1>4. Sound(f2, layout, du \cup S)
  BY <1>2, <1>3, FlagsTouched
<1>5. /\ flags' = f2 /\ layout' = layout /\ du' = du \cup S
      /\ main' = "compute" /\ stale' = stale /\ fault' = FALSE
  BY <1>1, CommandFacts DEF LaterUpdate
<1>6. Sound(flags', layout', du')
  BY <1>4, <1>5
<1> QED BY <1>5, <1>6, LaterIsInvariant

LEMMA ShowLabelsDownKeeps == ViewInv => \A n \in Nodes : ShowLabelsDown(n) => ViewInv'
<1> SUFFICES ASSUME ViewInv, NEW n \in Nodes, ShowLabelsDown(n) PROVE ViewInv'
  OBVIOUS
<1>1. Command
  BY DEF ShowLabelsDown
<1>2. CASE building
  BY <1>1, <1>2, UndefinedIsInvariant DEF ShowLabelsDown
<1>3. CASE ~building
  <2>1. Subtree(n) \in SUBSET Nodes
    BY DEF Subtree
  <2>2. LaterUpdate(SetLabels(flags, Subtree(n), n \notin flags.labelled), Subtree(n))
    BY <1>3 DEF ShowLabelsDown
  <2> QED BY <1>1, <2>1, <2>2, LabelsLaterKeeps
<1> QED BY <1>2, <1>3

LEMMA ShowLabelsUpKeeps == ViewInv => \A n \in Nodes : ShowLabelsUp(n) => ViewInv'
<1> SUFFICES ASSUME ViewInv, NEW n \in Nodes, ShowLabelsUp(n) PROVE ViewInv'
  OBVIOUS
<1>1. Command
  BY DEF ShowLabelsUp
<1>2. CASE building
  BY <1>1, <1>2, UndefinedIsInvariant DEF ShowLabelsUp
<1>3. CASE ~building /\ n # Root
  <2>1. Ancestors(n) \in SUBSET Nodes
    BY <1>1, CommandFacts DEF Walks
  <2>2. LaterUpdate(SetLabels(flags, Ancestors(n), parent[n] \notin flags.labelled), Ancestors(n))
    BY <1>3 DEF ShowLabelsUp
  <2> QED BY <1>1, <2>1, <2>2, LabelsLaterKeeps
<1>4. CASE ~building /\ n = Root
  <2>1. PICK f2 : f2 = SetLabels(flags, {Root}, Root \notin flags.labelled)
    OBVIOUS
  <2>2. /\ flags' = f2 /\ layout' = layout /\ du' = du \cup {Root}
        /\ UNCHANGED <<layout, stale, main, fault>>
    BY <1>4, <2>1 DEF ShowLabelsUp
  <2>3. FlagsTyped(flags) /\ du \subseteq Nodes /\ Rested(flags, layout)
    BY <1>1, CommandFacts
  <2>4. FlagsTyped(f2) /\ f2.lantern = flags.lantern /\ f2.hidden = flags.hidden
    BY <1>4, <2>1, <2>3 DEF SetLabels, FlagsTyped
  <2>5. Sound(f2, layout, du \cup {Root})
    BY <1>1, <1>4, <2>3, <2>4, FlagsTouched
  <2>6. Rested(f2, layout)
    BY <2>3, <2>4 DEF Rested, DirtyAreLinked
  <2>7. \A m : ShapeIsRight(flags, layout, m) => ShapeIsRight(f2, layout, m)
    <3>1. \A m : LanternSize(f2, m) = LanternSize(flags, m)
      BY <2>4 DEF LanternSize
    <3>2. \A m : Unlabelled(Enclosed(f2, m, layout.shape)) = Unlabelled(Enclosed(flags, m, layout.shape))
      BY <2>4, <3>1, LooksAlike
    <3> QED BY <2>4, <3>2 DEF ShapeIsRight
  <2>8. Settled(flags, layout, du) => Settled(f2, layout, du \cup {Root})
    BY <2>7 DEF Settled
  <2> QED BY <1>1, <2>2, <2>5, <2>6, <2>8, NothingIsInvariant
<1> QED BY <1>2, <1>3, <1>4

\* At rest the layout has an entry for every node.
LEMMA AtRestAllocated ==
  ASSUME ViewInv, Command, Quiet PROVE Allocated(layout) = Nodes
BY CommandFacts DEF Settled

LEMMA CenterNodeKeeps == ViewInv => \A n \in Nodes \cup {NoNode} : CenterNode(n) => ViewInv'
<1> SUFFICES ASSUME ViewInv, NEW n \in Nodes \cup {NoNode}, CenterNode(n) PROVE ViewInv'
  OBVIOUS
<1>1. Command
  BY DEF CenterNode
<1>2. CASE Undefined
  <2>1. nodeCount > 0 => Root \in Nodes
    BY <1>1, CommandFacts DEF Links
  <2>2. nodeCount >= 0
    BY <1>1, CommandFacts DEF Links
  <2>3. nodeCount = 0 \/ building \/ ~Quiet \/ Centered(n)
    <3> SUFFICES ASSUME nodeCount # 0, Quiet PROVE Centered(n)
      OBVIOUS
    <3>1. Allocated(layout) = Nodes
      BY <1>1, AtRestAllocated
    <3>2. nodeCount \in Nat
      BY <1>1, CommandFacts DEF Links
    <3>3. Root \in Nodes
      BY <2>1, <3>2
    <3> QED BY <3>1, <3>3 DEF Centered
  <2>4. building \/ ~Centered(n)
    <3>1. ~Nothing
      BY <1>1, <1>2, CommandFacts DEF Undefined, Nothing
    <3> QED BY <3>1 DEF CenterNode
  <2> QED BY <1>1, <1>2, <2>3, <2>4, UndefinedIsInvariant
<1>3. CASE Nothing
  BY <1>1, <1>3, CommandFacts, NothingIsInvariant DEF Nothing
<1> QED BY <1>2, <1>3 DEF CenterNode

\* Revealing nodes that were noted keeps the layout sound.
LEMMA UnhideTouched ==
  ASSUME ViewInv, Command, NEW S \in SUBSET Nodes
  PROVE  Sound(Unhide(flags, S), Undone(layout, S), du \cup S)
<1>1. /\ Links /\ Sound(flags, layout, du) /\ FlagsTyped(flags) /\ LayoutTyped(layout)
      /\ du \subseteq Nodes
  BY CommandFacts
<1>2. PICK f2, l2 : f2 = Unhide(flags, S) /\ l2 = Undone(layout, S)
  OBVIOUS
<1>3. /\ FlagsTyped(f2) /\ f2.lantern = flags.lantern /\ f2.hidden = flags.hidden \ S
  BY <1>1, <1>2 DEF Unhide, FlagsTyped
<1>4. /\ l2 = [dirty |-> layout.dirty, done |-> layout.done \ S, shape |-> layout.shape]
  BY <1>1, <1>2 DEF Undone, LayoutTyped
<1>5. \A n \in Nodes \ S : LanternSize(f2, n) = LanternSize(flags, n)
  BY <1>3 DEF LanternSize
<1>6. Touches(flags, layout, du, f2, l2, du \cup S)
  BY <1>1, <1>3, <1>4, <1>5 DEF Touches, LayoutTyped
<1> QED BY <1>1, <1>2, <1>6, TouchedIsSound

LEMMA UnhideNodeKeeps == ViewInv => \A n \in Nodes : UnhideNode(n) => ViewInv'
<1> SUFFICES ASSUME ViewInv, NEW n \in Nodes, UnhideNode(n) PROVE ViewInv'
  OBVIOUS
<1>1. Command
  BY DEF UnhideNode
<1>2. CASE building
  BY <1>1, <1>2, UndefinedIsInvariant DEF UnhideNode
<1>3. CASE ~building
  <2>1. UpdateNow(Unhide(flags, {n}), Undone(layout, {n}), du \cup {n})
    BY <1>3 DEF UnhideNode
  <2>2. Sound(Unhide(flags, {n}), Undone(layout, {n}), du \cup {n})
    BY <1>1, UnhideTouched
  <2>3. nodeCount > 0
    BY <1>1, CommandFacts DEF Links
  <2> QED BY <1>1, <2>1, <2>2, <2>3, NowIsInvariant
<1> QED BY <1>2, <1>3

LEMMA UnhideAllAtKeeps == ViewInv => \A n \in Nodes : UnhideAllAt(n) => ViewInv'
<1> SUFFICES ASSUME ViewInv, NEW n \in Nodes, UnhideAllAt(n) PROVE ViewInv'
  OBVIOUS
<1>1. Command
  BY DEF UnhideAllAt
<1>2. PICK H : H = HiddenAt(n)
  OBVIOUS
<1>3. nodeCount > 0 /\ Root \in Nodes
  BY <1>1, CommandFacts DEF Links
<1>4. H \in SUBSET Nodes
  BY <1>2 DEF HiddenAt, Subtree
<1>5. CASE Nothing
  BY <1>1, <1>5, CommandFacts, NothingIsInvariant DEF Nothing
<1>6. CASE H = {} /\ ~Centered(n) /\ Undefined
  <2>1. ~Quiet
    BY <1>1, <1>3, <1>6, AtRestAllocated DEF Centered
  <2> QED BY <1>1, <1>6, <2>1, UndefinedIsInvariant
<1>7. CASE UpdateNow(Unhide(flags, H), Undone(layout, H), du \cup H)
  <2>1. Sound(Unhide(flags, H), Undone(layout, H), du \cup H)
    BY <1>1, <1>4, UnhideTouched
  <2> QED BY <1>1, <1>3, <1>7, <2>1, NowIsInvariant
<1>8. CASE ~(H \subseteq Allocated(layout)) /\ Undefined
  <2>1. ~Quiet
    BY <1>1, <1>4, <1>8, AtRestAllocated
  <2> QED BY <1>1, <1>8, <2>1, UndefinedIsInvariant
<1> QED BY <1>2, <1>5, <1>6, <1>7, <1>8 DEF UnhideAllAt

LEMMA RevealNodeKeeps == ViewInv => \A n \in Nodes : RevealNode(n) => ViewInv'
<1> SUFFICES ASSUME ViewInv, NEW n \in Nodes, RevealNode(n) PROVE ViewInv'
  OBVIOUS
<1>1. Command
  BY DEF RevealNode
<1>2. CASE n \notin Allocated(layout)
  <2>1. ~Quiet
    BY <1>1, <1>2, AtRestAllocated
  <2>2. Undefined
    BY <1>2 DEF RevealNode
  <2> QED BY <1>1, <2>1, <2>2, UndefinedIsInvariant
<1>3. CASE n \in Allocated(layout)
  <2>1. PICK S : S = Ancestors(n)
    OBVIOUS
  <2>2. PICK f2, l2 : /\ f2 = Unhide(flags, S)
                      /\ l2 = [Undone(layout, S) EXCEPT !.dirty = @ \cup S]
    OBVIOUS
  <2>3. UpdateNow(f2, l2, du)
    BY <1>3, <2>1, <2>2 DEF RevealNode
  <2>4. /\ Links /\ Walks /\ Sound(flags, layout, du) /\ FlagsTyped(flags) /\ LayoutTyped(layout)
        /\ du \subseteq Nodes
    BY <1>1, CommandFacts
  <2>5. /\ S \subseteq Nodes /\ \A a \in S : a # Root => parent[a] \in S
    BY <2>1, <2>4 DEF Walks
  <2>6. S \subseteq Allocated(layout)
    <3> DEFINE T == {m \in Nodes : m \in Allocated(layout) => Ancestors(m) \subseteq Allocated(layout)}
    <3>1. ASSUME NEW m \in Nodes, m # Root => parent[m] \in T PROVE m \in T
      <4> SUFFICES ASSUME m \in Allocated(layout) PROVE Ancestors(m) \subseteq Allocated(layout)
        OBVIOUS
      <4>1. Ancestors(m) = {m} \cup IF m = Root THEN {} ELSE Ancestors(parent[m])
        BY <2>4 DEF Walks
      <4>2. m # Root => parent[m] \in Allocated(layout)
        BY <2>4 DEF LayoutTyped
      <4> QED BY <3>1, <4>1, <4>2
    <3> HIDE DEF T
    <3>2. Nodes \subseteq T
      BY <2>4, <3>1, DownInduction
    <3> QED BY <1>3, <2>1, <3>2 DEF T
  <2>7. /\ FlagsTyped(f2) /\ f2.lantern = flags.lantern /\ f2.hidden = flags.hidden \ S
    BY <2>2, <2>4 DEF Unhide, FlagsTyped
  <2>8. l2 = [dirty |-> layout.dirty \cup S, done |-> layout.done \ S, shape |-> layout.shape]
    <3>1. Undone(layout, S) =
            [dirty |-> layout.dirty, done |-> layout.done \ S, shape |-> layout.shape]
      BY <2>4 DEF Undone, LayoutTyped
    <3> QED BY <2>2, <3>1
  <2>9. \A m \in Nodes \ S : LanternSize(f2, m) = LanternSize(flags, m)
    BY <2>7 DEF LanternSize
  <2>10. Touches(flags, layout, du, f2, l2, du)
    BY <2>4, <2>5, <2>6, <2>7, <2>8, <2>9 DEF Touches, LayoutTyped
  <2>11. Sound(f2, l2, du)
    BY <2>4, <2>10, TouchedIsSound
  <2>12. nodeCount > 0
    BY <2>4 DEF Links
  <2> QED BY <1>1, <2>3, <2>11, <2>12, NowIsInvariant
<1> QED BY <1>2, <1>3

\* The size of a lantern is at most that of the largest.
LEMMA LanternRange ==
  \A c \in Nat, limit \in Nat : c > 0 /\ c <= limit => (c * MaxLantern) \div limit \in 0 .. MaxLantern
<1> SUFFICES ASSUME NEW c \in Nat, NEW limit \in Nat, c > 0, c <= limit
             PROVE  (c * MaxLantern) \div limit \in 0 .. MaxLantern
  OBVIOUS
<1>1. MaxLantern = 127 /\ limit > 0 /\ c * 127 \in Nat /\ c * 127 <= limit * 127
  BY DEF MaxLantern
<1>2. PICK q : q = (c * 127) \div limit
  OBVIOUS
<1>3. q \in Int /\ limit * q <= c * 127 /\ c * 127 < limit * q + limit
  BY <1>1, <1>2
<1>4. limit * q <= limit * 127 /\ 0 < limit * q + limit
  BY <1>1, <1>3
<1>5. q <= 127 /\ q >= 0
  BY <1>1, <1>3, <1>4
<1> QED BY <1>1, <1>2, <1>3, <1>5

LEMMA SubtreeSizes ==
  Links /\ Walks => \A n \in Nodes : /\ IsFiniteSet(Subtree(n))
                                     /\ Cardinality(Subtree(n)) \in Nat \ {0}
<1> SUFFICES ASSUME Links, Walks, NEW n \in Nodes
             PROVE  IsFiniteSet(Subtree(n)) /\ Cardinality(Subtree(n)) \in Nat \ {0}
  OBVIOUS
<1>1. n \in Subtree(n) /\ Subtree(n) \subseteq Nodes
  BY DEF Walks, Subtree
<1>2. IsFiniteSet(Nodes)
  BY FS_Interval DEF Links
<1>3. IsFiniteSet(Subtree(n))
  BY <1>1, <1>2, FS_Subset
<1>4. Cardinality(Subtree(n)) \in Nat /\ Cardinality(Subtree(n)) # 0
  BY <1>1, <1>3, FS_CardinalityType, FS_EmptySet
<1> QED BY <1>3, <1>4

\* What unhideAll leaves for the lanterns: nothing hidden, and a layout that is
\* sound for the flags.
LEMMA AllShown ==
  ASSUME ViewInv, Command, nodeCount > 0,
         NEW shown, shown = Unhide(flags, flags.hidden),
         NEW first, first = (IF flags.hidden = {} THEN layout
                             ELSE Compute(shown, Undone(layout, flags.hidden), du \cup flags.hidden)),
         NEW rest, rest = IF flags.hidden = {} THEN du ELSE {}
  PROVE  /\ Sound(shown, first, rest)
         /\ shown.hidden = {}
         /\ flags.hidden # {} => Allocated(first) = Nodes
<1>1. FlagsTyped(flags) /\ du \subseteq Nodes /\ Proved!ClosingInv
  BY CommandFacts
<1>2. flags.hidden \in SUBSET Nodes
  BY <1>1 DEF FlagsTyped
<1>3. shown.hidden = {} /\ shown.lantern = flags.lantern /\ FlagsTyped(shown)
  BY <1>1 DEF Unhide, FlagsTyped
<1>4. CASE flags.hidden = {}
  <2>1. Sound(shown, layout, du)
    BY <1>1, <1>3, <1>4, FlagsTouched
  <2> QED BY <1>3, <1>4, <2>1
<1>5. CASE flags.hidden # {}
  <2>1. Sound(shown, Undone(layout, flags.hidden), du \cup flags.hidden)
    BY <1>2, UnhideTouched
  <2>2. Sound(shown, first, {}) /\ Settled(shown, first, {})
    BY <1>1, <1>5, <2>1, ComputeSettles
  <2> QED BY <1>3, <1>5, <2>2 DEF Settled
<1> QED BY <1>4, <1>5

LEMMA HideBySizeKeeps == ViewInv => \A limit \in Limits : HideBySize(limit) => ViewInv'
<1> SUFFICES ASSUME ViewInv, NEW limit \in Limits, HideBySize(limit) PROVE ViewInv'
  OBVIOUS
<1>1. Command /\ ~building /\ limit \in Nat
  BY BoundsAssumption DEF HideBySize
<1>2. PICK shown : shown = Unhide(flags, flags.hidden)
  OBVIOUS
<1>3. PICK first : first = IF flags.hidden = {} THEN layout
               ELSE Compute(shown, Undone(layout, flags.hidden), du \cup flags.hidden)
  OBVIOUS
<1>4. PICK rest : rest = IF flags.hidden = {} THEN du ELSE {}
  OBVIOUS
<1>5. PICK L : L = LanternNodes(limit)
  OBVIOUS
<1>6. PICK f3 : f3 = [Hide(shown, L) EXCEPT
                  !.lantern = [n \in L |-> (Cardinality(Subtree(n)) * MaxLantern) \div limit]]
  OBVIOUS
<1>7. IF nodeCount > 0 /\ flags.hidden \subseteq Allocated(layout) /\ L \subseteq Allocated(first)
      THEN UpdateNow(f3, Undone(first, L), rest \cup L)
      ELSE Undefined
  BY <1>2, <1>3, <1>4, <1>5, <1>6 DEF HideBySize
<1>8. /\ Links /\ Walks /\ FlagsTyped(flags) /\ du \subseteq Nodes
  BY <1>1, CommandFacts
<1>9. L \subseteq {n \in Nodes : ~IsLeaf(n)} /\ \A n \in L : Cardinality(Subtree(n)) <= limit
  BY <1>5 DEF LanternNodes
<1>10. CASE ~(nodeCount > 0 /\ flags.hidden \subseteq Allocated(layout) /\ L \subseteq Allocated(first))
  <2>1. Undefined
    BY <1>7, <1>10
  <2>2. nodeCount = 0 \/ ~Quiet
    <3> SUFFICES ASSUME nodeCount # 0, Quiet PROVE FALSE
      OBVIOUS
    <3>1. nodeCount > 0
      BY <1>8 DEF Links
    <3>2. Allocated(layout) = Nodes
      BY <1>1, AtRestAllocated
    <3>3. Allocated(first) = Nodes
      <4>1. CASE flags.hidden = {}
        BY <1>3, <3>2, <4>1
      <4>2. CASE flags.hidden # {}
        BY <1>1, <1>2, <1>3, <1>4, <3>1, <4>2, AllShown
      <4> QED BY <4>1, <4>2
    <3> QED BY <1>8, <1>9, <1>10, <3>1, <3>2, <3>3 DEF FlagsTyped
  <2> QED BY <1>1, <2>1, <2>2, UndefinedIsInvariant
<1>11. CASE nodeCount > 0 /\ flags.hidden \subseteq Allocated(layout) /\ L \subseteq Allocated(first)
  <2>1. UpdateNow(f3, Undone(first, L), rest \cup L)
    BY <1>7, <1>11
  <2>2. Sound(shown, first, rest) /\ shown.hidden = {}
    BY <1>1, <1>2, <1>3, <1>4, <1>11, AllShown
  <2>3. FlagsTyped(shown) /\ LayoutTyped(first) /\ rest \subseteq Nodes
    BY <2>2 DEF Sound
  <2>4. PICK lan : lan = [n \in L |-> (Cardinality(Subtree(n)) * MaxLantern) \div limit]
    OBVIOUS
  <2>5. DOMAIN lan = L /\ \A n \in L : lan[n] \in 0 .. MaxLantern
    <3>1. ASSUME NEW n \in L
          PROVE  (Cardinality(Subtree(n)) * MaxLantern) \div limit \in 0 .. MaxLantern
      <4>1. Cardinality(Subtree(n)) \in Nat /\ Cardinality(Subtree(n)) # 0
        BY <1>8, <1>9, SubtreeSizes
      <4>2. Cardinality(Subtree(n)) <= limit
        BY <1>9
      <4>3. PICK c : c = Cardinality(Subtree(n))
        OBVIOUS
      <4>4. c \in Nat /\ c > 0 /\ c <= limit
        BY <4>1, <4>2, <4>3
      <4> QED BY <1>1, <4>3, <4>4, LanternRange
    <3> QED BY <2>4, <3>1
  <2>6. f3 = [hidden |-> L, labelled |-> shown.labelled, lantern |-> lan]
    <3>1. Hide(shown, L) = [hidden |-> L, labelled |-> shown.labelled, lantern |-> shown.lantern]
      BY <2>2, <2>3 DEF Hide, FlagsTyped
    <3> QED BY <1>6, <2>4, <3>1
  <2>7. FlagsTyped(f3)
    BY <1>9, <2>3, <2>5, <2>6 DEF FlagsTyped
  <2>8. PICK l3 : l3 = Undone(first, L)
    OBVIOUS
  <2>9. l3 = [dirty |-> first.dirty, done |-> first.done \ L, shape |-> first.shape]
    BY <2>3, <2>8 DEF Undone, LayoutTyped
  <2>10. \A n \in Nodes \ L : LanternSize(f3, n) = LanternSize(shown, n)
    BY <2>2, <2>6 DEF LanternSize
  <2>11. Touches(shown, first, rest, f3, l3, rest \cup L)
    BY <1>9, <2>2, <2>3, <2>6, <2>7, <2>9, <2>10 DEF Touches, LayoutTyped
  <2>12. Sound(f3, l3, rest \cup L)
    BY <1>8, <2>2, <2>11, TouchedIsSound
  <2> QED BY <1>1, <1>11, <2>1, <2>8, <2>12, NowIsInvariant
<1> QED BY <1>10, <1>11

LEMMA UndoLanternsKeeps == ViewInv /\ UndoLanterns => ViewInv'
<1> SUFFICES ASSUME ViewInv, UndoLanterns PROVE ViewInv'
  OBVIOUS
<1>1. Command
  BY DEF UndoLanterns
<1>2. /\ Links /\ FlagsTyped(flags) /\ LayoutTyped(layout) /\ du \subseteq Nodes
      /\ Sound(flags, layout, du) /\ Rested(flags, layout) /\ fault = FALSE
  BY <1>1, CommandFacts
<1>3. CASE building \/ ~(flags.hidden \subseteq Allocated(layout))
  <2>1. building \/ ~Quiet
    BY <1>1, <1>2, <1>3, AtRestAllocated DEF FlagsTyped
  <2>2. Undefined
    BY <1>3 DEF UndoLanterns
  <2> QED BY <1>1, <2>1, <2>2, UndefinedIsInvariant
<1>4. CASE ~building /\ flags.hidden \subseteq Allocated(layout) /\ flags.hidden = {}
  <2>1. PICK f2 : f2 = [flags EXCEPT !.lantern = <<>>]
    OBVIOUS
  <2>2. flags' = f2 /\ UNCHANGED <<layout, du, stale, main, fault>>
    BY <1>4, <2>1 DEF UndoLanterns
  <2>3. f2 = [hidden |-> {}, labelled |-> flags.labelled, lantern |-> <<>>]
    BY <1>2, <1>4, <2>1 DEF FlagsTyped
  <2>4. FlagsTyped(f2)
    BY <1>2, <2>3 DEF FlagsTyped
  <2>5. \A n : LanternSize(f2, n) = LanternSize(flags, n)
    BY <1>4, <2>3 DEF LanternSize
  <2>6. Touches(flags, layout, du, f2, layout, du)
    BY <1>2, <1>4, <2>3, <2>4, <2>5 DEF Touches, LayoutTyped
  <2>7. Sound(f2, layout, du)
    BY <1>2, <2>6, TouchedIsSound
  <2>8. Rested(f2, layout)
    BY <1>2, <1>4, <2>3 DEF Rested, DirtyAreLinked
  <2>9. \A m : ShapeIsRight(flags, layout, m) => ShapeIsRight(f2, layout, m)
    <3>1. f2.hidden = flags.hidden
      BY <1>4, <2>3
    <3>2. \A m : Unlabelled(Enclosed(f2, m, layout.shape)) = Unlabelled(Enclosed(flags, m, layout.shape))
      BY <2>5, <3>1, LooksAlike
    <3> QED BY <3>1, <3>2 DEF ShapeIsRight
  <2>10. Settled(flags, layout, du) => Settled(f2, layout, du)
    BY <2>9 DEF Settled
  <2> QED BY <1>1, <2>2, <2>7, <2>8, <2>10, NothingIsInvariant
<1>5. CASE ~building /\ flags.hidden \subseteq Allocated(layout) /\ flags.hidden # {}
  <2>1. PICK H : H = flags.hidden
    OBVIOUS
  <2>2. PICK f2, l2 : /\ f2 = [Unhide(flags, H) EXCEPT !.lantern = <<>>]
                      /\ l2 = Undone(layout, H)
    OBVIOUS
  <2>3. /\ flags' = f2 /\ layout' = l2 /\ du' = du \cup H
        /\ main' = "compute" /\ stale' = stale /\ fault' = FALSE
    BY <1>2, <1>5, <2>1, <2>2 DEF UndoLanterns
  <2>4. f2 = [hidden |-> {}, labelled |-> flags.labelled, lantern |-> <<>>]
    <3>1. Unhide(flags, H) = [hidden |-> {}, labelled |-> flags.labelled, lantern |-> flags.lantern]
      BY <1>2, <2>1 DEF Unhide, FlagsTyped
    <3>2. PICK u : u = Unhide(flags, H)
      OBVIOUS
    <3>3. f2 = [u EXCEPT !.lantern = <<>>]
      BY <2>2, <3>2
    <3>4. u = [hidden |-> {}, labelled |-> flags.labelled, lantern |-> flags.lantern]
      BY <3>1, <3>2
    <3> QED BY <3>3, <3>4
  <2>5. FlagsTyped(f2) /\ H \subseteq Nodes
    BY <1>2, <2>1, <2>4 DEF FlagsTyped
  <2>6. l2 = [dirty |-> layout.dirty, done |-> layout.done \ H, shape |-> layout.shape]
    BY <1>2, <2>2 DEF Undone, LayoutTyped
  <2>7. \A n \in Nodes \ H : LanternSize(f2, n) = LanternSize(flags, n)
    BY <2>1, <2>4 DEF LanternSize
  <2>8. Touches(flags, layout, du, f2, l2, du \cup H)
    BY <1>2, <2>1, <2>4, <2>5, <2>6, <2>7 DEF Touches, LayoutTyped
  <2>9. Sound(f2, l2, du \cup H)
    BY <1>2, <2>8, TouchedIsSound
  <2>10. Sound(flags', layout', du')
    BY <2>3, <2>9
  <2> QED BY <1>1, <2>3, <2>10, LaterIsInvariant
<1> QED BY <1>3, <1>4, <1>5

-----------------------------------------------------------------------------
(* The builder's steps *)

\* The step hangs new nodes below nid, if any.
GrowsBelow(nid) ==
  /\ Nodes \subseteq Nodes'
  /\ \A n \in Nodes : parent'[n] = parent[n]
  /\ \A n \in Nodes' \ Nodes : parent'[n] = nid
  /\ \A n \in Nodes \ {nid} : kids'[n] = kids[n]
  /\ Nodes' # Nodes => kids'[nid] # kids[nid]
  /\ kids[nid] # <<>> => kids'[nid] # <<>>

LEMMA HangsGrows ==
  ASSUME Proved!TypeOK, NEW nid \in Nodes, NEW k \in Nat, Proved!Hangs(nid, k),
         kids'[nid] \in Seq(Nodes')
  PROVE  GrowsBelow(nid)
<1>1. /\ nodeCount' = nodeCount + k /\ parent' = Proved!AddEntries(parent, k, nid)
      /\ \A n \in Nodes \ {nid} : kids'[n] = kids[n]
      /\ Len(kids'[nid]) = Len(kids[nid]) + k
  BY SameOperators DEF Proved!Hangs
<1>2. /\ nid \in Proved!Nodes
      /\ Nodes' = 0 .. nodeCount + k - 1
      /\ \A n \in Nodes : parent'[n] = parent[n]
      /\ \A n \in Nodes' \ Nodes : parent'[n] = nid
      /\ Nodes \subseteq Nodes'
  <2>1. nid \in Proved!Nodes
    BY SameOperators
  <2>2. /\ Proved!Nodes' = 0 .. nodeCount + k - 1
        /\ \A n \in Proved!Nodes : parent'[n] = parent[n]
        /\ \A n \in Proved!Nodes' \ Proved!Nodes : parent'[n] = nid
    BY <1>1, <2>1, BoundsAssumption, Proved!Grows
  <2>3. nodeCount \in Nat
    BY BoundsAssumption DEF Proved!TypeOK
  <2>4. Nodes' = Proved!Nodes' /\ Nodes = Proved!Nodes
    BY DEF Nodes, Tree!Nodes, Proved!Nodes
  <2>5. Nodes \subseteq Nodes'
    BY <1>1, <2>3 DEF Nodes, Tree!Nodes
  <2> QED BY <2>1, <2>2, <2>4, <2>5
<1>3. nodeCount \in Nat /\ kids[nid] \in Seq(Nodes) /\ Len(kids[nid]) \in Nat
  BY SameOperators, BoundsAssumption DEF Proved!TypeOK
<1>4. CASE k = 0
  <2>1. Nodes' = Nodes
    BY <1>1, <1>2, <1>3, <1>4 DEF Nodes, Tree!Nodes
  <2>2. kids[nid] # <<>> => kids'[nid] # <<>>
    BY <1>1, <1>3, <1>4
  <2> QED BY <1>1, <1>2, <2>1, <2>2 DEF GrowsBelow
<1>5. CASE k # 0
  <2>1. Len(kids'[nid]) # Len(kids[nid]) /\ Len(kids'[nid]) # 0
    BY <1>1, <1>3, <1>5
  <2> QED BY <1>1, <1>2, <2>1 DEF GrowsBelow
<1> QED BY <1>4, <1>5

LEMMA BuildGrows ==
  Proved!ClosingInv /\ Build =>
    /\ Proved!ClosingInv'
    /\ Nodes = {} \/ \E nid \in Nodes : GrowsBelow(nid)
<1> SUFFICES ASSUME Proved!ClosingInv, Build
             PROVE  /\ Proved!ClosingInv'
                    /\ Nodes = {} \/ \E nid \in Nodes : GrowsBelow(nid)
  OBVIOUS
<1>1. Proved!Next
  BY BuildIsNext
<1>2. Proved!ClosingInv'
  BY <1>1, BoundsAssumption, Proved!ClosingInvStep
<1>3. Proved!TypeOK /\ Proved!DummyRoot /\ Links /\ Links'
  <2>1. Proved!TypeOK /\ Proved!DummyRoot
    BY DEF Proved!ClosingInv, Proved!TreeInv
  <2>2. Links'
    BY <1>2, TreeLinks, PTL
  <2> QED BY <2>1, <2>2, TreeLinks
<1>4. ASSUME NEW nid \in Nodes, NEW k \in Nat, Proved!Hangs(nid, k) PROVE GrowsBelow(nid)
  <2>1. Nodes \subseteq Nodes'
    <3>1. nodeCount' = nodeCount + k /\ nodeCount \in Nat
      BY <1>3, <1>4, BoundsAssumption DEF Proved!Hangs, Proved!TypeOK
    <3> QED BY <3>1 DEF Nodes, Tree!Nodes
  <2>2. kids'[nid] \in Seq(Nodes')
    BY <1>3, <2>1 DEF Links
  <2> QED BY <1>3, <1>4, <2>2, HangsGrows
<1>5. ASSUME NEW k \in 0 .. MaxKids, Proved!CreateRoot(k) PROVE Nodes = {}
  <2>1. nodeCount = 0
    BY <1>5 DEF Proved!CreateRoot
  <2> QED BY <1>3, <2>1 DEF Links
<1>6. ASSUME NEW pid \in Proved!Nodes, NEW alt \in 0 .. nodeCount, NEW r \in Proved!Reports,
             Proved!PromoteNode(pid, alt, r)
      PROVE  \E nid \in Nodes : GrowsBelow(nid)
  <2>1. PICK nid \in Proved!Nodes, k \in Nat, st \in Proved!NodeStatus \ {"UNDETERMINED"} :
          Proved!Promote(nid, k, st)
    BY <1>3, <1>6, BoundsAssumption, Proved!PromotedNode
  <2>2. Proved!Hangs(nid, k)
    BY <1>3, <2>1, BoundsAssumption, Proved!PromoteHangs
  <2> QED BY <1>4, <2>1, <2>2, SameOperators
<1>7. ASSUME restarts, Proved!AddExtraChild(Proved!Root)
      PROVE  \E nid \in Nodes : GrowsBelow(nid)
  <2>1. Proved!Root \in Proved!Nodes
    BY <1>3, <1>7 DEF Proved!DummyRoot
  <2>2. Proved!Hangs(Proved!Root, 1)
    BY <1>3, <1>7, <2>1, BoundsAssumption, Proved!AddExtraChildHangs
  <2> QED BY <1>4, <2>1, <2>2, SameOperators
<1> QED BY <1>1, <1>2, <1>5, <1>6, <1>7 DEF Proved!Next

\* failedSubtreeClosed is emitted for nodes with children only.
LEMMA ClosedAreInner ==
  Proved!ClosingInv => FailedClosed \subseteq {m \in Nodes : ~IsLeaf(m)}
<1> SUFFICES ASSUME Proved!ClosingInv, NEW m \in FailedClosed PROVE m \in Nodes /\ ~IsLeaf(m)
  OBVIOUS
<1>1. PICK n \in Nodes : m \in Tree!ClosedBy(n, status') \ {n}
  BY DEF FailedClosed
<1> DEFINE S == {n} \cup {x \in Nodes : ~IsLeaf(x)}
<1>2. S \in SUBSET Tree!Nodes /\ n \in S
  BY DEF Nodes
<1>3. \A x \in S : parent[x] # Tree!NoNode /\ Tree!AllClosed(parent[x], S, status') => parent[x] \in S
  <2> SUFFICES ASSUME NEW x \in S, parent[x] # Tree!NoNode PROVE parent[x] \in S
    OBVIOUS
  <2>1. CASE x = Root
    <3>1. Proved!TreeShape /\ x \in Nodes
      BY DEF Proved!ClosingInv, Proved!TreeInv
    <3>2. parent[x] = Tree!NoNode
      BY <2>1, <3>1, SameOperators DEF Proved!TreeShape
    <3> QED BY <3>2
  <2>2. CASE x # Root
    <3>1. Links
      BY TreeLinks
    <3>2. parent[x] \in Nodes /\ \E i \in DOMAIN kids[parent[x]] : kids[parent[x]][i] = x
      BY <2>2, <3>1 DEF Links
    <3>3. kids[parent[x]] # <<>>
      BY <3>2
    <3> QED BY <3>2, <3>3 DEF IsLeaf
  <2> QED BY <2>1, <2>2
<1>4. m \in S /\ m \in Nodes
  <2> HIDE DEF S
  <2> QED BY <1>1, <1>2, <1>3 DEF Tree!ClosedBy, Nodes
<1> QED BY <1>1, <1>4

\* A layout that is sound stays so while the tree grows, with what the slots note.
LEMMA GrowthIsSound ==
  ASSUME Links, Links', NEW nid \in Nodes, GrowsBelow(nid),
         NEW f, NEW f2, NEW l, NEW D, NEW C \in SUBSET {m \in Nodes : ~IsLeaf(m)},
         f2 = [f EXCEPT !.hidden = @ \cup C], Sound(f, l, D),
         NEW D2, D2 = D \cup Restructured \cup C
  PROVE  /\ Sound(f2, l, D2)'
         /\ Rested(f, l) => Rested(f2, l)'
<1>1. /\ FlagsTyped(f) /\ LayoutTyped(l) /\ D \subseteq Nodes
      /\ Allocated(l) \subseteq Nodes /\ l.dirty \subseteq Allocated(l) /\ l.done \subseteq Allocated(l)
      /\ NewAreNoted(l, D) /\ DirtyAreLinked(f, l, D) /\ CleanAreRight(f, l, D) /\ OwnShapes(l)
  BY DEF Sound, LayoutTyped
<1>2. /\ Nodes \subseteq Nodes' /\ Root' = Root /\ Allocated(l)' = Allocated(l)
      /\ \A n \in Nodes : parent'[n] = parent[n]
      /\ \A n \in Nodes' \ Nodes : parent'[n] = nid
      /\ Nodes' # Nodes => nid \in Restructured
  BY DEF GrowsBelow, Restructured, Root, Tree!Root, Allocated
<1>3. /\ f2.hidden = f.hidden \cup C /\ f2.lantern = f.lantern /\ f2.labelled = f.labelled
      /\ f2 = [hidden |-> f2.hidden, labelled |-> f2.labelled, lantern |-> f2.lantern]
  <2>1. f = [hidden |-> f.hidden, labelled |-> f.labelled, lantern |-> f.lantern]
    BY <1>1 DEF FlagsTyped
  <2> QED BY <2>1
<1>4. D2 = D \cup Restructured \cup C
  OBVIOUS
<1>5. D2 \subseteq Nodes'
  BY <1>1, <1>2, <1>4 DEF Restructured
<1>6. \A n \in Nodes : ~IsLeaf(n) => ~IsLeaf(n)'
  BY DEF GrowsBelow, IsLeaf
<1>7. FlagsTyped(f2)'
  <2>1. f2.hidden \subseteq {n \in Nodes' : ~IsLeaf(n)'}
    BY <1>1, <1>2, <1>3, <1>6 DEF FlagsTyped
  <2>2. /\ f2.labelled \subseteq Nodes' /\ DOMAIN f2.lantern \subseteq Nodes'
        /\ \A n \in DOMAIN f2.lantern : f2.lantern[n] \in 0 .. MaxLantern
    BY <1>1, <1>2, <1>3 DEF FlagsTyped
  <2> QED BY <1>3, <2>1, <2>2 DEF FlagsTyped, MaxLantern
<1>8. LayoutTyped(l)'
  <2>1. Looks \subseteq Looks'
    BY <1>2 DEF Looks, MaxLantern
  <2>2. \A n \in Allocated(l) : l.shape[n] \subseteq Looks'
    BY <1>1, <2>1 DEF LayoutTyped
  <2>3. \A n \in Allocated(l) \ {Root} : parent'[n] \in Allocated(l)
    BY <1>1, <1>2 DEF LayoutTyped
  <2> QED BY <1>1, <1>2, <2>2, <2>3 DEF LayoutTyped
<1>9. NewAreNoted(l, D2)'
  <2> SUFFICES ASSUME NEW n \in Nodes' \ Allocated(l)
               PROVE  n = Root \/ parent'[n] \in D2 \/ parent'[n] \notin Allocated(l)
    BY <1>2 DEF NewAreNoted
  <2>1. CASE n \in Nodes
    BY <1>1, <1>2, <1>4, <2>1 DEF NewAreNoted
  <2>2. CASE n \notin Nodes
    BY <1>2, <1>4, <2>2
  <2> QED BY <2>1, <2>2
<1>10. DirtyAreLinked(f2, l, D2)'
  BY <1>1, <1>2, <1>3, <1>4 DEF DirtyAreLinked
<1>11. CleanAreRight(f2, l, D2)'
  <2> SUFFICES ASSUME NEW n \in Allocated(l) \ (l.dirty \cup D2)
               PROVE  ShapeIsRight(f2, l, n)' /\ n \in l.done
    BY <1>2 DEF CleanAreRight
  <2>1. ShapeIsRight(f, l, n) /\ n \in l.done
    BY <1>1, <1>4 DEF CleanAreRight
  <2>2. kids'[n] = kids[n] /\ (n \in f2.hidden <=> n \in f.hidden)
    BY <1>1, <1>3, <1>4 DEF Restructured
  <2>3. Unlabelled(Enclosed(f2, n, l.shape))' = Unlabelled(Enclosed(f, n, l.shape))
    <3>1. PICK X : X = IF n \in f.hidden THEN {} ELSE UNION {l.shape[kids[n][i]] : i \in DOMAIN kids[n]}
      OBVIOUS
    <3>2. PICK a, b : a = Look(f, n) /\ b = Look(f2, n)'
      OBVIOUS
    <3>3. Enclosed(f2, n, l.shape)' = {b} \cup X /\ Enclosed(f, n, l.shape) = {a} \cup X
      BY <2>2, <3>1, <3>2 DEF Enclosed
    <3>4. [b EXCEPT !.label = "none"] = [a EXCEPT !.label = "none"]
      BY <1>3, <2>2, <3>2 DEF Look, LanternSize
    <3>5. ASSUME NEW y
          PROVE  Unlabelled({y} \cup X) = {[y EXCEPT !.label = "none"]} \cup Unlabelled(X)
      BY DEF Unlabelled
    <3>6. /\ Unlabelled({b} \cup X) = {[b EXCEPT !.label = "none"]} \cup Unlabelled(X)
          /\ Unlabelled({a} \cup X) = {[a EXCEPT !.label = "none"]} \cup Unlabelled(X)
      BY <3>5, Zenon
    <3>7. Unlabelled({b} \cup X) = Unlabelled({a} \cup X)
      BY <3>4, <3>6, Zenon
    <3>8. Unlabelled(Enclosed(f2, n, l.shape))' = Unlabelled(Enclosed(f2, n, l.shape)')
      BY DEF Unlabelled
    <3> QED BY <3>3, <3>7, <3>8, Zenon
  <2>4. Unlabelled(l.shape[n])' = Unlabelled(l.shape[n])
    BY DEF Unlabelled
  <2> QED BY <1>2, <2>1, <2>2, <2>3, <2>4 DEF ShapeIsRight
<1>12. OwnShapes(l)'
  BY <1>1 DEF OwnShapes, Held
<1>13. Sound(f2, l, D2)'
  BY <1>5, <1>7, <1>8, <1>9, <1>10, <1>11, <1>12 DEF Sound
<1>14. Rested(f, l) => Rested(f2, l)'
  <2> SUFFICES ASSUME Rested(f, l) PROVE Rested(f2, l)'
    OBVIOUS
  <2>1. /\ Root \notin l.dirty
        /\ \A n \in l.dirty \ {Root} : n \in Nodes /\ parent[n] \in l.dirty \cup f.hidden
    BY <1>1 DEF Rested, DirtyAreLinked
  <2>2. DirtyAreLinked(f2, l, {})'
    BY <1>2, <1>3, <2>1 DEF DirtyAreLinked
  <2>3. ASSUME NEW n \in l.done \ {Root}, parent'[n] \in Allocated(l) \ (l.dirty \cup f2.hidden)
        PROVE  Held(l.shape[n]) \subseteq Held(l.shape[parent'[n]])
    <3>1. n \in Nodes /\ parent'[n] = parent[n]
      BY <1>1, <1>2
    <3> QED BY <1>3, <2>3, <3>1 DEF Rested
  <2> QED BY <1>2, <2>1, <2>2, <2>3 DEF Rested, Held
<1> QED BY <1>13, <1>14

\* With no node there is nothing to be wrong.
LEMMA StartIsSound ==
  ASSUME Nodes = {}, NEW f, NEW l, NEW D, Sound(f, l, D)
  PROVE  Sound(f, l, D)' /\ Rested(f, l)'
<1>1. /\ FlagsTyped(f) /\ LayoutTyped(l) /\ D = {}
      /\ f.hidden = {} /\ f.labelled = {} /\ DOMAIN f.lantern = {}
      /\ Allocated(l) = {} /\ l.dirty = {} /\ l.done = {}
  BY DEF Sound, FlagsTyped, LayoutTyped
<1>2. Allocated(l)' = {}
  BY <1>1 DEF Allocated
<1>3. FlagsTyped(f)' /\ LayoutTyped(l)'
  BY <1>1, <1>2 DEF FlagsTyped, LayoutTyped
<1>4. Sound(f, l, D)'
  BY <1>1, <1>2, <1>3 DEF Sound, NewAreNoted, DirtyAreLinked, CleanAreRight, OwnShapes
<1>5. Rested(f, l)'
  BY <1>1, <1>2 DEF Rested, DirtyAreLinked
<1> QED BY <1>4, <1>5

LEMMA ModifyKeeps == ViewInv /\ Modify => ViewInv'
<1> SUFFICES ASSUME ViewInv, Modify PROVE ViewInv'
  OBVIOUS
<1>1. /\ Proved!ClosingInv /\ Links /\ Sound(flags, layout, du)
      /\ main # "compute" => Rested(flags, layout)
      /\ stale \in BOOLEAN /\ main \in {"idle", "compute", "clear"}
      /\ commands \in 0 .. MaxCommands
  BY TreeLinks DEF ViewInv
<1>2. /\ Build
      /\ du' = du \cup Restructured \cup FailedClosed
      /\ flags' = [flags EXCEPT !.hidden = @ \cup FailedClosed]
      /\ stale' = (stale \/ FailedClosed # {})
      /\ posted' = TRUE /\ building' = FALSE /\ fault = FALSE
      /\ UNCHANGED <<layout, main, commands, fault>>
  BY DEF Modify, Signal, ViewInv
<1>3. Proved!ClosingInv' /\ Links'
  <2>1. Proved!ClosingInv'
    BY <1>1, <1>2, BuildGrows
  <2>2. Links'
    BY <2>1, TreeLinks, PTL
  <2> QED BY <2>1, <2>2
<1>4. PICK f2, l, D2 : f2 = flags' /\ l = layout /\ D2 = du'
  OBVIOUS
<1>5. Sound(f2, l, D2)' /\ (main # "compute" => Rested(f2, l)')
  <2>1. CASE Nodes = {}
    <3>1. PICK f, D : f = flags /\ D = du
      OBVIOUS
    <3>2. Sound(f, l, D)
      BY <1>1, <1>4, <3>1
    <3>3. FailedClosed = {} /\ Restructured = {}
      BY <2>1 DEF FailedClosed, Restructured
    <3>4. f2 = f /\ D2 = D
      <4>1. f = [hidden |-> f.hidden, labelled |-> f.labelled, lantern |-> f.lantern]
        BY <3>2 DEF Sound, FlagsTyped
      <4> QED BY <1>2, <1>4, <3>1, <3>3, <4>1
    <3>5. Sound(f, l, D)' /\ Rested(f, l)'
      BY <2>1, <3>2, StartIsSound
    <3> QED BY <3>4, <3>5
  <2>2. ASSUME NEW nid \in Nodes, GrowsBelow(nid)
        PROVE  Sound(f2, l, D2)' /\ (main # "compute" => Rested(f2, l)')
    <3>1. PICK f, D, C : f = flags /\ D = du /\ C = FailedClosed
      OBVIOUS
    <3>2. Sound(f, l, D) /\ (main # "compute" => Rested(f, l))
      BY <1>1, <1>4, <3>1
    <3>3. C \in SUBSET {m \in Nodes : ~IsLeaf(m)}
      BY <1>1, <3>1, ClosedAreInner
    <3>4. f2 = [f EXCEPT !.hidden = @ \cup C] /\ D2 = D \cup Restructured \cup C
      BY <1>2, <1>4, <3>1
    <3>5. Sound(f2, l, D2)' /\ (Rested(f, l) => Rested(f2, l)')
      BY <1>1, <1>3, <2>2, <3>2, <3>3, <3>4, GrowthIsSound
    <3> QED BY <3>2, <3>5
  <2> QED BY <1>1, <1>2, <2>1, <2>2, BuildGrows
<1>6. Sound(flags, layout, du)' /\ (main' # "compute" => Rested(flags, layout)')
  BY <1>2, <1>4, <1>5
<1>7. AtRestIsSafe'
  BY <1>2 DEF AtRestIsSafe
<1> QED BY <1>1, <1>2, <1>3, <1>6, <1>7 DEF ViewInv

-----------------------------------------------------------------------------
(* The steps of the layout *)

LEMMA ComputeKeeps == ViewInv /\ ComputeLayout => ViewInv'
<1> SUFFICES ASSUME ViewInv, ComputeLayout PROVE ViewInv'
  OBVIOUS
<1>1. /\ Proved!ClosingInv /\ Links /\ Sound(flags, layout, du)
      /\ stale \in BOOLEAN /\ posted \in BOOLEAN /\ building \in BOOLEAN
      /\ commands \in 0 .. MaxCommands
  BY TreeLinks DEF ViewInv
<1>2. /\ UNCHANGED treeVars /\ UNCHANGED <<flags, stale, posted, building, commands, fault>>
      /\ main' = "clear" /\ fault = FALSE
      /\ du' = {} /\ layout' = Compute(flags, layout, du)
  BY DEF ComputeLayout, ViewInv
<1>3. PICK f, l2 : f = flags /\ l2 = layout'
  OBVIOUS
<1>4. Sound(f, l2, {}) /\ Rested(f, l2) /\ Settled(f, l2, {})
  <2>1. CASE nodeCount > 0
    BY <1>1, <1>2, <1>3, <2>1, ComputeSettles
  <2>2. CASE ~(nodeCount > 0)
    <3>1. nodeCount = 0 /\ Nodes = {}
      BY <1>1, <2>2 DEF Links
    <3>2. l2 = layout /\ Sound(f, l2, {}) /\ Allocated(l2) = {} /\ l2.dirty = {} /\ l2.done = {}
      <4>1. l2 = layout
        BY <1>2, <1>3, <3>1 DEF Compute
      <4>2. du = {}
        BY <1>1, <3>1 DEF Sound
      <4>3. Sound(f, l2, {})
        BY <1>1, <1>3, <4>1, <4>2
      <4> QED BY <3>1, <4>1, <4>3 DEF Sound, LayoutTyped
    <3>3. Rested(f, l2) /\ Settled(f, l2, {})
      BY <3>1, <3>2 DEF Rested, DirtyAreLinked, Settled
    <3> QED BY <3>2, <3>3
  <2> QED BY <2>1, <2>2
<1>5. Proved!ClosingInv' /\ Sound(f, l2, {})' /\ Rested(f, l2)' /\ Settled(f, l2, {})'
  BY <1>1, <1>2, <1>4, SameTree
<1>6. Sound(flags, layout, du)' /\ Rested(flags, layout)' /\ Settled(flags, layout, du)'
  BY <1>2, <1>3, <1>5
<1>7. AtRestIsSafe'
  BY <1>2 DEF AtRestIsSafe
<1> QED BY <1>1, <1>2, <1>5, <1>6, <1>7 DEF ViewInv

\* The other steps leave tree, flags and layout alone.
LEMMA FlagStepsKeep ==
  ViewInv /\ (LockTree \/ SetLayoutOutdated \/ AutoUpdate \/ ClearStale \/ UNCHANGED vars) => ViewInv'
<1> SUFFICES ASSUME ViewInv,
                    LockTree \/ SetLayoutOutdated \/ AutoUpdate \/ ClearStale \/ UNCHANGED vars
             PROVE  ViewInv'
  OBVIOUS
<1>1. UNCHANGED treeVars /\ UNCHANGED <<flags, layout, du, commands, fault>>
  BY DEF LockTree, SetLayoutOutdated, AutoUpdate, ClearStale, vars
<1>2. /\ Proved!ClosingInv' /\ Sound(flags, layout, du)'
      /\ Rested(flags, layout) => Rested(flags, layout)'
      /\ Settled(flags, layout, du) => Settled(flags, layout, du)'
  BY <1>1, SameTree DEF ViewInv
<1>3. /\ stale' \in BOOLEAN /\ posted' \in BOOLEAN /\ building' \in BOOLEAN /\ fault' \in BOOLEAN
      /\ main' \in {"idle", "compute", "clear"}
  BY DEF ViewInv, LockTree, SetLayoutOutdated, AutoUpdate, ClearStale, vars
<1>4. AtRestIsSafe'
  BY <1>1 DEF ViewInv, AtRestIsSafe, Quiet, LockTree, SetLayoutOutdated, AutoUpdate, ClearStale,
              vars, treeVars
<1>5. main' # "compute" => Rested(flags, layout)'
  BY <1>2 DEF ViewInv, LockTree, SetLayoutOutdated, AutoUpdate, ClearStale, vars
<1>6. ~posted' /\ (main' = "clear" \/ (main' = "idle" /\ ~stale')) => Settled(flags, layout, du)'
  BY <1>2 DEF ViewInv, LockTree, SetLayoutOutdated, AutoUpdate, ClearStale, vars
<1> QED BY <1>1, <1>2, <1>3, <1>4, <1>5, <1>6 DEF ViewInv

-----------------------------------------------------------------------------
(* The theorem *)

LEMMA ViewInvInit == Init => ViewInv
<1> SUFFICES ASSUME Init PROVE ViewInv
  OBVIOUS
<1>1. Proved!ClosingInv
  <2>1. Proved!Init
    BY SameInit DEF Init
  <2> QED BY <2>1, BoundsAssumption, Proved!TreeInvInit, Proved!ClosingStart DEF Proved!ClosingInv
<1>2. /\ flags = [hidden |-> {}, labelled |-> {}, lantern |-> <<>>]
      /\ layout = [dirty |-> {}, done |-> {}, shape |-> <<>>]
      /\ du = {} /\ stale = TRUE /\ posted = FALSE /\ building = FALSE
      /\ main = "idle" /\ commands = 0 /\ fault = FALSE
  BY DEF Init
<1>3. /\ Allocated(layout) = {} /\ layout.dirty = {} /\ layout.done = {}
      /\ flags.hidden = {} /\ flags.labelled = {} /\ DOMAIN flags.lantern = {}
  BY <1>2 DEF Allocated
<1>4. FlagsTyped(flags) /\ LayoutTyped(layout)
  BY <1>2, <1>3 DEF FlagsTyped, LayoutTyped
<1>5. Sound(flags, layout, du)
  BY <1>2, <1>3, <1>4 DEF Sound, NewAreNoted, DirtyAreLinked, CleanAreRight, OwnShapes
<1>6. Rested(flags, layout)
  BY <1>3 DEF Rested, DirtyAreLinked
<1>7. AtRestIsSafe /\ commands \in 0 .. MaxCommands
  BY <1>2, BoundsAssumption DEF AtRestIsSafe
<1> QED BY <1>1, <1>2, <1>5, <1>6, <1>7 DEF ViewInv

LEMMA ViewInvStep == ViewInv /\ [Next]_vars => ViewInv'
<1> SUFFICES ASSUME ViewInv, [Next]_vars PROVE ViewInv'
  OBVIOUS
<1>1. CASE UserCommand
  <2>1. ASSUME NEW n \in Nodes,
               \/ ToggleHidden(n) \/ HideFailed(n) \/ ShowLabelsDown(n) \/ ShowLabelsUp(n)
               \/ UnhideNode(n) \/ UnhideAllAt(n) \/ RevealNode(n)
        PROVE  ViewInv'
    BY <2>1, ToggleHiddenKeeps, HideFailedKeeps, ShowLabelsDownKeeps, ShowLabelsUpKeeps,
       UnhideNodeKeeps, UnhideAllAtKeeps, RevealNodeKeeps
  <2> QED BY <1>1, <2>1, CenterNodeKeeps, HideBySizeKeeps, UndoLanternsKeeps DEF UserCommand
<1> QED BY <1>1, ModifyKeeps, ComputeKeeps, FlagStepsKeep DEF Next

\* Of the tree, the flags, the layout, the notes and the two ways an update is
\* due, each pair of which some step leaves apart, the invariant says how far
\* apart they may be.
THEOREM ViewInvariant == Spec => []ViewInv
BY ViewInvInit, ViewInvStep, PTL DEF Spec

-----------------------------------------------------------------------------
(* What the invariant says of a picture that is up to date *)

\* Below a node, every walk to it comes by one of its children.
LEMMA ChildOnTheWay ==
  Proved!ClosingInv => \A n \in Nodes : \A d \in Subtree(n) : d # n =>
    \E i \in DOMAIN kids[n] : kids[n][i] \in Ancestors(d)
<1> SUFFICES ASSUME Proved!ClosingInv, NEW n \in Nodes
             PROVE  \A d \in Subtree(n) : d # n =>
                      \E i \in DOMAIN kids[n] : kids[n][i] \in Ancestors(d)
  OBVIOUS
<1>1. Walks /\ Links
  BY TreeWalks, TreeLinks
<1> DEFINE S == {d \in Nodes : n \in Ancestors(d) /\ d # n =>
                   \E i \in DOMAIN kids[n] : kids[n][i] \in Ancestors(d)}
<1>2. ASSUME NEW d \in Nodes, d # Root => parent[d] \in S PROVE d \in S
  <2> SUFFICES ASSUME n \in Ancestors(d), d # n
               PROVE  \E i \in DOMAIN kids[n] : kids[n][i] \in Ancestors(d)
    OBVIOUS
  <2>1. d \in Ancestors(d) /\ Ancestors(d) = {d} \cup IF d = Root THEN {} ELSE Ancestors(parent[d])
    BY <1>1 DEF Walks
  <2>2. d # Root /\ n \in Ancestors(parent[d]) /\ Ancestors(parent[d]) \subseteq Ancestors(d)
    BY <2>1
  <2>3. CASE parent[d] = n
    <3>1. \E i \in DOMAIN kids[n] : kids[n][i] = d
      BY <1>1, <2>2, <2>3 DEF Links
    <3> QED BY <2>1, <3>1
  <2>4. CASE parent[d] # n
    BY <1>2, <2>2, <2>4
  <2> QED BY <2>3, <2>4
<1> HIDE DEF S
<1>3. Nodes \subseteq S
  BY <1>1, <1>2, DownInduction
<1> QED BY <1>3 DEF S, Subtree

\* Two nodes on the walk of each other are the same.
LEMMA WalksAreLines ==
  Links /\ Walks => \A a, b \in Nodes : a \in Ancestors(b) /\ b \in Ancestors(a) => a = b
<1> SUFFICES ASSUME Links, Walks, NEW a \in Nodes, NEW b \in Nodes,
                    a \in Ancestors(b), b \in Ancestors(a)
             PROVE  a = b
  OBVIOUS
<1>1. a <= b /\ b <= a
  BY DEF Walks
<1>2. a \in Int /\ b \in Int
  BY DEF Links
<1> QED BY <1>1, <1>2

\* The nodes below n that are reached through nodes which are not hidden.
Shown(f, n) ==
  {d \in Subtree(n) : \A a \in Ancestors(d) \ {d} : n \in Ancestors(a) => a \notin f.hidden}

\* The nodes shown below n are n and, unless it is hidden, those shown below its
\* children.
LEMMA ShownSplits ==
  Proved!ClosingInv => \A f : \A n \in Nodes :
    Shown(f, n) = {n} \cup IF n \in f.hidden THEN {}
                           ELSE UNION {Shown(f, kids[n][i]) : i \in DOMAIN kids[n]}
<1> SUFFICES ASSUME Proved!ClosingInv, NEW f, NEW n \in Nodes
             PROVE  Shown(f, n) = {n} \cup IF n \in f.hidden THEN {}
                                  ELSE UNION {Shown(f, kids[n][i]) : i \in DOMAIN kids[n]}
  OBVIOUS
<1>1. Walks /\ Links
  BY TreeWalks, TreeLinks
<1>2. n \in Shown(f, n)
  <2>1. n \in Ancestors(n) /\ Ancestors(n) \subseteq Nodes
    BY <1>1 DEF Walks
  <2>2. ASSUME NEW a \in Ancestors(n) \ {n}, n \in Ancestors(a) PROVE FALSE
    BY <1>1, <2>1, <2>2, WalksAreLines
  <2> QED BY <2>1, <2>2 DEF Shown, Subtree
<1>3. ASSUME NEW d \in Shown(f, n), d # n
      PROVE  n \notin f.hidden /\ \E i \in DOMAIN kids[n] : d \in Shown(f, kids[n][i])
  <2>1. /\ d \in Nodes /\ n \in Ancestors(d) /\ n \in Ancestors(n) /\ Ancestors(d) \subseteq Nodes
        /\ \A a \in Ancestors(d) \ {d} : n \in Ancestors(a) => a \notin f.hidden
    BY <1>1 DEF Shown, Subtree, Walks
  <2>2. n \notin f.hidden
    BY <1>3, <2>1
  <2>3. PICK i \in DOMAIN kids[n] : kids[n][i] \in Ancestors(d)
    BY <1>3, ChildOnTheWay DEF Shown
  <2>4. PICK c : c = kids[n][i]
    OBVIOUS
  <2>5. c \in Nodes \ {Root} /\ parent[c] = n
    BY <1>1, <2>4 DEF Links
  <2>6. n \in Ancestors(c)
    BY <1>1, <2>5 DEF Walks
  <2>7. \A a \in Ancestors(d) : c \in Ancestors(a) => n \in Ancestors(a)
    BY <1>1, <2>1, <2>6 DEF Walks
  <2>8. d \in Shown(f, c)
    BY <2>1, <2>3, <2>4, <2>7 DEF Shown, Subtree
  <2> QED BY <2>2, <2>4, <2>8
<1>4. ASSUME n \notin f.hidden, NEW i \in DOMAIN kids[n], NEW d \in Shown(f, kids[n][i])
      PROVE  d \in Shown(f, n)
  <2>1. PICK c : c = kids[n][i]
    OBVIOUS
  <2>2. c \in Nodes \ {Root} /\ parent[c] = n
    BY <1>1, <2>1 DEF Links
  <2>3. /\ d \in Nodes /\ c \in Ancestors(d) /\ Ancestors(d) \subseteq Nodes
        /\ \A a \in Ancestors(d) \ {d} : c \in Ancestors(a) => a \notin f.hidden
    BY <1>1, <2>1 DEF Shown, Subtree, Walks
  <2>4. Ancestors(c) = {c} \cup Ancestors(n) /\ c \in Ancestors(c) /\ n \in Ancestors(n)
    BY <1>1, <2>2 DEF Walks
  <2>5. n \in Ancestors(d)
    BY <1>1, <2>3, <2>4 DEF Walks
  <2>6. ASSUME NEW a \in Ancestors(d) \ {d}, n \in Ancestors(a) PROVE a \notin f.hidden
    <3>1. CASE c \in Ancestors(a)
      BY <2>3, <3>1
    <3>2. CASE a \in Ancestors(c)
      <4>1. CASE a = c
        BY <2>3, <2>4, <4>1
      <4>2. CASE a \in Ancestors(n)
        <5>1. a = n
          BY <1>1, <2>3, <2>6, <4>2, WalksAreLines
        <5> QED BY <1>4, <5>1
      <4> QED BY <2>4, <3>2, <4>1, <4>2
    <3> QED BY <2>3, <3>1, <3>2, WalksTotal
  <2> QED BY <2>3, <2>5, <2>6 DEF Shown, Subtree
<1>5. ASSUME NEW d
      PROVE  d \in Shown(f, n) <=>
               d = n \/ (n \notin f.hidden /\ \E i \in DOMAIN kids[n] : d \in Shown(f, kids[n][i]))
  BY <1>2, <1>3, <1>4
<1>6. CASE n \in f.hidden
  BY <1>5, <1>6
<1>7. CASE n \notin f.hidden
  BY <1>5, <1>7
<1> QED BY <1>6, <1>7

Plain(x) == [x EXCEPT !.label = "none"]

LEMMA UnlabelledAre ==
  /\ \A S, y : y \in Unlabelled(S) <=> \E x \in S : y = Plain(x)
  /\ \A f, N, y : y \in Unlabelled({Look(f, n) : n \in N}) <=> \E n \in N : y = Plain(Look(f, n))
BY DEF Unlabelled, Plain

\* Once nothing is due, shapes that are not dirty hold exactly what is shown.
LEMMA ShapesAreExact ==
  Proved!ClosingInv => \A f, l, D : Settled(f, l, D) /\ Rested(f, l) =>
    \A n \in Nodes \ l.dirty :
      Unlabelled(l.shape[n]) = Unlabelled({Look(f, d) : d \in Shown(f, n)})
<1> SUFFICES ASSUME Proved!ClosingInv, NEW f, NEW l, NEW D, Settled(f, l, D), Rested(f, l)
             PROVE  \A n \in Nodes \ l.dirty :
                      Unlabelled(l.shape[n]) = Unlabelled({Look(f, d) : d \in Shown(f, n)})
  OBVIOUS
<1>1. Links
  BY TreeLinks
<1> DEFINE Right(n) == \A y : y \in Unlabelled(l.shape[n]) <=>
                                \E d \in Shown(f, n) : y = Plain(Look(f, d))
           S == {n \in Nodes : n \notin l.dirty => Right(n)}
<1>2. ASSUME NEW n \in Nodes, \A i \in DOMAIN kids[n] : kids[n][i] \in S PROVE n \in S
  <2> SUFFICES ASSUME n \notin l.dirty PROVE Right(n)
    OBVIOUS
  <2>1. Unlabelled(l.shape[n]) = Unlabelled(Enclosed(f, n, l.shape))
    BY DEF Settled, ShapeIsRight
  <2>2. CASE n \in f.hidden
    <3>1. Enclosed(f, n, l.shape) = {Look(f, n)} /\ Shown(f, n) = {n}
      BY <2>2, ShownSplits DEF Enclosed
    <3>2. \A y : y \in Unlabelled(Enclosed(f, n, l.shape)) <=> y = Plain(Look(f, n))
      BY <3>1, UnlabelledAre
    <3> QED BY <2>1, <3>1, <3>2
  <2>3. CASE n \notin f.hidden
    <3>1. \A i \in DOMAIN kids[n] : Right(kids[n][i])
      <4> SUFFICES ASSUME NEW i \in DOMAIN kids[n] PROVE kids[n][i] \notin l.dirty
        BY <1>2
      <4>1. kids[n][i] \in Nodes \ {Root} /\ parent[kids[n][i]] = n
        BY <1>1 DEF Links
      <4> QED BY <2>3, <4>1 DEF Rested, DirtyAreLinked
    <3>2. /\ \A x : x \in Enclosed(f, n, l.shape) <=>
               x = Look(f, n) \/ \E i \in DOMAIN kids[n] : x \in l.shape[kids[n][i]]
          /\ \A d : d \in Shown(f, n) <=>
               d = n \/ \E i \in DOMAIN kids[n] : d \in Shown(f, kids[n][i])
      BY <2>3, ShownSplits DEF Enclosed
    <3> HIDE DEF S
    <3>3. ASSUME NEW y
          PROVE  y \in Unlabelled(l.shape[n]) <=>
                   y = Plain(Look(f, n)) \/ \E i \in DOMAIN kids[n] : y \in Unlabelled(l.shape[kids[n][i]])
      BY <2>1, <3>2, UnlabelledAre
    <3>4. ASSUME NEW y
          PROVE  (\E d \in Shown(f, n) : y = Plain(Look(f, d))) <=>
                   \/ y = Plain(Look(f, n))
                   \/ \E i \in DOMAIN kids[n] : \E d \in Shown(f, kids[n][i]) : y = Plain(Look(f, d))
      BY <3>2
    <3>5. ASSUME NEW y
          PROVE  y \in Unlabelled(l.shape[n]) <=> \E d \in Shown(f, n) : y = Plain(Look(f, d))
      <4>1. ASSUME NEW i \in DOMAIN kids[n]
            PROVE  y \in Unlabelled(l.shape[kids[n][i]]) <=>
                     \E d \in Shown(f, kids[n][i]) : y = Plain(Look(f, d))
        BY <3>1
      <4>2. (\E i \in DOMAIN kids[n] : y \in Unlabelled(l.shape[kids[n][i]])) <=>
              \E i \in DOMAIN kids[n] : \E d \in Shown(f, kids[n][i]) : y = Plain(Look(f, d))
        BY <4>1
      <4> QED BY <3>3, <3>4, <4>2
    <3> QED BY <3>5
  <2> QED BY <2>2, <2>3
<1> HIDE DEF S
<1>3. Nodes \subseteq S
  BY <1>1, <1>2, UpInduction
<1>4. ASSUME NEW n \in Nodes \ l.dirty
      PROVE  Unlabelled(l.shape[n]) = Unlabelled({Look(f, d) : d \in Shown(f, n)})
  <2>1. Right(n)
    BY <1>3 DEF S
  <2>2. PICK A, B : /\ A = Unlabelled(l.shape[n])
                     /\ B = Unlabelled({Look(f, d) : d \in Shown(f, n)})
    OBVIOUS
  <2>3. \A y : y \in B <=> \E d \in Shown(f, n) : y = Plain(Look(f, d))
    BY <2>2, UnlabelledAre
  <2>4. \A y : y \in A <=> y \in B
    BY <2>1, <2>2, <2>3
  <2>5. A = B
    BY <2>4
  <2> QED BY <2>2, <2>5
<1> QED BY <1>4

LEMMA RootShowsAll == Walks => \A f : Root \in Nodes => Shown(f, Root) = Visible(f)
BY DEF Walks, Shown, Subtree, Visible

LEMMA QuietFollows == ViewInv => QuietIsUpToDate
<1> SUFFICES ASSUME ViewInv, Quiet, nodeCount > 0, ~fault PROVE UpToDate
  BY DEF QuietIsUpToDate
<1>1. /\ Proved!ClosingInv /\ Links /\ Walks
      /\ Settled(flags, layout, du) /\ Rested(flags, layout)
  BY TreeLinks, TreeWalks DEF ViewInv, Quiet
<1>2. Root \in Nodes
  BY <1>1 DEF Links
<1>3. Root \in Allocated(layout) /\ Root \in Nodes \ layout.dirty
  BY <1>1, <1>2 DEF Settled, Rested
<1>4. Unlabelled(layout.shape[Root]) = Unlabelled({Look(flags, d) : d \in Shown(flags, Root)})
  BY <1>1, <1>3, ShapesAreExact
<1> QED BY <1>1, <1>2, <1>3, <1>4, RootShowsAll DEF UpToDate

\* In trees of every size, whatever was built, hidden, revealed and laid out in
\* whatever order, the picture agrees with the tree and the flags when no update
\* is due.
THEOREM QuietViewsAreUpToDate == Spec => []QuietIsUpToDate
BY ViewInvariant, QuietFollows, PTL

-----------------------------------------------------------------------------
(* What the invariant says of drawing *)

\* What is drawn has been laid out, and its walk is drawn and not hidden.
LEMMA DrawnWalks ==
  Walks => \A n \in Drawn :
    /\ n \in Nodes /\ n \in layout.done
    /\ n # Root => parent[n] \in Drawn /\ parent[n] \notin flags.hidden
<1> SUFFICES ASSUME Walks, NEW n \in Drawn
             PROVE  /\ n \in Nodes /\ n \in layout.done
                    /\ n # Root => parent[n] \in Drawn /\ parent[n] \notin flags.hidden
  OBVIOUS
<1>1. n \in Nodes /\ \A a \in Ancestors(n) : MayDraw(a)
  BY DEF Drawn
<1>2. n \in Ancestors(n) /\ MayDraw(n)
  BY <1>1 DEF Walks
<1>3. ASSUME n # Root PROVE parent[n] \in Drawn
  <2>1. parent[n] \in Ancestors(n) /\ Ancestors(n) \subseteq Nodes
    BY <1>1, <1>2, <1>3 DEF Walks
  <2>2. Ancestors(parent[n]) \subseteq Ancestors(n)
    BY <1>1, <2>1 DEF Walks
  <2> QED BY <1>1, <2>1, <2>2 DEF Drawn
<1> QED BY <1>1, <1>2, <1>3 DEF MayDraw

\* At rest nothing that is drawn is dirty.
LEMMA DrawnAreClean ==
  Links /\ Walks /\ Rested(flags, layout) => Drawn \cap layout.dirty = {}
<1> SUFFICES ASSUME Links, Walks, Rested(flags, layout) PROVE Drawn \cap layout.dirty = {}
  OBVIOUS
<1> DEFINE S == {n \in Nodes : n \in Drawn => n \notin layout.dirty}
<1>1. ASSUME NEW n \in Nodes, n # Root => parent[n] \in S PROVE n \in S
  <2> SUFFICES ASSUME n \in Drawn PROVE n \notin layout.dirty
    OBVIOUS
  <2>1. n # Root => parent[n] \in Drawn /\ parent[n] \notin flags.hidden
    BY DrawnWalks
  <2> QED BY <1>1, <2>1 DEF Rested, DirtyAreLinked
<1> HIDE DEF S
<1>2. Nodes \subseteq S
  BY <1>1, DownInduction
<1> QED BY <1>2, DrawnWalks DEF S

LEMMA DrawnLieWithin == ViewInv => DrawnWithinShapes
<1> SUFFICES ASSUME ViewInv, main = "idle"
             PROVE  \A n \in Drawn : \A a \in Ancestors(n) :
                      a \in Allocated(layout) /\ \E x \in layout.shape[a] : x.node = n
  BY DEF DrawnWithinShapes
<1>1. /\ Links /\ Walks /\ Rested(flags, layout)
      /\ layout.done \subseteq Allocated(layout) /\ OwnShapes(layout)
  BY TreeLinks, TreeWalks DEF ViewInv, Sound, LayoutTyped
<1>2. \A n \in Drawn \ {Root} : Held(layout.shape[n]) \subseteq Held(layout.shape[parent[n]])
  <2> SUFFICES ASSUME NEW n \in Drawn \ {Root}
               PROVE  Held(layout.shape[n]) \subseteq Held(layout.shape[parent[n]])
    OBVIOUS
  <2>1. n \in layout.done /\ parent[n] \in Drawn /\ parent[n] \notin flags.hidden
    BY <1>1, DrawnWalks
  <2>2. parent[n] \in Allocated(layout) \ layout.dirty
    BY <1>1, <2>1, DrawnWalks, DrawnAreClean
  <2> QED BY <1>1, <2>1, <2>2 DEF Rested
<1> DEFINE Within(n) == \A a \in Ancestors(n) :
                          a \in Drawn /\ Held(layout.shape[n]) \subseteq Held(layout.shape[a])
           S == {n \in Nodes : n \in Drawn => Within(n)}
<1>3. ASSUME NEW n \in Nodes, n # Root => parent[n] \in S PROVE n \in S
  <2> SUFFICES ASSUME n \in Drawn PROVE Within(n)
    OBVIOUS
  <2>1. Ancestors(n) = {n} \cup IF n = Root THEN {} ELSE Ancestors(parent[n])
    BY <1>1 DEF Walks
  <2>2. CASE n = Root
    BY <2>1, <2>2
  <2>3. CASE n # Root
    <3>1. Within(parent[n]) /\ Held(layout.shape[n]) \subseteq Held(layout.shape[parent[n]])
      BY <1>1, <1>2, <1>3, <2>3, DrawnWalks
    <3> QED BY <2>1, <2>3, <3>1
  <2> QED BY <2>2, <2>3
<1>4. Nodes \subseteq S
  <2> HIDE DEF S
  <2> QED BY <1>1, <1>3, DownInduction
<1>5. ASSUME NEW n \in Drawn, NEW a \in Ancestors(n)
      PROVE  a \in Allocated(layout) /\ \E x \in layout.shape[a] : x.node = n
  <2>1. n \in Nodes /\ n \in layout.done /\ n \in Held(layout.shape[n])
    BY <1>1, DrawnWalks DEF OwnShapes
  <2>2. a \in Drawn /\ n \in Held(layout.shape[a])
    BY <1>4, <2>1
  <2>3. a \in Allocated(layout)
    BY <1>1, <2>2, DrawnWalks
  <2> QED BY <2>2, <2>3 DEF Held
<1> QED BY <1>5

LEMMA DrawnAreVisible == ViewInv => DrawsWhatIsVisible
<1> SUFFICES ASSUME ViewInv, Quiet, nodeCount > 0, ~fault PROVE Drawn = Visible(flags)
  BY DEF DrawsWhatIsVisible
<1>1. /\ Proved!ClosingInv /\ Links /\ Walks
      /\ Settled(flags, layout, du) /\ Rested(flags, layout)
  BY TreeLinks, TreeWalks DEF ViewInv, Quiet
<1>2. ASSUME NEW n \in Nodes \ layout.dirty, n \notin flags.hidden,
             NEW i \in DOMAIN kids[n]
      PROVE  kids[n][i] \in Nodes \ layout.dirty
  <2>1. kids[n][i] \in Nodes \ {Root} /\ parent[kids[n][i]] = n
    BY <1>1 DEF Links
  <2> QED BY <1>1, <1>2, <2>1 DEF Rested, DirtyAreLinked
<1>3. ASSUME NEW n \in Visible(flags), n # Root
      PROVE  parent[n] \in Visible(flags) /\ parent[n] \notin flags.hidden
  <2>1. n \in Nodes /\ parent[n] \in Nodes /\ parent[n] < n /\ n \in Int /\ parent[n] \in Int
    BY <1>1, <1>3 DEF Visible, Links
  <2>2. parent[n] \in Ancestors(n) \ {n} /\ Ancestors(parent[n]) \subseteq Ancestors(n)
    BY <1>1, <1>3, <2>1 DEF Walks
  <2>3. n \notin Ancestors(parent[n])
    <3>1. n \in Ancestors(parent[n]) => n <= parent[n]
      BY <1>1, <2>1 DEF Walks
    <3> QED BY <2>1, <3>1
  <2> QED BY <2>1, <2>2, <2>3 DEF Visible
<1> DEFINE S == {n \in Nodes : n \in Visible(flags) => n \notin layout.dirty /\ n \in Drawn}
<1>4. ASSUME NEW n \in Nodes, n # Root => parent[n] \in S PROVE n \in S
  <2> SUFFICES ASSUME n \in Visible(flags) PROVE n \notin layout.dirty /\ n \in Drawn
    OBVIOUS
  <2>1. Ancestors(n) = {n} \cup IF n = Root THEN {} ELSE Ancestors(parent[n])
    BY <1>1 DEF Walks
  <2>2. CASE n = Root
    <3>1. n \notin layout.dirty /\ n \in layout.done
      BY <1>1, <2>2 DEF Rested, Settled
    <3> QED BY <2>1, <2>2, <3>1 DEF Drawn, MayDraw
  <2>3. CASE n # Root
    <3>1. /\ parent[n] \in Nodes \ layout.dirty /\ parent[n] \in Drawn
          /\ parent[n] \notin flags.hidden
      BY <1>1, <1>3, <1>4, <2>3 DEF Links
    <3>2. n \in Nodes \ layout.dirty
      BY <1>1, <1>2, <2>3, <3>1 DEF Links
    <3>3. OlderSiblings(n) \subseteq Nodes \ layout.dirty
      BY <1>2, <3>1 DEF OlderSiblings
    <3>4. \A m \in Nodes \ layout.dirty : m \in layout.done
      BY <1>1 DEF Settled
    <3>5. MayDraw(n)
      BY <3>1, <3>2, <3>3, <3>4 DEF MayDraw
    <3>6. \A a \in Ancestors(parent[n]) : MayDraw(a)
      BY <3>1 DEF Drawn
    <3> QED BY <2>1, <2>3, <3>2, <3>5, <3>6 DEF Drawn
  <2> QED BY <2>2, <2>3
<1>5. Visible(flags) \subseteq Drawn
  <2>1. Nodes \subseteq S
    <3> HIDE DEF S
    <3> QED BY <1>1, <1>4, DownInduction
  <2> QED BY <2>1 DEF Visible
<1>6. ASSUME NEW n \in Drawn, NEW a \in Ancestors(n) \ {n} PROVE a \notin flags.hidden
  <2>1. n \in Nodes /\ a \in Nodes /\ n \in Subtree(a)
    BY <1>1, DrawnWalks DEF Walks, Subtree
  <2>2. PICK i \in DOMAIN kids[a] : kids[a][i] \in Ancestors(n)
    BY <1>1, <2>1, ChildOnTheWay
  <2>3. kids[a][i] # Root /\ parent[kids[a][i]] = a
    BY <1>1, <2>1 DEF Links
  <2>4. MayDraw(kids[a][i])
    BY <2>2 DEF Drawn
  <2> QED BY <2>3, <2>4 DEF MayDraw
<1>7. Drawn \subseteq Visible(flags)
  BY <1>1, <1>6, DrawnWalks DEF Visible
<1> QED BY <1>5, <1>7

LEMMA TypesFollow == ViewInv => TypeOK
BY DEF ViewInv, Sound, FlagsTyped, LayoutTyped, TypeOK

\* In trees of every size and at any time no drawn node is without a shape above
\* it, at rest the drawn nodes are the visible ones, and a command at rest
\* touches nothing that is not there.
THEOREM DrawingIsSafe == Spec => []DrawnSafely
<1>1. ViewInv => DrawnSafely
  BY DrawnLieWithin, DrawnAreVisible, TypesFollow DEF DrawnSafely, ViewInv
<1> QED BY <1>1, ViewInvariant, PTL

-----------------------------------------------------------------------------
(* What the commands that hide and reveal whole subtrees do *)

\* Below a node subtrees are no larger.
LEMMA SubtreesShrink ==
  Links /\ Walks => \A n \in Nodes : \A a \in Ancestors(n) :
    Cardinality(Subtree(n)) <= Cardinality(Subtree(a))
<1> SUFFICES ASSUME Links, Walks, NEW n \in Nodes, NEW a \in Ancestors(n)
             PROVE  Cardinality(Subtree(n)) <= Cardinality(Subtree(a))
  OBVIOUS
<1>1. a \in Nodes
  BY DEF Walks
<1>2. Subtree(n) \subseteq Subtree(a)
  BY DEF Walks, Subtree
<1>3. IsFiniteSet(Subtree(a))
  BY <1>1, SubtreeSizes
<1> QED BY <1>2, <1>3, FS_Subset

\* A node of at most limit nodes is, unless it is a leaf, below or in a lantern.
LEMMA LanternAbove ==
  Links /\ Walks => \A limit \in Nat : \A n \in Nodes :
    ~IsLeaf(n) /\ Cardinality(Subtree(n)) <= limit => \E a \in Ancestors(n) : a \in LanternNodes(limit)
<1> SUFFICES ASSUME Links, Walks, NEW limit \in Nat
             PROVE  \A n \in Nodes : ~IsLeaf(n) /\ Cardinality(Subtree(n)) <= limit
                      => \E a \in Ancestors(n) : a \in LanternNodes(limit)
  OBVIOUS
<1> DEFINE S == {n \in Nodes : ~IsLeaf(n) /\ Cardinality(Subtree(n)) <= limit
                   => \E a \in Ancestors(n) : a \in LanternNodes(limit)}
<1>1. ASSUME NEW n \in Nodes, n # Root => parent[n] \in S PROVE n \in S
  <2> SUFFICES ASSUME ~IsLeaf(n), Cardinality(Subtree(n)) <= limit
               PROVE  \E a \in Ancestors(n) : a \in LanternNodes(limit)
    OBVIOUS
  <2>1. /\ n \in Ancestors(n) /\ Ancestors(n) \subseteq Nodes
        /\ Ancestors(n) = {n} \cup IF n = Root THEN {} ELSE Ancestors(parent[n])
    BY DEF Walks
  <2>2. CASE \A a \in Ancestors(n) \ {n} : Cardinality(Subtree(a)) > limit
    BY <2>1, <2>2 DEF LanternNodes
  <2>3. ASSUME NEW a \in Ancestors(n) \ {n}, ~(Cardinality(Subtree(a)) > limit)
        PROVE  \E b \in Ancestors(n) : b \in LanternNodes(limit)
    <3>1. n # Root /\ a \in Ancestors(parent[n]) /\ a \in Nodes
      BY <2>1, <2>3
    <3>2. parent[n] \in Nodes /\ \E i \in DOMAIN kids[parent[n]] : kids[parent[n]][i] = n
      BY <3>1 DEF Links
    <3>3. kids[parent[n]] # <<>>
      BY <3>2
    <3>4. Cardinality(Subtree(parent[n])) <= limit
      <4>1. Cardinality(Subtree(parent[n])) <= Cardinality(Subtree(a))
        BY <3>1, <3>2, SubtreesShrink
      <4>2. Cardinality(Subtree(parent[n])) \in Nat /\ Cardinality(Subtree(a)) \in Nat
        BY <3>1, <3>2, SubtreeSizes
      <4> QED BY <2>3, <4>1, <4>2
    <3> QED BY <1>1, <2>1, <3>1, <3>3, <3>4 DEF IsLeaf
  <2> QED BY <2>2, <2>3
<1> HIDE DEF S
<1>2. Nodes \subseteq S
  BY <1>1, DownInduction
<1> QED BY <1>2 DEF S

LEMMA LanternsPartition ==
  ViewInv => \A limit \in Limits : HideBySize(limit) /\ ~fault' =>
    \A n \in Nodes : ~IsLeaf(n) =>
      (Cardinality(Subtree(n)) > limit <=> n \in Visible(flags') \ flags'.hidden)
<1> SUFFICES ASSUME ViewInv, NEW limit \in Limits, HideBySize(limit), ~fault',
                    NEW n \in Nodes, ~IsLeaf(n)
             PROVE  Cardinality(Subtree(n)) > limit <=> n \in Visible(flags') \ flags'.hidden
  OBVIOUS
<1>1. Command /\ limit \in Nat
  BY BoundsAssumption DEF HideBySize
<1>2. Links /\ Walks /\ FlagsTyped(flags)
  BY <1>1, CommandFacts
<1>3. PICK L : L = LanternNodes(limit)
  OBVIOUS
<1>4. flags'.hidden = L
  <2>1. PICK shown : shown = Unhide(flags, flags.hidden)
    OBVIOUS
  <2>2. PICK lan : lan = [m \in L |-> (Cardinality(Subtree(m)) * MaxLantern) \div limit]
    OBVIOUS
  <2>3. flags' = [Hide(shown, L) EXCEPT !.lantern = lan]
    BY <1>3, <2>1, <2>2 DEF HideBySize, UpdateNow, Undefined
  <2>4. shown = [hidden |-> {}, labelled |-> flags.labelled, lantern |-> flags.lantern]
    BY <1>2, <2>1 DEF Unhide, FlagsTyped
  <2>5. PICK h : h = Hide(shown, L)
    OBVIOUS
  <2>6. h = [hidden |-> L, labelled |-> flags.labelled, lantern |-> flags.lantern]
    BY <2>4, <2>5 DEF Hide
  <2>7. flags' = [h EXCEPT !.lantern = lan]
    BY <2>3, <2>5
  <2> QED BY <2>6, <2>7
<1>5. \A m \in Nodes : Cardinality(Subtree(m)) \in Nat
  BY <1>2, SubtreeSizes
<1>6. n \in Visible(flags') \ flags'.hidden <=> \A a \in Ancestors(n) : a \notin L
  <2>1. n \in Ancestors(n)
    BY <1>2 DEF Walks
  <2> QED BY <1>4, <2>1 DEF Visible
<1>7. ASSUME Cardinality(Subtree(n)) > limit, NEW a \in Ancestors(n) PROVE a \notin L
  <2>1. a \in Nodes /\ Cardinality(Subtree(n)) <= Cardinality(Subtree(a))
    BY <1>2, SubtreesShrink DEF Walks
  <2>2. Cardinality(Subtree(a)) > limit
    BY <1>1, <1>5, <1>7, <2>1
  <2>3. ~(Cardinality(Subtree(a)) <= limit)
    BY <1>1, <1>5, <2>1, <2>2
  <2> QED BY <1>3, <2>3 DEF LanternNodes
<1>8. ASSUME ~(Cardinality(Subtree(n)) > limit) PROVE \E a \in Ancestors(n) : a \in L
  <2>1. Cardinality(Subtree(n)) <= limit
    BY <1>1, <1>5, <1>8
  <2> QED BY <1>1, <1>2, <1>3, <2>1, LanternAbove
<1> QED BY <1>6, <1>7, <1>8

\* What is below a visible node is hidden only by what is.
LEMMA UnhidingReveals ==
  ViewInv => \A n \in Visible(flags) : UnhideAllAt(n) /\ ~fault' => Subtree(n) \subseteq Visible(flags')
<1> SUFFICES ASSUME ViewInv, NEW n \in Visible(flags), UnhideAllAt(n), ~fault', NEW d \in Subtree(n)
             PROVE  d \in Visible(flags')
  OBVIOUS
<1>1. Command
  BY DEF UnhideAllAt
<1>2. Links /\ Walks /\ Proved!ClosingInv /\ FlagsTyped(flags)
  BY <1>1, CommandFacts
<1>3. flags'.hidden = flags.hidden \ Subtree(n)
  <2>1. CASE HiddenAt(n) = {}
    <3>1. flags' = flags
      BY <2>1 DEF UnhideAllAt, Nothing, Undefined
    <3> QED BY <2>1, <3>1 DEF HiddenAt
  <2>2. CASE HiddenAt(n) # {}
    <3>1. flags' = Unhide(flags, HiddenAt(n))
      BY <2>2 DEF UnhideAllAt, UpdateNow, Undefined
    <3> QED BY <1>2, <3>1 DEF Unhide, HiddenAt, FlagsTyped
  <2> QED BY <2>1, <2>2
<1>4. /\ n \in Nodes /\ d \in Nodes /\ n \in Ancestors(d) /\ Ancestors(d) \subseteq Nodes
      /\ (Ancestors(n) \ {n}) \cap flags.hidden = {}
  BY <1>2 DEF Visible, Subtree, Walks
<1>5. ASSUME NEW a \in Ancestors(d) \ {d}, a \in flags'.hidden PROVE FALSE
  <2>1. a \in flags.hidden /\ a \notin Subtree(n) /\ a \in Nodes
    BY <1>3, <1>4, <1>5
  <2>2. a \in Ancestors(n)
    BY <1>2, <1>4, <2>1, WalksTotal DEF Subtree
  <2>3. a # n
    BY <1>2, <1>4, <2>1 DEF Subtree, Walks
  <2> QED BY <1>4, <2>1, <2>2, <2>3
<1> QED BY <1>4, <1>5 DEF Visible

\* HideFailedCursor reaches every failed subtree that is not below a hidden node,
\* or one that contains it.
LEMMA FailedAbove ==
  Proved!ClosingInv => \A n \in Nodes : \A d \in Subtree(n) :
    ~IsLeaf(d) /\ ~hasSolved[d] /\ ~hasOpen[d] /\ Ancestors(d) \cap flags.hidden = {}
      => \E a \in Ancestors(d) : a \in FailedBelow(n)
<1> SUFFICES ASSUME Proved!ClosingInv, NEW n \in Nodes
             PROVE  \A d \in Subtree(n) :
                      ~IsLeaf(d) /\ ~hasSolved[d] /\ ~hasOpen[d] /\ Ancestors(d) \cap flags.hidden = {}
                        => \E a \in Ancestors(d) : a \in FailedBelow(n)
  OBVIOUS
<1>1. Links /\ Walks
  BY TreeLinks, TreeWalks
<1> DEFINE Bad(d) == /\ d \in Subtree(n) /\ ~IsLeaf(d) /\ ~hasSolved[d] /\ ~hasOpen[d]
                     /\ Ancestors(d) \cap flags.hidden = {}
           Met(d) == \A b \in Ancestors(d) : Bad(b) => \E a \in Ancestors(b) : a \in FailedBelow(n)
           S == {d \in Nodes : Met(d)}
<1>2. ASSUME NEW d \in Nodes, d # Root => parent[d] \in S PROVE d \in S
  <2>1. /\ d \in Ancestors(d) /\ Ancestors(d) \subseteq Nodes
        /\ Ancestors(d) = {d} \cup IF d = Root THEN {} ELSE Ancestors(parent[d])
        /\ \A a \in Ancestors(d) : Ancestors(a) \subseteq Ancestors(d)
    BY <1>1 DEF Walks
  <2>2. \A b \in Ancestors(d) \ {d} : Bad(b) => \E a \in Ancestors(b) : a \in FailedBelow(n)
    BY <1>2, <2>1
  <2>3. ASSUME Bad(d) PROVE \E a \in Ancestors(d) : a \in FailedBelow(n)
    <3>1. CASE \A a \in (Ancestors(d) \ {d}) \cap Subtree(n) : hasSolved[a] \/ hasOpen[a]
      <4>1. ShouldHide(d) /\ d \in Subtree(n)
        BY <2>1, <2>3 DEF ShouldHide
      <4>2. \A a \in (Ancestors(d) \ {d}) \cap Subtree(n) :
              (hasSolved[a] \/ hasOpen[a]) /\ a \notin flags.hidden
        BY <2>3, <3>1
      <4> QED BY <2>1, <4>1, <4>2 DEF FailedBelow
    <3>2. ASSUME NEW a \in (Ancestors(d) \ {d}) \cap Subtree(n), ~(hasSolved[a] \/ hasOpen[a])
          PROVE  \E b \in Ancestors(d) : b \in FailedBelow(n)
      <4>1. a \in Nodes /\ Ancestors(a) \subseteq Ancestors(d)
        BY <2>1
      <4>2. ~IsLeaf(a)
        <5>1. \E i \in DOMAIN kids[a] : kids[a][i] \in Ancestors(d)
          BY <3>2, <4>1, ChildOnTheWay DEF Subtree
        <5> QED BY <5>1 DEF IsLeaf
      <4>3. Bad(a)
        BY <2>3, <3>2, <4>1, <4>2
      <4> QED BY <2>2, <3>2, <4>1, <4>3
    <3> QED BY <3>1, <3>2
  <2> QED BY <2>1, <2>2, <2>3
<1> HIDE DEF S
<1>3. Nodes \subseteq S
  BY <1>1, <1>2, DownInduction
<1>4. ASSUME NEW d \in Subtree(n), ~IsLeaf(d), ~hasSolved[d], ~hasOpen[d],
             Ancestors(d) \cap flags.hidden = {}
      PROVE  \E a \in Ancestors(d) : a \in FailedBelow(n)
  <2>1. d \in Nodes /\ d \in Ancestors(d)
    BY <1>1 DEF Subtree, Walks
  <2>2. Met(d) /\ Bad(d)
    BY <1>3, <1>4, <2>1 DEF S
  <2> QED BY <2>1, <2>2
<1> QED BY <1>4

LEMMA FailedAreHidden ==
  ViewInv => \A n \in Nodes : HideFailed(n) /\ ~fault' =>
    LET promising(d) == \E e \in Subtree(d) : status[e] = "SOLVED" \/ Tree!Pending(e)
    IN  /\ \A d \in Subtree(n) \cap Visible(flags') :
             IsLeaf(d) \/ d \in flags'.hidden \/ promising(d)
        /\ \A d \in flags'.hidden \ flags.hidden : ~promising(d) \/ Tree!RestartRoot(d)
<1> DEFINE promising(d) == \E e \in Subtree(d) : status[e] = "SOLVED" \/ Tree!Pending(e)
<1> SUFFICES ASSUME ViewInv, NEW n \in Nodes, HideFailed(n), ~fault'
             PROVE  /\ \A d \in Subtree(n) \cap Visible(flags') :
                         IsLeaf(d) \/ d \in flags'.hidden \/ promising(d)
                    /\ \A d \in flags'.hidden \ flags.hidden :
                         ~promising(d) \/ Tree!RestartRoot(d)
  OBVIOUS
<1>1. Command
  BY DEF HideFailed
<1>2. Links /\ Walks /\ Proved!ClosingInv /\ FlagsTyped(flags)
  BY <1>1, CommandFacts
<1>3. \A d \in Nodes : Subtree(d) = Proved!Subtree(d)
  BY <1>2, SameOperators DEF Walks, Subtree, Proved!Subtree
<1>4. ASSUME NEW d \in Nodes
      PROVE  /\ hasSolved[d] <=> \E e \in Subtree(d) : status[e] = "SOLVED"
             /\ hasOpen[d] => \E e \in Subtree(d) : Tree!Pending(e)
             /\ Tree!RestartRoot(d) \/ (hasOpen[d] <=> \E e \in Subtree(d) : Tree!Pending(e))
  <2>1. /\ Proved!SolvedFlagsExact /\ Proved!OpenFlagsExact /\ Proved!OpenIsPending
    BY <1>2 DEF Proved!ClosingInv, Proved!TreeInv, Proved!ClosingExact
  <2>2. hasSolved[d] <=> \E e \in Subtree(d) : status[e] = "SOLVED"
    BY <1>3, <2>1, SameOperators DEF Proved!SolvedFlagsExact
  <2>3. hasOpen[d] => \E e \in Subtree(d) : Tree!Pending(e)
    BY <1>3, <2>1, SameOperators DEF Proved!OpenIsPending
  <2>4. Tree!RestartRoot(d) \/ (hasOpen[d] <=> \E e \in Subtree(d) : Tree!Pending(e))
    BY <1>3, <2>1, SameOperators DEF Proved!OpenFlagsExact
  <2> QED BY <2>2, <2>3, <2>4
<1>5. \A d \in Nodes : hasSolved[d] \/ hasOpen[d] => promising(d)
  BY <1>4
<1>6. \A d \in Nodes : ~hasSolved[d] /\ ~hasOpen[d] => ~promising(d) \/ Tree!RestartRoot(d)
  BY <1>4
<1> HIDE DEF promising
<1>7. flags'.hidden = flags.hidden \cup FailedBelow(n)
  <2>1. CASE FailedBelow(n) = {}
    <3>1. flags' = flags
      BY <2>1 DEF HideFailed, Nothing, Undefined
    <3> QED BY <2>1, <3>1
  <2>2. CASE FailedBelow(n) # {}
    <3>1. flags' = Hide(flags, FailedBelow(n))
      BY <2>2 DEF HideFailed, LaterUpdate, Undefined
    <3> QED BY <1>2, <3>1 DEF Hide, FlagsTyped
  <2> QED BY <2>1, <2>2
<1>8. ASSUME NEW d \in Subtree(n) \cap Visible(flags'), ~IsLeaf(d), d \notin flags'.hidden
      PROVE  promising(d)
  <2>1. d \in Nodes /\ \A a \in Ancestors(d) : a \notin flags.hidden /\ a \notin FailedBelow(n)
    BY <1>7, <1>8 DEF Visible
  <2>2. hasSolved[d] \/ hasOpen[d]
    BY <1>2, <1>8, <2>1, FailedAbove
  <2> QED BY <1>5, <2>1, <2>2
<1>9. ASSUME NEW d \in flags'.hidden \ flags.hidden PROVE ~promising(d) \/ Tree!RestartRoot(d)
  <2>1. d \in Nodes /\ ~hasSolved[d] /\ ~hasOpen[d]
    BY <1>7 DEF FailedBelow, ShouldHide, Subtree
  <2> QED BY <1>6, <2>1
<1> QED BY <1>8, <1>9

\* In trees of every size "hide failed" hides the failed subtrees below a node
\* and nothing else, lanterns partition what is small enough, and "unhide all"
\* reveals all there is below a node that is visible.
THEOREM CommandsAreExact == Spec => CommandsExact
<1>1. ViewInv => [\A n \in Nodes : HideFailed(n) /\ ~fault' =>
         LET promising(d) == \E e \in Subtree(d) : status[e] = "SOLVED" \/ Tree!Pending(e)
         IN  /\ \A d \in Subtree(n) \cap Visible(flags') :
                  IsLeaf(d) \/ d \in flags'.hidden \/ promising(d)
             /\ \A d \in flags'.hidden \ flags.hidden : ~promising(d) \/ Tree!RestartRoot(d)]_vars
  BY FailedAreHidden
<1>2. ViewInv => [\A limit \in Limits : HideBySize(limit) /\ ~fault' =>
         \A n \in Nodes : ~IsLeaf(n) =>
           (Cardinality(Subtree(n)) > limit <=> n \in Visible(flags') \ flags'.hidden)]_vars
  BY LanternsPartition
<1>3. ViewInv => [\A n \in Visible(flags) : UnhideAllAt(n) /\ ~fault' =>
         Subtree(n) \subseteq Visible(flags')]_vars
  BY UnhidingReveals
<1>4. Spec => HideFailedExact
  BY <1>1, ViewInvariant, PTL DEF HideFailedExact
<1>5. Spec => LanternsExact
  BY <1>2, ViewInvariant, PTL DEF LanternsExact
<1>6. Spec => UnhideAllReveals
  BY <1>3, ViewInvariant, PTL DEF UnhideAllReveals
<1> QED BY <1>4, <1>5, <1>6 DEF CommandsExact
=============================================================================
