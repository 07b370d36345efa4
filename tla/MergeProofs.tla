----------------------------- MODULE MergeProofs -----------------------------
(***************************************************************************)
(* Merging two trees, and the window on the result, for trees of every     *)
(* size, any number of mergers and builders that go on.                    *)
(*                                                                         *)
(* A merger overlays two trees: Settled are the places it has dealt with,  *)
(* and Overlays says that the merged tree is right there and untouched     *)
(* elsewhere. When the mutexes are free again the two trees grow; Later    *)
(* says what that leaves as it was. The window walks the three trees in    *)
(* lockstep, as they are by then: InHand says which nodes it holds,        *)
(* OpensRight that the walk throws only where of two branches one has no   *)
(* children, and otherwise links every node to the one it stands for.      *)
(***************************************************************************)
EXTENDS MergeWindow, Induction

-----------------------------------------------------------------------------
(* Trees *)

SourceStatuses == {"BRANCH", "SOLVED", "FAILED", "SKIPPED", "UNDETERMINED"}
TreeStatuses == SourceStatuses \cup {"MERGED"}

\* The children of what is at p are at its first k alternatives.
Has(t, p, k) == k \in Nat /\ \A a \in Alternatives : Append(p, a) \in Places(t) <=> a <= k

\* Nodes are numbered as they come, each below one that was there; no two are
\* at the same place and no alternative is left out; only branches and
\* pentagons have children.
ComesLater(t, n) ==
  \E p \in 0 .. n - 1, a \in Alternatives : t.place[n] = Append(t.place[p], a)

Ordered(t, n) ==
  \E k \in Nat : Has(t, t.place[n], k) /\ (k > 0 => t.status[n] \in {"BRANCH", "MERGED"})

GrownTo(t, c) ==
  /\ DOMAIN t.status = 0 .. c - 1 /\ DOMAIN t.place = 0 .. c - 1
  /\ \A n \in 0 .. c - 1 : t.place[n] \in PlaceSet /\ t.status[n] \in TreeStatuses
  /\ t.place[Root] = <<>>
  /\ \A n \in 1 .. c - 1 : ComesLater(t, n)
  /\ \A n, m \in 0 .. c - 1 : t.place[n] = t.place[m] => n = m
  /\ \A n \in 0 .. c - 1 : Ordered(t, n)

Grown(t) == \E c \in Nat \ {0} : GrownTo(t, c)

LEMMA NumberOfNodes ==
  ASSUME NEW t, Grown(t)
  PROVE  /\ CountOf(t) \in Nat \ {0} /\ GrownTo(t, CountOf(t))
         /\ NodesOf(t) = 0 .. CountOf(t) - 1 /\ DOMAIN t.place = NodesOf(t)
         /\ IsFiniteSet(NodesOf(t)) /\ Root \in NodesOf(t)
<1>1. PICK c \in Nat \ {0} : GrownTo(t, c)
  BY DEF Grown
<1>2. IsFiniteSet(0 .. c - 1) /\ Cardinality(0 .. c - 1) = c
  <2>1. 0 \in Int /\ c - 1 \in Int /\ ~(0 > c - 1) /\ (c - 1) - 0 + 1 = c
    OBVIOUS
  <2>2. IsFiniteSet(0 .. c - 1) /\ Cardinality(0 .. c - 1) = IF 0 > c - 1 THEN 0 ELSE (c - 1) - 0 + 1
    BY <2>1, FS_Interval
  <2> QED BY <2>1, <2>2
<1>3. NodesOf(t) = 0 .. c - 1 /\ CountOf(t) = c /\ DOMAIN t.place = 0 .. c - 1
  BY <1>1, <1>2 DEF NodesOf, CountOf, GrownTo
<1>4. Root \in 0 .. c - 1
  BY DEF Root
<1> QED BY <1>1, <1>2, <1>3, <1>4

LEMMA NodesAndPlaces ==
  ASSUME NEW t, Grown(t)
  PROVE  /\ \A n \in NodesOf(t) :
              /\ t.place[n] \in PlaceSet /\ t.place[n] \in Places(t) /\ At(t, t.place[n]) = n
              /\ t.status[n] \in TreeStatuses /\ StatusAt(t, t.place[n]) = t.status[n]
         /\ \A p \in Places(t) :
              /\ p \in PlaceSet /\ At(t, p) \in NodesOf(t) /\ t.place[At(t, p)] = p
              /\ StatusAt(t, p) = t.status[At(t, p)] /\ StatusAt(t, p) \in TreeStatuses
         /\ <<>> \in Places(t) /\ At(t, <<>>) = Root
<1> DEFINE c == CountOf(t)
<1>1. /\ c \in Nat \ {0} /\ NodesOf(t) = 0 .. c - 1 /\ Root \in NodesOf(t)
      /\ \A n \in 0 .. c - 1 : t.place[n] \in PlaceSet /\ t.status[n] \in TreeStatuses
      /\ t.place[Root] = <<>>
      /\ \A n, m \in 0 .. c - 1 : t.place[n] = t.place[m] => n = m
  BY NumberOfNodes DEF GrownTo
<1>2. ASSUME NEW n \in NodesOf(t)
      PROVE  t.place[n] \in Places(t) /\ At(t, t.place[n]) = n
  <2>1. At(t, t.place[n]) \in NodesOf(t) /\ t.place[At(t, t.place[n])] = t.place[n]
    BY DEF At
  <2> QED BY <1>1, <2>1 DEF Places
<1>3. ASSUME NEW p \in Places(t)
      PROVE  \E n \in NodesOf(t) : p = t.place[n]
  BY DEF Places
<1>4. \A n \in NodesOf(t) :
        /\ t.place[n] \in PlaceSet /\ t.place[n] \in Places(t) /\ At(t, t.place[n]) = n
        /\ t.status[n] \in TreeStatuses /\ StatusAt(t, t.place[n]) = t.status[n]
  BY <1>1, <1>2 DEF StatusAt
<1>5. \A p \in Places(t) :
        /\ p \in PlaceSet /\ At(t, p) \in NodesOf(t) /\ t.place[At(t, p)] = p
        /\ StatusAt(t, p) = t.status[At(t, p)] /\ StatusAt(t, p) \in TreeStatuses
  BY <1>3, <1>4
<1>6. <<>> \in Places(t) /\ At(t, <<>>) = Root
  BY <1>1, <1>4
<1> QED BY <1>4, <1>5, <1>6

\* What is above a place of the tree is one of its places.
LEMMA PlacesAbove ==
  ASSUME NEW t, Grown(t), NEW q \in Places(t), NEW p \in PlaceSet, IsPrefix(p, q)
  PROVE  p \in Places(t)
<1> DEFINE c == CountOf(t)
           S == {n \in 0 .. c - 1 : IsPrefix(p, t.place[n]) => p \in Places(t)}
<1>1. /\ c \in Nat \ {0} /\ NodesOf(t) = 0 .. c - 1
      /\ t.place[Root] = <<>>
      /\ \A n \in 1 .. c - 1 : \E m \in 0 .. n - 1, a \in Alternatives :
           t.place[n] = Append(t.place[m], a)
  BY NumberOfNodes DEF GrownTo, ComesLater
<1>2. ASSUME NEW n \in 0 .. c - 1, \A m \in 0 .. n - 1 : m \in S
      PROVE  n \in S
  <2> SUFFICES ASSUME IsPrefix(p, t.place[n]), p # t.place[n] PROVE p \in Places(t)
    BY <1>1, NodesAndPlaces
  <2>1. CASE n = 0
    <3>1. IsPrefix(p, <<>>)
      BY <1>1, <2>1 DEF Root
    <3>2. p = <<>>
      BY <3>1, PrefixOrder, EmptySeq DEF PlaceSet
    <3> QED BY <3>2, NodesAndPlaces
  <2>2. CASE n # 0
    <3>1. PICK m \in 0 .. n - 1, a \in Alternatives : t.place[n] = Append(t.place[m], a)
      BY <1>1, <2>2
    <3>2. m \in NodesOf(t) /\ m \in S
      BY <1>1, <1>2
    <3>3. t.place[m] \in PlaceSet
      BY <3>2, NodesAndPlaces
    <3>4. IsPrefix(p, t.place[m])
      BY <3>1, <3>3, AppendIs
    <3> QED BY <3>2, <3>4
  <2> QED BY <2>1, <2>2
<1>3. 0 .. c - 1 \subseteq S
  <2> HIDE DEF S
  <2>1. c \in Nat
    BY <1>1
  <2> QED BY <1>2, <2>1, StrongInduction
<1>4. At(t, q) \in 0 .. c - 1 /\ t.place[At(t, q)] = q
  BY <1>1, NodesAndPlaces
<1> QED BY <1>3, <1>4

LEMMA ParentThere ==
  ASSUME NEW t, Grown(t), NEW p \in PlaceSet, NEW a \in Alternatives, Append(p, a) \in Places(t)
  PROVE  p \in Places(t)
BY AppendIs, PlacesAbove

\* The children of a node are counted by their places.
LEMMA Children ==
  ASSUME NEW t, Grown(t), NEW n \in NodesOf(t)
  PROVE  Has(t, t.place[n], ChildrenCount(t, n))
<1>1. PICK k \in Nat : Has(t, t.place[n], k)
  BY NumberOfNodes DEF GrownTo, Ordered
<1> DEFINE p == t.place[n]
           K == {q \in Places(t) : q # <<>> /\ Front(q) = p}
           f == [a \in 1 .. k |-> Append(p, a)]
<1>2. p \in PlaceSet
  BY NodesAndPlaces
<1>3. ASSUME NEW a \in 1 .. k PROVE a \in Alternatives /\ Append(p, a) \in K
  <2>1. a \in Alternatives
    BY DEF Alternatives
  <2>2. Append(p, a) \in Places(t)
    BY <1>1, <2>1 DEF Has
  <2> QED BY <1>2, <2>1, <2>2, AppendIs
<1>4. ASSUME NEW q \in K PROVE \E a \in 1 .. k : q = Append(p, a)
  <2>1. q \in PlaceSet /\ q # <<>> /\ Front(q) = p /\ q \in Places(t)
    BY NodesAndPlaces
  <2>2. Last(q) \in Alternatives /\ q = Append(p, Last(q))
    BY <2>1, FrontIs
  <2>3. Last(q) <= k
    BY <1>1, <2>1, <2>2 DEF Has
  <2> QED BY <2>2, <2>3 DEF Alternatives
<1>5. f \in Bijection(1 .. k, K)
  <2>1. f \in [1 .. k -> K]
    BY <1>3
  <2>2. \A a, b \in 1 .. k : f[a] = f[b] => a = b
    BY <1>2, <1>3, AppendSame
  <2>3. \A q \in K : \E a \in 1 .. k : f[a] = q
    BY <1>4
  <2> HIDE DEF f, K
  <2> QED BY <2>1, <2>2, <2>3 DEF Bijection, Injection, Surjection, IsInjective
<1>6. Cardinality(K) = k
  <2> HIDE DEF f, K
  <2> QED BY <1>5, FS_CountingElements DEF ExistsBijection
<1>7. ChildrenCount(t, n) = k
  BY <1>6 DEF ChildrenCount
<1> QED BY <1>1, <1>7

LEMMA HasOne ==
  ASSUME NEW t, NEW p, NEW k, NEW j, Has(t, p, k), Has(t, p, j)
  PROVE  k = j
<1>1. k \in Nat /\ j \in Nat /\ \A a \in Alternatives : a <= k <=> a <= j
  BY DEF Has
<1>2. k # 0 => k \in Alternatives
  BY <1>1 DEF Alternatives
<1>3. j # 0 => j \in Alternatives
  BY <1>1 DEF Alternatives
<1> QED BY <1>1, <1>2, <1>3

LEMMA ChildThere ==
  ASSUME NEW t, Grown(t), NEW n \in NodesOf(t)
  PROVE  /\ ChildrenCount(t, n) \in Nat
         /\ \A a \in Alternatives :
              a <= ChildrenCount(t, n) <=> Append(t.place[n], a) \in Places(t)
         /\ \A a \in 1 .. ChildrenCount(t, n) :
              Child(t, n, a) \in NodesOf(t) /\ t.place[Child(t, n, a)] = Append(t.place[n], a)
         /\ ChildrenCount(t, n) # 0 => t.status[n] \in {"BRANCH", "MERGED"}
<1>1. Has(t, t.place[n], ChildrenCount(t, n))
  BY Children
<1>2. ChildrenCount(t, n) \in Nat
  BY <1>1 DEF Has
<1>3. \A a \in 1 .. ChildrenCount(t, n) : a \in Alternatives
  BY <1>2 DEF Alternatives
<1>4. PICK k \in Nat : Has(t, t.place[n], k) /\ (k > 0 => t.status[n] \in {"BRANCH", "MERGED"})
  BY NumberOfNodes DEF GrownTo, Ordered
<1>5. k = ChildrenCount(t, n)
  BY <1>1, <1>4, HasOne
<1>6. \A a \in Alternatives : a <= ChildrenCount(t, n) <=> Append(t.place[n], a) \in Places(t)
  BY <1>1 DEF Has
<1>7. ASSUME NEW a \in 1 .. ChildrenCount(t, n)
      PROVE  Child(t, n, a) \in NodesOf(t) /\ t.place[Child(t, n, a)] = Append(t.place[n], a)
  <2>1. a \in Alternatives /\ a <= ChildrenCount(t, n)
    BY <1>2, <1>3
  <2>2. Append(t.place[n], a) \in Places(t)
    BY <1>6, <2>1
  <2> QED BY <2>2, NodesAndPlaces DEF Child
<1>8. ChildrenCount(t, n) # 0 => t.status[n] \in {"BRANCH", "MERGED"}
  BY <1>2, <1>4, <1>5
<1> QED BY <1>2, <1>6, <1>7, <1>8

-----------------------------------------------------------------------------
(* A node is promoted *)

\* t2 has the nodes of t where they were.
Keeps(t, t2) ==
  NodesOf(t) \subseteq NodesOf(t2) /\ \A m \in NodesOf(t) : t2.place[m] = t.place[m]

\* t2 is t with k children below what is at p, which now has status st.
Sprouts(t, p, k, st, t2) ==
  /\ Grown(t2) /\ Keeps(t, t2)
  /\ Places(t2) = Places(t) \cup {Append(p, a) : a \in 1 .. k}
  /\ \A m \in NodesOf(t) : t2.status[m] = IF t.place[m] = p THEN st ELSE t.status[m]
  /\ \A q \in Places(t) : StatusAt(t2, q) = IF q = p THEN st ELSE StatusAt(t, q)
  /\ \A q \in Places(t2) \ Places(t) : StatusAt(t2, q) = "UNDETERMINED" /\ Has(t2, q, 0)
  /\ Has(t2, p, k)
  /\ \A q \in Places(t) \ {p} : \A j : Has(t2, q, j) <=> Has(t, q, j)

LEMMA KeptPlaces ==
  ASSUME NEW t, NEW t2, Grown(t), Grown(t2), Keeps(t, t2)
  PROVE  Places(t) \subseteq Places(t2) /\ \A p \in Places(t) : At(t2, p) = At(t, p)
<1>1. ASSUME NEW p \in Places(t) PROVE p \in Places(t2) /\ At(t2, p) = At(t, p)
  <2>1. At(t, p) \in NodesOf(t) /\ t.place[At(t, p)] = p
    BY NodesAndPlaces
  <2>2. At(t, p) \in NodesOf(t2) /\ t2.place[At(t, p)] = p
    BY <2>1 DEF Keeps
  <2> QED BY <2>2, NodesAndPlaces
<1> QED BY <1>1

\* The nodes promoteNode adds.
PromotedTo(t, n, k, st, t2, c) ==
  /\ NodesOf(t) = 0 .. c - 1 /\ GrownTo(t, c)
  /\ DOMAIN t2.status = 0 .. c + k - 1 /\ DOMAIN t2.place = 0 .. c + k - 1
  /\ \A m \in 0 .. c - 1 : /\ t2.place[m] = t.place[m]
                           /\ t2.status[m] = IF m = n THEN st ELSE t.status[m]
  /\ \A a \in 1 .. k : /\ t2.place[c + a - 1] = Append(t.place[n], a)
                       /\ t2.status[c + a - 1] = "UNDETERMINED"

LEMMA PromotedNodes ==
  ASSUME NEW t, Grown(t), NEW n \in NodesOf(t), NEW k \in Nat, NEW st,
         NEW t2, t2 = Promoted(t, n, k, st)
  PROVE  \E c \in Nat \ {0} : PromotedTo(t, n, k, st, t2, c)
<1>0. PICK c : c = CountOf(t)
  OBVIOUS
<1> DEFINE N == 0 .. c + k - 1
           ids == c .. c + k - 1
           place == [i \in N |-> IF i \in ids THEN Append(t.place[n], i - c + 1) ELSE t.place[i]]
           status == [i \in N |-> IF i = n THEN st ELSE IF i \in ids THEN "UNDETERMINED" ELSE t.status[i]]
<1>1. c \in Nat \ {0} /\ NodesOf(t) = 0 .. c - 1 /\ GrownTo(t, c)
  BY <1>0, NumberOfNodes
<1>2. NodesOf(t) \cup ids = N
  BY <1>1
<1>3. t2 = [place |-> place, status |-> status]
  BY <1>0, <1>2 DEF Promoted
<1>4. t2.place = place /\ t2.status = status
  BY <1>3
<1>5. ASSUME NEW m \in 0 .. c - 1
      PROVE  m \in N /\ m \notin ids
  BY <1>1
<1>6. ASSUME NEW a \in 1 .. k
      PROVE  c + a - 1 \in ids /\ c + a - 1 \in N /\ c + a - 1 # n /\ (c + a - 1) - c + 1 = a
  BY <1>1
<1> HIDE DEF N, ids
<1>7. \A m \in 0 .. c - 1 : /\ t2.place[m] = t.place[m]
                            /\ t2.status[m] = IF m = n THEN st ELSE t.status[m]
  BY <1>4, <1>5
<1>8. \A a \in 1 .. k : /\ t2.place[c + a - 1] = Append(t.place[n], a)
                        /\ t2.status[c + a - 1] = "UNDETERMINED"
  BY <1>4, <1>6
<1>9. DOMAIN t2.status = N /\ DOMAIN t2.place = N
  BY <1>4
<1> QED BY <1>1, <1>7, <1>8, <1>9 DEF N, PromotedTo

LEMMA PromotedIs ==
  ASSUME NEW t, Grown(t), NEW n \in NodesOf(t), NEW p, p = t.place[n], Has(t, p, 0),
         NEW k \in Nat, NEW st \in TreeStatuses, k > 0 => st \in {"BRANCH", "MERGED"},
         NEW t2, t2 = Promoted(t, n, k, st)
  PROVE  Sprouts(t, p, k, st, t2)
<1> DEFINE New == {Append(p, a) : a \in 1 .. k}
<1>0. PICK c \in Nat \ {0} : PromotedTo(t, n, k, st, t2, c)
  BY PromotedNodes
<1>1. /\ c \in Nat \ {0} /\ NodesOf(t) = 0 .. c - 1 /\ GrownTo(t, c)
      /\ DOMAIN t2.status = 0 .. c + k - 1 /\ DOMAIN t2.place = 0 .. c + k - 1
      /\ \A m \in 0 .. c - 1 : /\ t2.place[m] = t.place[m]
                               /\ t2.status[m] = IF m = n THEN st ELSE t.status[m]
      /\ \A a \in 1 .. k : /\ t2.place[c + a - 1] = Append(p, a)
                           /\ t2.status[c + a - 1] = "UNDETERMINED"
  BY <1>0 DEF PromotedTo
<1>2. p \in PlaceSet /\ p \in Places(t)
  BY NodesAndPlaces
<1>3. ASSUME NEW a \in 1 .. k
      PROVE  /\ a \in Alternatives /\ Append(p, a) \in PlaceSet /\ Append(p, a) \notin Places(t)
             /\ c + a - 1 \in 0 .. c + k - 1 /\ c + a - 1 \notin 0 .. c - 1
  <2>1. a \in Alternatives /\ ~(a <= 0)
    BY DEF Alternatives
  <2>2. Append(p, a) \notin Places(t)
    BY <2>1 DEF Has
  <2> QED BY <1>1, <1>2, <2>1, <2>2, AppendIs
<1>4. ASSUME NEW m \in 0 .. c + k - 1, m \notin 0 .. c - 1
      PROVE  \E a \in 1 .. k : m = c + a - 1
  <2>1. m - c + 1 \in 1 .. k /\ m = c + (m - c + 1) - 1
    BY <1>1, <1>4
  <2> QED BY <2>1
<1>5. /\ \A m \in 0 .. c - 1 : m \in 0 .. c + k - 1
      /\ n \in 0 .. c - 1 /\ 0 \in 0 .. c - 1
  <2>1. c \in Nat \ {0} /\ NodesOf(t) = 0 .. c - 1
    BY <1>1
  <2> QED BY <2>1
<1>6. NodesOf(t2) = 0 .. c + k - 1
  BY <1>1 DEF NodesOf
<1>7. Places(t2) = Places(t) \cup New
  <2>1. ASSUME NEW q \in Places(t2) PROVE q \in Places(t) \cup New
    <3>1. PICK m \in 0 .. c + k - 1 : q = t2.place[m]
      BY <1>6 DEF Places
    <3>2. CASE m \in 0 .. c - 1
      BY <1>1, <3>1, <3>2 DEF Places
    <3>3. CASE m \notin 0 .. c - 1
      <4>1. PICK a \in 1 .. k : m = c + a - 1
        BY <1>4, <3>3
      <4> QED BY <1>1, <3>1, <4>1
    <3> QED BY <3>2, <3>3
  <2>2. ASSUME NEW q \in Places(t) PROVE q \in Places(t2)
    <3>1. PICK m \in 0 .. c - 1 : q = t.place[m]
      BY <1>1 DEF Places
    <3> QED BY <1>1, <1>5, <1>6, <3>1 DEF Places
  <2>3. ASSUME NEW a \in 1 .. k PROVE Append(p, a) \in Places(t2)
    BY <1>1, <1>3, <1>6 DEF Places
  <2> QED BY <2>1, <2>2, <2>3
<1>8. ASSUME NEW q \in Places(t) \ {p}, NEW a \in Alternatives
      PROVE  Append(q, a) \in Places(t2) <=> Append(q, a) \in Places(t)
  <2>1. q \in PlaceSet
    BY NodesAndPlaces
  <2>2. ASSUME NEW b \in 1 .. k PROVE Append(q, a) # Append(p, b)
    <3>1. b \in Alternatives
      BY <1>3
    <3> QED BY <1>2, <2>1, <3>1, AppendSame
  <2> QED BY <1>7, <2>2
<1>9. \A q \in Places(t) \ {p} : \A j : Has(t2, q, j) <=> Has(t, q, j)
  BY <1>8 DEF Has
<1>10. Has(t2, p, k)
  <2>1. ASSUME NEW a \in Alternatives PROVE Append(p, a) \in Places(t2) <=> a <= k
    <3>1. Append(p, a) \notin Places(t)
      BY DEF Has, Alternatives
    <3>2. (\E b \in 1 .. k : Append(p, a) = Append(p, b)) <=> a \in 1 .. k
      BY <1>2, <1>3, AppendSame
    <3>3. a \in 1 .. k <=> a <= k
      BY DEF Alternatives
    <3> QED BY <1>7, <3>1, <3>2, <3>3
  <2> QED BY <2>1 DEF Has
<1>11. ASSUME NEW b \in 1 .. k
       PROVE  Has(t2, Append(p, b), 0)
  <2>1. ASSUME NEW a \in Alternatives PROVE Append(Append(p, b), a) \notin Places(t2)
    <3>1. Append(p, b) \in PlaceSet /\ Append(p, b) \notin Places(t)
      BY <1>3
    <3>2. Append(Append(p, b), a) \notin Places(t)
      BY <3>1, ParentThere
    <3>3. ASSUME NEW x \in 1 .. k PROVE Append(Append(p, b), a) # Append(p, x)
      <4>1. b \in Alternatives /\ x \in Alternatives
        BY <1>3
      <4>2. Append(p, b) # p
        BY <1>2, <4>1, AppendIs
      <4> QED BY <1>2, <3>1, <4>1, <4>2, AppendSame
    <3> QED BY <1>7, <3>2, <3>3
  <2>2. \A a \in Alternatives : ~(a <= 0)
    BY DEF Alternatives
  <2> QED BY <2>1, <2>2 DEF Has
<1>12. GrownTo(t2, c + k)
  <2>1. \A m \in 0 .. c + k - 1 : t2.place[m] \in PlaceSet /\ t2.status[m] \in TreeStatuses
    <3> SUFFICES ASSUME NEW m \in 0 .. c + k - 1
                 PROVE  t2.place[m] \in PlaceSet /\ t2.status[m] \in TreeStatuses
      OBVIOUS
    <3>1. CASE m \in 0 .. c - 1
      BY <1>1, <3>1 DEF GrownTo
    <3>2. CASE m \notin 0 .. c - 1
      <4>1. \E a \in 1 .. k : t2.place[m] = Append(p, a) /\ t2.status[m] = "UNDETERMINED"
        BY <1>1, <1>4, <3>2
      <4> QED BY <1>3, <4>1 DEF TreeStatuses, SourceStatuses
    <3> QED BY <3>1, <3>2
  <2>2. t2.place[Root] = <<>>
    BY <1>1, <1>5 DEF GrownTo, Root
  <2>3. ASSUME NEW m \in 1 .. c + k - 1
        PROVE  ComesLater(t2, m)
    <3>1. CASE m \in 1 .. c - 1
      <4>1. PICK x \in 0 .. m - 1, a \in Alternatives : t.place[m] = Append(t.place[x], a)
        BY <1>1, <3>1 DEF GrownTo, ComesLater
      <4>2. x \in 0 .. c - 1 /\ m \in 0 .. c - 1
        BY <1>1, <3>1
      <4>3. t2.place[x] = t.place[x] /\ t2.place[m] = t.place[m]
        BY <1>1, <4>2
      <4> QED BY <4>1, <4>3 DEF ComesLater
    <3>2. CASE m \notin 1 .. c - 1
      <4>1. m \in 0 .. c + k - 1 /\ m \notin 0 .. c - 1 /\ n \in 0 .. m - 1
        BY <1>1, <1>5, <3>2
      <4>2. \E a \in 1 .. k : t2.place[m] = Append(p, a)
        BY <1>1, <1>4, <4>1
      <4>3. t2.place[n] = p
        BY <1>1, <1>5
      <4> QED BY <1>3, <4>1, <4>2, <4>3 DEF ComesLater
    <3> QED BY <3>1, <3>2
  <2>4. ASSUME NEW x \in 0 .. c + k - 1, NEW y \in 0 .. c + k - 1, t2.place[x] = t2.place[y]
        PROVE  x = y
    <3>1. CASE x \in 0 .. c - 1 /\ y \in 0 .. c - 1
      BY <1>1, <2>4, <3>1 DEF GrownTo
    <3>2. CASE x \in 0 .. c - 1 /\ y \notin 0 .. c - 1
      <4>1. t2.place[x] \in Places(t)
        BY <1>1, <3>2 DEF Places
      <4>2. \E a \in 1 .. k : t2.place[y] = Append(p, a)
        BY <1>1, <1>4, <3>2
      <4> QED BY <1>3, <2>4, <4>1, <4>2
    <3>3. CASE x \notin 0 .. c - 1 /\ y \in 0 .. c - 1
      <4>1. t2.place[y] \in Places(t)
        BY <1>1, <3>3 DEF Places
      <4>2. \E a \in 1 .. k : t2.place[x] = Append(p, a)
        BY <1>1, <1>4, <3>3
      <4> QED BY <1>3, <2>4, <4>1, <4>2
    <3>4. CASE x \notin 0 .. c - 1 /\ y \notin 0 .. c - 1
      <4>1. PICK a \in 1 .. k : x = c + a - 1 /\ t2.place[x] = Append(p, a)
        BY <1>1, <1>4, <3>4
      <4>2. PICK b \in 1 .. k : y = c + b - 1 /\ t2.place[y] = Append(p, b)
        BY <1>1, <1>4, <3>4
      <4>3. a \in Alternatives /\ b \in Alternatives
        BY <1>3
      <4>4. a = b
        BY <1>2, <2>4, <4>1, <4>2, <4>3, AppendSame
      <4> QED BY <4>1, <4>2, <4>4
    <3> QED BY <3>1, <3>2, <3>3, <3>4
  <2>5. ASSUME NEW m \in 0 .. c + k - 1
        PROVE  Ordered(t2, m)
    <3>1. CASE m = n
      <4>1. t2.place[m] = p /\ t2.status[m] = st
        BY <1>1, <1>5, <3>1
      <4> QED BY <1>10, <4>1 DEF Ordered
    <3>2. CASE m \in 0 .. c - 1 /\ m # n
      <4>1. PICK j \in Nat : Has(t, t.place[m], j) /\ (j > 0 => t.status[m] \in {"BRANCH", "MERGED"})
        BY <1>1, <3>2 DEF GrownTo, Ordered
      <4>2. t.place[m] \in Places(t) /\ t.place[m] # p
        BY <1>1, <1>5, <3>2 DEF GrownTo, Places
      <4>3. Has(t2, t.place[m], j)
        BY <1>9, <4>1, <4>2
      <4> QED BY <1>1, <3>2, <4>1, <4>3 DEF Ordered
    <3>3. CASE m \notin 0 .. c - 1
      <4>1. \E a \in 1 .. k : t2.place[m] = Append(p, a)
        BY <1>1, <1>4, <3>3
      <4>2. Has(t2, t2.place[m], 0) /\ ~(0 > 0) /\ 0 \in Nat
        BY <1>11, <4>1
      <4> QED BY <4>2 DEF Ordered
    <3> QED BY <3>1, <3>2, <3>3
  <2>6. DOMAIN t2.status = 0 .. c + k - 1 /\ DOMAIN t2.place = 0 .. c + k - 1
    BY <1>1
  <2>7. \A x, y \in 0 .. c + k - 1 : t2.place[x] = t2.place[y] => x = y
    BY <2>4
  <2>8. \A m \in 0 .. c + k - 1 : Ordered(t2, m)
    BY <2>5
  <2>9. \A m \in 1 .. c + k - 1 : ComesLater(t2, m)
    BY <2>3
  <2> QED BY <2>1, <2>2, <2>6, <2>7, <2>8, <2>9 DEF GrownTo
<1>13. Grown(t2)
  <2>1. c + k \in Nat \ {0}
    BY <1>1
  <2> QED BY <1>12, <2>1 DEF Grown
<1>14. Keeps(t, t2)
  BY <1>1, <1>5, <1>6 DEF Keeps
<1>15. \A m \in NodesOf(t) : t2.status[m] = IF t.place[m] = p THEN st ELSE t.status[m]
  BY <1>1 DEF GrownTo
<1>16. ASSUME NEW q \in Places(t)
       PROVE  StatusAt(t2, q) = IF q = p THEN st ELSE StatusAt(t, q)
  <2>1. At(t, q) \in NodesOf(t) /\ t.place[At(t, q)] = q /\ StatusAt(t, q) = t.status[At(t, q)]
    BY NodesAndPlaces
  <2>2. At(t2, q) = At(t, q)
    BY <1>13, <1>14, KeptPlaces
  <2> QED BY <1>15, <2>1, <2>2 DEF StatusAt
<1>17. ASSUME NEW q \in Places(t2) \ Places(t)
       PROVE  StatusAt(t2, q) = "UNDETERMINED" /\ Has(t2, q, 0)
  <2>1. PICK a \in 1 .. k : q = Append(p, a)
    BY <1>7
  <2>2. c + a - 1 \in NodesOf(t2) /\ t2.place[c + a - 1] = q /\ t2.status[c + a - 1] = "UNDETERMINED"
    BY <1>1, <1>3, <1>6, <2>1
  <2>3. StatusAt(t2, q) = "UNDETERMINED"
    BY <1>13, <2>2, NodesAndPlaces
  <2> QED BY <1>11, <2>1, <2>3
<1> QED BY <1>7, <1>9, <1>10, <1>13, <1>14, <1>15, <1>16, <1>17 DEF Sprouts

-----------------------------------------------------------------------------
(* The order in which copy_tree_into visits the nodes *)

\* p and q part at i, where p goes further to the right.
RightAt(p, q, i) ==
  /\ i \in 1 .. Len(p) /\ i \in 1 .. Len(q) /\ p[i] > q[i]
  /\ \A j \in 1 .. i - 1 : p[j] = q[j]

LEMMA VisitedBeforeIs ==
  ASSUME NEW p \in PlaceSet, NEW q \in PlaceSet
  PROVE  VisitedBefore(p, q) <=> (p # q /\ IsPrefix(p, q)) \/ \E i \in Nat : RightAt(p, q, i)
<1>1. /\ Len(p) \in Nat /\ Len(q) \in Nat /\ DOMAIN p = 1 .. Len(p) /\ DOMAIN q = 1 .. Len(q)
      /\ \A i \in 1 .. Len(p) : p[i] \in Alternatives
      /\ \A i \in 1 .. Len(q) : q[i] \in Alternatives
  BY LenProperties, ElementOfSeq DEF PlaceSet
<1>2. ASSUME NEW i \in 1 .. Len(p), i \in 1 .. Len(q)
      PROVE  SubSeq(p, 1, i - 1) = SubSeq(q, 1, i - 1) <=> \A j \in 1 .. i - 1 : p[j] = q[j]
  <2> DEFINE u == SubSeq(p, 1, i - 1)
             v == SubSeq(q, 1, i - 1)
  <2>1. i \in Nat /\ i - 1 \in Int /\ (\A j \in 1 .. i - 1 : j \in 1 .. Len(p) /\ j \in 1 .. Len(q))
    BY <1>1, <1>2
  <2>2. /\ u \in PlaceSet /\ Len(u) = IF 1 <= i - 1 THEN (i - 1) - 1 + 1 ELSE 0
        /\ \A j \in 1 .. (i - 1) - 1 + 1 : u[j] = p[1 + j - 1]
    <3>1. \A j \in 1 .. i - 1 : p[j] \in Alternatives
      BY <1>1, <2>1
    <3> QED BY <2>1, <3>1, SubSeqProperties DEF PlaceSet
  <2>3. /\ v \in PlaceSet /\ Len(v) = IF 1 <= i - 1 THEN (i - 1) - 1 + 1 ELSE 0
        /\ \A j \in 1 .. (i - 1) - 1 + 1 : v[j] = q[1 + j - 1]
    <3>1. \A j \in 1 .. i - 1 : q[j] \in Alternatives
      BY <1>1, <2>1
    <3> QED BY <2>1, <3>1, SubSeqProperties DEF PlaceSet
  <2> HIDE DEF u, v
  <2>4. Len(u) = i - 1 /\ Len(v) = i - 1
    BY <2>1, <2>2, <2>3
  <2>5. \A j \in 1 .. i - 1 : u[j] = p[j] /\ v[j] = q[j]
    BY <2>1, <2>2, <2>3
  <2>6. (\A j \in 1 .. i - 1 : p[j] = q[j]) => u = v
    BY <2>2, <2>3, <2>4, <2>5, SamePlace
  <2>7. u = v => \A j \in 1 .. i - 1 : p[j] = q[j]
    BY <2>5
  <2> QED BY <2>6, <2>7 DEF u, v
<1>3. ASSUME NEW i \in DOMAIN p \cap DOMAIN q, p[i] > q[i],
             SubSeq(p, 1, i - 1) = SubSeq(q, 1, i - 1)
      PROVE  i \in Nat /\ RightAt(p, q, i)
  BY <1>1, <1>2, <1>3 DEF RightAt
<1>4. ASSUME NEW i \in Nat, RightAt(p, q, i)
      PROVE  i \in DOMAIN p \cap DOMAIN q /\ p[i] > q[i] /\ SubSeq(p, 1, i - 1) = SubSeq(q, 1, i - 1)
  BY <1>1, <1>2, <1>4 DEF RightAt
<1> QED BY <1>3, <1>4 DEF VisitedBefore

\* No place is visited before itself, and of two places one is visited first.
LEMMA VisitedOrder ==
  /\ \A p \in PlaceSet : ~VisitedBefore(p, p)
  /\ \A p, q \in PlaceSet : p = q \/ VisitedBefore(p, q) \/ VisitedBefore(q, p)
  /\ \A p, q, s \in PlaceSet : VisitedBefore(p, q) /\ VisitedBefore(q, s) => VisitedBefore(p, s)
  /\ \A p, q \in PlaceSet : p # q /\ IsPrefix(p, q) => VisitedBefore(p, q)
<1>1. ASSUME NEW p \in PlaceSet
      PROVE  /\ Len(p) \in Nat
             /\ \A i \in 1 .. Len(p) : p[i] \in Nat
  BY LenProperties, ElementOfSeq DEF PlaceSet, Alternatives
<1>2. ASSUME NEW p \in PlaceSet PROVE ~VisitedBefore(p, p)
  <2>1. \A i \in 1 .. Len(p) : ~(p[i] > p[i])
    BY <1>1
  <2> QED BY <2>1, VisitedBeforeIs DEF RightAt
<1>3. ASSUME NEW p \in PlaceSet, NEW q \in PlaceSet, p # q, IsPrefix(p, q)
      PROVE  VisitedBefore(p, q)
  BY <1>3, VisitedBeforeIs
<1>4. ASSUME NEW p \in PlaceSet, NEW q \in PlaceSet, p # q
      PROVE  VisitedBefore(p, q) \/ VisitedBefore(q, p)
  <2> DEFINE X == {i \in Nat : i \in 1 .. Len(p) /\ i \in 1 .. Len(q) /\ p[i] # q[i]}
  <2>0. Len(p) \in Nat /\ Len(q) \in Nat
    BY <1>1
  <2>1. CASE X = {}
    <3>1. \A i \in 1 .. Len(p) : i \in 1 .. Len(q) => p[i] = q[i]
      <4> SUFFICES ASSUME NEW i \in 1 .. Len(p), i \in 1 .. Len(q), p[i] # q[i] PROVE FALSE
        OBVIOUS
      <4>1. i \in Nat
        BY <2>0
      <4> QED BY <2>1, <4>1
    <3>2. IsPrefix(p, q) \/ IsPrefix(q, p)
      <4>1. CASE Len(p) <= Len(q)
        <5>1. \A i \in 1 .. Len(p) : i \in 1 .. Len(q)
          BY <2>0, <4>1
        <5> QED BY <3>1, <4>1, <5>1, PrefixIs
      <4>2. CASE Len(q) <= Len(p)
        <5>1. \A i \in 1 .. Len(q) : i \in 1 .. Len(p)
          BY <2>0, <4>2
        <5> QED BY <3>1, <4>2, <5>1, PrefixIs
      <4> QED BY <2>0, <4>1, <4>2
    <3> QED BY <1>3, <1>4, <3>2
  <2>2. CASE X # {}
    <3>1. PICK i \in X : \A x \in X : i <= x
      <4>1. X \subseteq Nat
        OBVIOUS
      <4> HIDE DEF X
      <4> QED BY <2>2, <4>1, LeastNumber
    <3>2. i \in Nat /\ i \in 1 .. Len(p) /\ i \in 1 .. Len(q) /\ p[i] # q[i]
      OBVIOUS
    <3>3. \A j \in 1 .. i - 1 : p[j] = q[j]
      <4> SUFFICES ASSUME NEW j \in 1 .. i - 1, p[j] # q[j] PROVE FALSE
        OBVIOUS
      <4>1. j \in Nat /\ j \in 1 .. Len(p) /\ j \in 1 .. Len(q) /\ ~(i <= j)
        BY <2>0, <3>2
      <4> QED BY <3>1, <4>1
    <3>4. p[i] \in Nat /\ q[i] \in Nat
      BY <1>1, <3>2
    <3>5. RightAt(p, q, i) \/ RightAt(q, p, i)
      BY <3>2, <3>3, <3>4 DEF RightAt
    <3> QED BY <3>2, <3>5, VisitedBeforeIs
  <2> QED BY <2>1, <2>2
<1>5. ASSUME NEW p \in PlaceSet, NEW q \in PlaceSet, NEW s \in PlaceSet,
             VisitedBefore(p, q), VisitedBefore(q, s)
      PROVE  VisitedBefore(p, s)
  <2>0. /\ Len(p) \in Nat /\ Len(q) \in Nat /\ Len(s) \in Nat
        /\ \A i \in 1 .. Len(p) : p[i] \in Nat
        /\ \A i \in 1 .. Len(q) : q[i] \in Nat
        /\ \A i \in 1 .. Len(s) : s[i] \in Nat
    BY <1>1
  <2>1. CASE p # q /\ IsPrefix(p, q) /\ q # s /\ IsPrefix(q, s)
    <3>1. IsPrefix(p, s) /\ p # s
      BY <2>1, PrefixOrder
    <3> QED BY <1>3, <3>1
  <2>2. ASSUME p # q /\ IsPrefix(p, q), NEW i \in Nat, RightAt(q, s, i)
        PROVE  VisitedBefore(p, s)
    <3>1. Len(p) <= Len(q) /\ \A j \in 1 .. Len(p) : p[j] = q[j]
      BY <2>2, PrefixIs
    <3>2. CASE i <= Len(p)
      <4>1. RightAt(p, s, i)
        BY <2>0, <2>2, <3>1, <3>2 DEF RightAt
      <4> QED BY <4>1, VisitedBeforeIs
    <3>3. CASE ~(i <= Len(p))
      <4>1. Len(p) < Len(s) /\ \A j \in 1 .. Len(p) : p[j] = s[j]
        BY <2>0, <2>2, <3>1, <3>3 DEF RightAt
      <4>2. IsPrefix(p, s) /\ p # s
        BY <2>0, <4>1, PrefixIs
      <4> QED BY <1>3, <4>2
    <3> QED BY <3>2, <3>3
  <2>3. ASSUME NEW i \in Nat, RightAt(p, q, i), q # s /\ IsPrefix(q, s)
        PROVE  VisitedBefore(p, s)
    <3>1. Len(q) <= Len(s) /\ \A j \in 1 .. Len(q) : q[j] = s[j]
      BY <2>3, PrefixIs
    <3>2. RightAt(p, s, i)
      BY <2>0, <2>3, <3>1 DEF RightAt
    <3> QED BY <3>2, VisitedBeforeIs
  <2>4. ASSUME NEW i \in Nat, RightAt(p, q, i), NEW k \in Nat, RightAt(q, s, k)
        PROVE  VisitedBefore(p, s)
    <3>1. CASE i < k
      <4>1. RightAt(p, s, i)
        BY <2>0, <2>4, <3>1 DEF RightAt
      <4> QED BY <4>1, VisitedBeforeIs
    <3>2. CASE i = k
      <4>1. RightAt(p, s, i)
        BY <2>0, <2>4, <3>2 DEF RightAt
      <4> QED BY <4>1, VisitedBeforeIs
    <3>3. CASE k < i
      <4>1. RightAt(p, s, k)
        BY <2>0, <2>4, <3>3 DEF RightAt
      <4> QED BY <4>1, VisitedBeforeIs
    <3> QED BY <3>1, <3>2, <3>3
  <2>5. (p # q /\ IsPrefix(p, q)) \/ \E i \in Nat : RightAt(p, q, i)
    BY <1>5, VisitedBeforeIs
  <2>6. (q # s /\ IsPrefix(q, s)) \/ \E i \in Nat : RightAt(q, s, i)
    BY <1>5, VisitedBeforeIs
  <2> QED BY <2>1, <2>2, <2>3, <2>4, <2>5, <2>6
<1> QED BY <1>2, <1>3, <1>4, <1>5

LEMMA CopyOrderIs ==
  ASSUME NEW t, Grown(t), NEW n \in NodesOf(t), NEW s, s = CopyOrder(t, n)
  PROVE  /\ Len(s) \in Nat /\ DOMAIN s = 1 .. Len(s)
         /\ \A i \in 1 .. Len(s) : s[i] \in Below(t, n)
         /\ \A m \in Below(t, n) : \E i \in 1 .. Len(s) : s[i] = m
         /\ \A i, j \in 1 .. Len(s) : VisitedBefore(t.place[s[i]], t.place[s[j]]) <=> i < j
<1> DEFINE B == Below(t, n)
           c == Cardinality(B)
           R == {x \in B \X B : VisitedBefore(t.place[x[1]], t.place[x[2]])}
           Rank(m) == Cardinality({k \in B : VisitedBefore(t.place[k], t.place[m])})
<1>1. B \subseteq NodesOf(t) /\ IsFiniteSet(B)
  <2>1. B \in SUBSET NodesOf(t)
    BY DEF Below
  <2> HIDE DEF B
  <2> QED BY <2>1, FS_Subset, NumberOfNodes
<1>2. \A m \in B : t.place[m] \in PlaceSet
  BY <1>1, NodesAndPlaces
<1>3. \A m, k \in B : t.place[m] = t.place[k] => m = k
  BY <1>1, NodesAndPlaces
<1>4. s = [i \in 1 .. c |-> CHOOSE m \in B : Rank(m) = i - 1]
  BY DEF CopyOrder
<1> HIDE DEF B
<1>5. \A x, y \in B : <<x, y>> \in R <=> VisitedBefore(t.place[x], t.place[y])
  OBVIOUS
<1>6. ASSUME NEW m \in B PROVE Rank(m) = Cardinality({k \in B : <<k, m>> \in R})
  <2>1. {k \in B : VisitedBefore(t.place[k], t.place[m])} = {k \in B : <<k, m>> \in R}
    BY <1>5
  <2> QED BY <2>1
<1>7. c \in Nat
  BY <1>1, FS_CardinalityType
<1> HIDE DEF R, Rank
<1>8. ByRank(s, B, R)
  <2> HIDE DEF c
  <2>1. ASSUME NEW i \in 1 .. c, NEW m \in B, Rank(m) = i - 1
        PROVE  s[i] \in B /\ Rank(s[i]) = i - 1
    <3>1. s[i] = CHOOSE x \in B : Rank(x) = i - 1
      BY <1>4
    <3> QED BY <2>1, <3>1
  <2>2. DOMAIN s = 1 .. c
    BY <1>4
  <2> QED BY <1>6, <2>1, <2>2 DEF ByRank, c
<1>9. /\ \A x \in B : <<x, x>> \notin R
      /\ \A x, y \in B : x = y \/ <<x, y>> \in R \/ <<y, x>> \in R
      /\ \A x, y, z \in B : <<x, y>> \in R /\ <<y, z>> \in R => <<x, z>> \in R
  BY <1>2, <1>3, <1>5, VisitedOrder
<1>10. InRow(s, B, R)
  BY <1>1, <1>8, <1>9, Ranking
<1>11. DOMAIN s = 1 .. c /\ s \in Seq(B)
  <2>1. s \in [1 .. c -> B]
    BY <1>4, <1>8, <1>10 DEF InRow, ByRank
  <2> QED BY <1>7, <2>1, SeqDef
<1>12. Len(s) = c
  <2>1. Len(s) \in Nat /\ DOMAIN s = 1 .. Len(s)
    BY <1>11, LenProperties
  <2> QED BY <1>7, <1>11, <2>1
<1>13. \A i, j \in 1 .. c : s[i] \in B /\ (VisitedBefore(t.place[s[i]], t.place[s[j]]) <=> i < j)
  BY <1>5, <1>10, <1>11 DEF InRow
<1> QED BY <1>7, <1>10, <1>11, <1>12, <1>13 DEF InRow, B

-----------------------------------------------------------------------------
(* What is below q, below p instead *)

Graft(p, q, s) == p \o SubSeq(s, Len(q) + 1, Len(s))

LEMMA GraftIs ==
  ASSUME NEW p \in PlaceSet, NEW q \in PlaceSet, NEW s \in PlaceSet, IsPrefix(q, s)
  PROVE  /\ Graft(p, q, s) \in PlaceSet /\ IsPrefix(p, Graft(p, q, s))
         /\ Len(Graft(p, q, s)) = Len(p) + (Len(s) - Len(q))
         /\ \A i \in Len(q) + 1 .. Len(s) : Graft(p, q, s)[Len(p) + (i - Len(q))] = s[i]
<1>1. /\ Len(p) \in Nat /\ Len(q) \in Nat /\ Len(s) \in Nat
      /\ \A i \in 1 .. Len(s) : s[i] \in Alternatives
  BY LenProperties, ElementOfSeq DEF PlaceSet
<1>2. Len(q) <= Len(s)
  BY PrefixIs
<1> DEFINE u == SubSeq(s, Len(q) + 1, Len(s))
           d == Len(s) - Len(q)
           g == p \o u
<1>3. u \in PlaceSet /\ Len(u) = d /\ \A i \in 1 .. d : u[i] = s[Len(q) + i]
  <2>1. \A i \in Len(q) + 1 .. Len(s) : s[i] \in Alternatives
    BY <1>1
  <2>2. /\ u \in Seq(Alternatives)
        /\ Len(u) = IF Len(q) + 1 <= Len(s) THEN Len(s) - (Len(q) + 1) + 1 ELSE 0
        /\ \A i \in 1 .. Len(s) - (Len(q) + 1) + 1 : u[i] = s[(Len(q) + 1) + i - 1]
    <3>1. Len(q) + 1 \in Int /\ Len(s) \in Int
      BY <1>1
    <3> QED BY <2>1, <3>1, SubSeqProperties
  <2> HIDE DEF u
  <2>3. (IF Len(q) + 1 <= Len(s) THEN Len(s) - (Len(q) + 1) + 1 ELSE 0) = d
    BY <1>1, <1>2
  <2>4. \A i \in 1 .. d : i \in 1 .. Len(s) - (Len(q) + 1) + 1 /\ (Len(q) + 1) + i - 1 = Len(q) + i
    BY <1>1, <1>2
  <2>5. \A i \in 1 .. d : u[i] = s[Len(q) + i]
    BY <2>2, <2>4
  <2> QED BY <2>2, <2>3, <2>5 DEF PlaceSet
<1>4. d \in Nat
  BY <1>1, <1>2
<1> HIDE DEF u
<1>5. /\ g \in PlaceSet /\ Len(g) = Len(p) + d
      /\ \A i \in 1 .. Len(p) + d : g[i] = IF i <= Len(p) THEN p[i] ELSE u[i - Len(p)]
  <2>1. /\ p \o u \in PlaceSet /\ Len(p \o u) = Len(p) + Len(u)
        /\ \A i \in 1 .. Len(p) + Len(u) : (p \o u)[i] = IF i <= Len(p) THEN p[i] ELSE u[i - Len(p)]
    BY <1>3, ConcatProperties DEF PlaceSet
  <2> QED BY <1>3, <2>1
<1> HIDE DEF g
<1>6. IsPrefix(p, g)
  <2>1. Len(p) <= Len(g) /\ \A i \in 1 .. Len(p) : p[i] = g[i]
    BY <1>1, <1>4, <1>5
  <2> QED BY <1>5, <2>1, PrefixIs
<1>7. \A i \in Len(q) + 1 .. Len(s) : g[Len(p) + (i - Len(q))] = s[i]
  <2> SUFFICES ASSUME NEW i \in Len(q) + 1 .. Len(s) PROVE g[Len(p) + (i - Len(q))] = s[i]
    OBVIOUS
  <2> DEFINE k == Len(p) + (i - Len(q))
             j == i - Len(q)
  <2>1. k \in 1 .. Len(p) + d /\ ~(k <= Len(p)) /\ k - Len(p) = j /\ j \in 1 .. d /\ Len(q) + j = i
    BY <1>1, <1>2
  <2>2. g[k] = u[j] /\ u[j] = s[Len(q) + j]
    BY <1>3, <1>5, <2>1
  <2> QED BY <2>1, <2>2
<1> QED BY <1>5, <1>6, <1>7 DEF g, u, Graft

\* Nothing and a child, grafted.
LEMMA GraftSelf ==
  ASSUME NEW p \in PlaceSet, NEW q \in PlaceSet
  PROVE  Graft(p, q, q) = p
<1>1. Len(q) \in Nat /\ Len(p) \in Nat
  BY PrefixIs
<1>2. IsPrefix(q, q)
  BY PrefixOrder
<1> DEFINE g == Graft(p, q, q)
<1>3. g \in PlaceSet /\ IsPrefix(p, g) /\ Len(g) = Len(p) + (Len(q) - Len(q))
  BY <1>2, GraftIs
<1> HIDE DEF g
<1>4. Len(g) = Len(p)
  BY <1>1, <1>3
<1>5. \A i \in 1 .. Len(p) : p[i] = g[i]
  BY <1>3, PrefixIs
<1> QED BY <1>3, <1>4, <1>5, SamePlace DEF g

LEMMA GraftAppend ==
  ASSUME NEW p \in PlaceSet, NEW q \in PlaceSet, NEW s \in PlaceSet, IsPrefix(q, s),
         NEW a \in Alternatives
  PROVE  Graft(p, q, Append(s, a)) = Append(Graft(p, q, s), a)
<1> DEFINE sa == Append(s, a)
           g == Graft(p, q, s)
           h == Graft(p, q, sa)
           ga == Append(g, a)
<1>1. /\ sa \in PlaceSet /\ Len(sa) = Len(s) + 1 /\ sa[Len(s) + 1] = a
      /\ \A i \in 1 .. Len(s) : sa[i] = s[i]
      /\ IsPrefix(q, sa)
  <2>1. sa \in PlaceSet /\ IsPrefix(s, sa)
    BY AppendIs
  <2>2. IsPrefix(q, sa)
    BY <2>1, PrefixOrder
  <2> QED BY <2>1, <2>2, AppendProperties DEF PlaceSet
<1>2. Len(p) \in Nat /\ Len(q) \in Nat /\ Len(s) \in Nat /\ Len(q) <= Len(s)
  BY PrefixIs
<1>3. /\ g \in PlaceSet /\ IsPrefix(p, g) /\ Len(g) = Len(p) + (Len(s) - Len(q))
      /\ \A i \in Len(q) + 1 .. Len(s) : g[Len(p) + (i - Len(q))] = s[i]
  BY GraftIs
<1> HIDE DEF sa, g
<1>4. /\ h \in PlaceSet /\ IsPrefix(p, h) /\ Len(h) = Len(p) + (Len(sa) - Len(q))
      /\ \A i \in Len(q) + 1 .. Len(sa) : h[Len(p) + (i - Len(q))] = sa[i]
  BY <1>1, GraftIs
<1> HIDE DEF h
<1>5. /\ ga \in PlaceSet /\ Len(ga) = Len(g) + 1 /\ ga[Len(g) + 1] = a
      /\ \A i \in 1 .. Len(g) : ga[i] = g[i]
  BY <1>3, AppendProperties DEF PlaceSet
<1> HIDE DEF ga
<1>6. Len(h) = Len(ga)
  BY <1>1, <1>2, <1>3, <1>4, <1>5
<1>7. ASSUME NEW i \in 1 .. Len(h) PROVE h[i] = ga[i]
  <2>1. CASE i <= Len(p)
    <3>1. h[i] = p[i] /\ g[i] = p[i] /\ i \in 1 .. Len(g)
      <4>1. i \in 1 .. Len(p)
        BY <1>2, <2>1, <1>4, <1>1
      <4>2. h[i] = p[i]
        BY <1>4, <4>1, PrefixIs
      <4>3. g[i] = p[i]
        BY <1>3, <4>1, PrefixIs
      <4>4. i \in 1 .. Len(g)
        BY <1>2, <1>3, <4>1
      <4> QED BY <4>2, <4>3, <4>4
    <3> QED BY <1>5, <3>1
  <2>2. CASE ~(i <= Len(p))
    <3> DEFINE j == i - Len(p) + Len(q)
    <3>1. j \in Len(q) + 1 .. Len(sa) /\ Len(p) + (j - Len(q)) = i
      BY <1>1, <1>2, <1>4, <2>2
    <3>2. h[i] = sa[j]
      BY <1>4, <3>1
    <3>3. CASE j = Len(s) + 1
      <4>1. i = Len(g) + 1
        BY <1>2, <1>3, <3>1, <3>3
      <4> QED BY <1>1, <1>5, <3>2, <3>3, <4>1
    <3>4. CASE j # Len(s) + 1
      <4>1. j \in Len(q) + 1 .. Len(s) /\ j \in 1 .. Len(s) /\ i \in 1 .. Len(g)
        BY <1>1, <1>2, <1>3, <3>1, <3>4
      <4>2. g[i] = s[j] /\ sa[j] = s[j]
        BY <1>1, <1>3, <3>1, <4>1
      <4> QED BY <1>5, <3>2, <4>1, <4>2
    <3> QED BY <3>3, <3>4
  <2> QED BY <2>1, <2>2
<1>8. h = ga
  BY <1>4, <1>5, <1>6, <1>7, SamePlace
<1> QED BY <1>8 DEF h, ga, g, sa

LEMMA GraftSame ==
  ASSUME NEW p \in PlaceSet, NEW q \in PlaceSet,
         NEW s \in PlaceSet, IsPrefix(q, s), NEW v \in PlaceSet, IsPrefix(q, v),
         Graft(p, q, s) = Graft(p, q, v)
  PROVE  s = v
<1> DEFINE g == Graft(p, q, s)
<1>1. /\ Len(p) \in Nat /\ Len(q) \in Nat /\ Len(s) \in Nat /\ Len(v) \in Nat
      /\ Len(q) <= Len(s) /\ \A i \in 1 .. Len(q) : q[i] = s[i]
      /\ Len(q) <= Len(v) /\ \A i \in 1 .. Len(q) : q[i] = v[i]
  BY PrefixIs
<1>2. /\ Len(g) = Len(p) + (Len(s) - Len(q))
      /\ \A i \in Len(q) + 1 .. Len(s) : g[Len(p) + (i - Len(q))] = s[i]
  BY GraftIs
<1>3. /\ Len(g) = Len(p) + (Len(v) - Len(q))
      /\ \A i \in Len(q) + 1 .. Len(v) : g[Len(p) + (i - Len(q))] = v[i]
  <2>1. g = Graft(p, q, v)
    OBVIOUS
  <2> HIDE DEF g
  <2>2. /\ Len(Graft(p, q, v)) = Len(p) + (Len(v) - Len(q))
        /\ \A i \in Len(q) + 1 .. Len(v) : Graft(p, q, v)[Len(p) + (i - Len(q))] = v[i]
    BY GraftIs
  <2> QED BY <2>1, <2>2
<1> HIDE DEF g
<1>4. Len(s) = Len(v)
  BY <1>1, <1>2, <1>3
<1>5. \A i \in 1 .. Len(s) : s[i] = v[i]
  <2> SUFFICES ASSUME NEW i \in 1 .. Len(s) PROVE s[i] = v[i]
    OBVIOUS
  <2>1. CASE i <= Len(q)
    BY <1>1, <2>1
  <2>2. CASE ~(i <= Len(q))
    <3>1. i \in Len(q) + 1 .. Len(s) /\ i \in Len(q) + 1 .. Len(v)
      BY <1>1, <1>4, <2>2
    <3> QED BY <1>2, <1>3, <3>1
  <2> QED BY <2>1, <2>2
<1> QED BY <1>4, <1>5, SamePlace

-----------------------------------------------------------------------------
(* NodeStats *)

Count(t, st) == Cardinality({n \in NodesOf(t) : t.status[n] = st})

LEMMA WithElement ==
  ASSUME NEW S, IsFiniteSet(S), NEW n, n \notin S, NEW b \in BOOLEAN
  PROVE  /\ IsFiniteSet(S \cup {m \in {n} : b})
         /\ Cardinality(S \cup {m \in {n} : b}) = Cardinality(S) + (IF b THEN 1 ELSE 0)
<1>1. CASE b
  <2>1. {m \in {n} : b} = {n}
    BY <1>1
  <2>2. IsFiniteSet(S \cup {n}) /\ Cardinality(S \cup {n}) = Cardinality(S) + 1
    BY FS_AddElement
  <2> QED BY <1>1, <2>1, <2>2
<1>2. CASE ~b
  <2>1. S \cup {m \in {n} : b} = S
    BY <1>2
  <2>2. Cardinality(S) \in Nat
    BY FS_CardinalityType
  <2>3. Cardinality(S) + 0 = Cardinality(S)
    BY <2>2
  <2> QED BY <1>2, <2>1, <2>3
<1> QED BY <1>1, <1>2

\* What promoting a node does to the number of nodes of a status.
LEMMA PromotedCount ==
  ASSUME NEW t, Grown(t), NEW n \in NodesOf(t), NEW k \in Nat, NEW st,
         NEW t2, t2 = Promoted(t, n, k, st), NEW x
  PROVE  /\ Count(t, x) \in Int
         /\ Count(t2, x) = Count(t, x) - (IF t.status[n] = x THEN 1 ELSE 0)
                             + (IF st = x THEN 1 ELSE 0)
                             + (IF x = "UNDETERMINED" THEN k ELSE 0)
<1>1. PICK c \in Nat \ {0} : PromotedTo(t, n, k, st, t2, c)
  BY PromotedNodes
<1> DEFINE M == {m \in 0 .. c - 1 : m # n /\ t.status[m] = x}
           ids == c .. c + k - 1
           isWas == t.status[n] = x
           isNow == st = x
           Was == M \cup {m \in {n} : isWas}
           Now == M \cup {m \in {n} : isNow}
           N2 == {m \in NodesOf(t2) : t2.status[m] = x}
<1>2. /\ NodesOf(t) = 0 .. c - 1 /\ NodesOf(t2) = 0 .. c + k - 1 /\ n \in 0 .. c - 1
      /\ \A m \in 0 .. c - 1 : t2.status[m] = IF m = n THEN st ELSE t.status[m]
  BY <1>1 DEF PromotedTo, NodesOf
<1>3. /\ \A m : m \in 0 .. c + k - 1 <=> m \in 0 .. c - 1 \/ m \in ids
      /\ \A m \in ids : m \notin 0 .. c - 1
  BY <1>1
<1>4. \A m \in ids : t2.status[m] = "UNDETERMINED"
  <2> SUFFICES ASSUME NEW m \in ids PROVE t2.status[m] = "UNDETERMINED"
    OBVIOUS
  <2>1. m - c + 1 \in 1 .. k /\ c + (m - c + 1) - 1 = m
    BY <1>1
  <2>2. \A a \in 1 .. k : t2.status[c + a - 1] = "UNDETERMINED"
    BY <1>1 DEF PromotedTo
  <2> HIDE DEF ids
  <2> QED BY <2>1, <2>2
<1>5. IsFiniteSet(M) /\ Cardinality(M) \in Nat
  <2>1. M \in SUBSET NodesOf(t)
    BY <1>2
  <2> HIDE DEF M
  <2>2. IsFiniteSet(M)
    BY <2>1, FS_Subset, NumberOfNodes
  <2> QED BY <2>2, FS_CardinalityType
<1>6. IsFiniteSet(ids) /\ Cardinality(ids) = k
  <2>1. c \in Int /\ c + k - 1 \in Int /\ (IF c > c + k - 1 THEN 0 ELSE (c + k - 1) - c + 1) = k
    BY <1>1
  <2>2. IsFiniteSet(ids) /\ Cardinality(ids) = IF c > c + k - 1 THEN 0 ELSE (c + k - 1) - c + 1
    BY <2>1, FS_Interval
  <2> QED BY <2>1, <2>2
<1>7. {m \in NodesOf(t) : t.status[m] = x} = Was
  BY <1>2
<1>8. x # "UNDETERMINED" => N2 = Now
  BY <1>2, <1>3, <1>4
<1>9. x = "UNDETERMINED" => N2 = Now \cup ids
  BY <1>2, <1>3, <1>4
<1>10. Now \cap ids = {}
  BY <1>2, <1>3
<1>11. isWas \in BOOLEAN /\ isNow \in BOOLEAN /\ n \notin M
  OBVIOUS
<1> HIDE DEF M, ids, isWas, isNow, N2
<1>12. /\ Cardinality(Was) = Cardinality(M) + (IF isWas THEN 1 ELSE 0)
       /\ IsFiniteSet(Now) /\ Cardinality(Now) = Cardinality(M) + (IF isNow THEN 1 ELSE 0)
  BY <1>5, <1>11, WithElement
<1> HIDE DEF Was, Now
<1>13. Cardinality(Now \cup ids) = Cardinality(Now) + k
  <2>1. Cardinality(Now \cup ids) = Cardinality(Now) + Cardinality(ids) - Cardinality(Now \cap ids)
    BY <1>6, <1>12, FS_Union
  <2>2. Cardinality(Now \cap ids) = 0
    BY <1>10, FS_EmptySet
  <2> QED BY <1>5, <1>6, <1>12, <2>1, <2>2
<1>14. Cardinality(N2) = Cardinality(Now) + (IF x = "UNDETERMINED" THEN k ELSE 0)
  <2>1. CASE x = "UNDETERMINED"
    BY <1>9, <1>13, <2>1
  <2>2. CASE x # "UNDETERMINED"
    BY <1>5, <1>8, <1>12, <2>2
  <2> QED BY <2>1, <2>2
<1>15. Count(t, x) = Cardinality(Was) /\ Count(t2, x) = Cardinality(N2)
  BY <1>7 DEF Count, N2
<1>16. (isWas <=> t.status[n] = x) /\ (isNow <=> st = x)
  BY DEF isWas, isNow
<1> QED BY <1>5, <1>12, <1>14, <1>15, <1>16

\* The statistics are those of the tree, but for b branches and u undetermined
\* nodes.
Counts(res, b, u) ==
  res.stats = [branch |-> Count(res.tree, "BRANCH") + b, failed |-> Count(res.tree, "FAILED"),
               solved |-> Count(res.tree, "SOLVED"), skipped |-> Count(res.tree, "SKIPPED"),
               undet |-> Count(res.tree, "UNDETERMINED") + u]

LEMMA StatsKept ==
  ASSUME NEW res, Grown(res.tree), NEW n \in NodesOf(res.tree),
         res.tree.status[n] = "UNDETERMINED", NEW k \in Nat, NEW st \in TreeStatuses,
         NEW b \in Int, NEW u \in Int, Counts(res, b, u)
  PROVE  Counts(Promote(res, n, k, st), b, u)
<1> DEFINE t == res.tree
           t2 == Promoted(t, n, k, st)
           one(x) == IF st = x THEN 1 ELSE 0
<1>1. \A x : /\ Count(t, x) \in Int
             /\ Count(t2, x) = Count(t, x) - (IF t.status[n] = x THEN 1 ELSE 0) + one(x)
                                 + (IF x = "UNDETERMINED" THEN k ELSE 0)
  BY PromotedCount
<1> HIDE DEF t2
<1>2. \A x \in {"BRANCH", "FAILED", "SOLVED", "SKIPPED"} :
        Count(t, x) \in Int /\ Count(t2, x) = Count(t, x) + one(x)
  BY <1>1
<1>3. /\ Count(t, "UNDETERMINED") \in Int
      /\ Count(t2, "UNDETERMINED") = Count(t, "UNDETERMINED") - 1 + one("UNDETERMINED") + k
  BY <1>1
<1>4. Promote(res, n, k, st) = [tree |-> t2, stats |-> StatsAfter(res.stats, k, st)]
  BY DEF Promote, t2
<1>5. StatsAfter(res.stats, k, st) =
        [branch |-> Count(t2, "BRANCH") + b, failed |-> Count(t2, "FAILED"),
         solved |-> Count(t2, "SOLVED"), skipped |-> Count(t2, "SKIPPED"),
         undet |-> Count(t2, "UNDETERMINED") + u]
  <2>1. /\ res.stats.branch = Count(t, "BRANCH") + b /\ res.stats.failed = Count(t, "FAILED")
        /\ res.stats.solved = Count(t, "SOLVED") /\ res.stats.skipped = Count(t, "SKIPPED")
        /\ res.stats.undet = Count(t, "UNDETERMINED") + u
    BY DEF Counts
  <2>2. StatsAfter(res.stats, k, st) =
          [branch |-> res.stats.branch + one("BRANCH"), failed |-> res.stats.failed + one("FAILED"),
           solved |-> res.stats.solved + one("SOLVED"), skipped |-> res.stats.skipped + one("SKIPPED"),
           undet |-> res.stats.undet + k - 1 + one("UNDETERMINED")]
    BY DEF StatsAfter
  <2>3. \A x : one(x) \in Int
    OBVIOUS
  <2> HIDE DEF one, t
  <2>4. /\ res.stats.branch + one("BRANCH") = Count(t2, "BRANCH") + b
        /\ res.stats.failed + one("FAILED") = Count(t2, "FAILED")
        /\ res.stats.solved + one("SOLVED") = Count(t2, "SOLVED")
        /\ res.stats.skipped + one("SKIPPED") = Count(t2, "SKIPPED")
        /\ res.stats.undet + k - 1 + one("UNDETERMINED") = Count(t2, "UNDETERMINED") + u
    BY <1>2, <1>3, <2>1, <2>3
  <2> QED BY <2>2, <2>4
<1> QED BY <1>4, <1>5 DEF Counts

\* The root is counted as a branch before it is promoted to one.
LEMMA StatsOfRoot ==
  ASSUME NEW res, Grown(res.tree), NEW n \in NodesOf(res.tree),
         res.tree.status[n] = "BRANCH", NEW k \in Nat, Counts(res, 0, 0)
  PROVE  Counts(Promote(res, n, k, "BRANCH"), 1, -1)
<1> DEFINE t == res.tree
           t2 == Promoted(t, n, k, "BRANCH")
<1>1. \A x : /\ Count(t, x) \in Int
             /\ Count(t2, x) = Count(t, x) - (IF t.status[n] = x THEN 1 ELSE 0)
                                 + (IF "BRANCH" = x THEN 1 ELSE 0)
                                 + (IF x = "UNDETERMINED" THEN k ELSE 0)
  BY PromotedCount
<1> HIDE DEF t2
<1>2. \A x \in {"BRANCH", "FAILED", "SOLVED", "SKIPPED"} :
        Count(t, x) \in Int /\ Count(t2, x) = Count(t, x)
  BY <1>1
<1>3. /\ Count(t, "UNDETERMINED") \in Int
      /\ Count(t2, "UNDETERMINED") = Count(t, "UNDETERMINED") + k
  BY <1>1
<1>4. Promote(res, n, k, "BRANCH") = [tree |-> t2, stats |-> StatsAfter(res.stats, k, "BRANCH")]
  BY DEF Promote, t2
<1>5. StatsAfter(res.stats, k, "BRANCH") =
        [branch |-> Count(t2, "BRANCH") + 1, failed |-> Count(t2, "FAILED"),
         solved |-> Count(t2, "SOLVED"), skipped |-> Count(t2, "SKIPPED"),
         undet |-> Count(t2, "UNDETERMINED") + -1]
  <2>1. /\ res.stats.branch = Count(t, "BRANCH") + 0 /\ res.stats.failed = Count(t, "FAILED")
        /\ res.stats.solved = Count(t, "SOLVED") /\ res.stats.skipped = Count(t, "SKIPPED")
        /\ res.stats.undet = Count(t, "UNDETERMINED") + 0
    BY DEF Counts
  <2>2. StatsAfter(res.stats, k, "BRANCH") =
          [branch |-> res.stats.branch + 1, failed |-> res.stats.failed + 0,
           solved |-> res.stats.solved + 0, skipped |-> res.stats.skipped + 0,
           undet |-> res.stats.undet + k - 1 + 0]
    BY DEF StatsAfter
  <2> HIDE DEF t
  <2>3. /\ res.stats.branch + 1 = Count(t2, "BRANCH") + 1
        /\ res.stats.failed + 0 = Count(t2, "FAILED")
        /\ res.stats.solved + 0 = Count(t2, "SOLVED")
        /\ res.stats.skipped + 0 = Count(t2, "SKIPPED")
        /\ res.stats.undet + k - 1 + 0 = Count(t2, "UNDETERMINED") + -1
    BY <1>2, <1>3, <2>1
  <2> QED BY <2>2, <2>3
<1> QED BY <1>4, <1>5 DEF Counts

-----------------------------------------------------------------------------
(* A subtree is copied *)

\* Nothing of the tree is below a place that has no children.
LEMMA NothingBelow ==
  ASSUME NEW t, Grown(t), NEW p \in Places(t), Has(t, p, 0), NEW q \in Places(t), IsPrefix(p, q)
  PROVE  q = p
<1>1. p \in PlaceSet /\ q \in PlaceSet
  BY NodesAndPlaces
<1> SUFFICES ASSUME p # q PROVE FALSE
  OBVIOUS
<1>2. q[Len(p) + 1] \in Alternatives /\ IsPrefix(Append(p, q[Len(p) + 1]), q)
  BY <1>1, StepDown
<1>3. PICK a \in Alternatives : a = q[Len(p) + 1]
  BY <1>2
<1>4. Append(p, a) \in PlaceSet
  BY <1>1, AppendIs
<1>5. Append(p, a) \in Places(t)
  BY <1>2, <1>3, <1>4, PlacesAbove
<1>6. a <= 0
  BY <1>5 DEF Has
<1> QED BY <1>6 DEF Alternatives

\* The places of src below q that have been created when those in D were visited.
Reached(src, q, D) == {x \in PlacesBelow(src, q) : x = q \/ Front(x) \in D}

\* r has been extended to res by what is below q in src, of which D was visited,
\* below p.
CopiedSoFar(r, p, src, q, D, res) ==
  /\ Grown(res.tree) /\ Keeps(r.tree, res.tree)
  /\ D \subseteq Reached(src, q, D)
  /\ Places(res.tree) = Places(r.tree) \cup {Graft(p, q, x) : x \in Reached(src, q, D)}
  /\ \A x \in D : StatusAt(res.tree, Graft(p, q, x)) = StatusAt(src, x)
  /\ \A x \in Reached(src, q, D) \ D :
       StatusAt(res.tree, Graft(p, q, x)) = "UNDETERMINED" /\ Has(res.tree, Graft(p, q, x), 0)
  /\ \A y \in Places(r.tree) \ {p} :
       StatusAt(res.tree, y) = StatusAt(r.tree, y) /\ \A k : Has(res.tree, y, k) <=> Has(r.tree, y, k)
  /\ \A b, u \in Int : Counts(r, b, u) => Counts(res, b, u)

LEMMA CopyStarts ==
  ASSUME NEW r, Grown(r.tree), NEW p \in Places(r.tree), Has(r.tree, p, 0),
         StatusAt(r.tree, p) = "UNDETERMINED",
         NEW src, Grown(src), NEW q \in Places(src)
  PROVE  CopiedSoFar(r, p, src, q, {}, r)
<1>1. p \in PlaceSet /\ q \in PlaceSet
  BY NodesAndPlaces
<1>2. Reached(src, q, {}) = {q}
  BY <1>1, PrefixOrder DEF Reached, PlacesBelow
<1>3. Graft(p, q, q) = p
  BY <1>1, GraftSelf
<1>4. {Graft(p, q, x) : x \in Reached(src, q, {})} = {p}
  BY <1>2, <1>3
<1>5. Keeps(r.tree, r.tree)
  BY DEF Keeps
<1>6. \A x \in Reached(src, q, {}) \ {} :
        StatusAt(r.tree, Graft(p, q, x)) = "UNDETERMINED" /\ Has(r.tree, Graft(p, q, x), 0)
  BY <1>2, <1>3
<1>7. Places(r.tree) = Places(r.tree) \cup {Graft(p, q, x) : x \in Reached(src, q, {})}
  BY <1>4
<1> HIDE DEF Counts
<1> QED BY <1>5, <1>6, <1>7 DEF CopiedSoFar

LEMMA CopyGoesOn ==
  ASSUME NEW r, Grown(r.tree), NEW p \in Places(r.tree), Has(r.tree, p, 0),
         NEW src, Grown(src), NEW q \in Places(src),
         NEW D, NEW res, CopiedSoFar(r, p, src, q, D, res),
         NEW x \in Reached(src, q, D), x \notin D,
         NEW n \in NodesOf(src), src.place[n] = x,
         NEW res2, res2 = Promote(res, At(res.tree, Graft(p, q, x)),
                                  ChildrenCount(src, n), src.status[n])
  PROVE  CopiedSoFar(r, p, src, q, D \cup {x}, res2)
<1> DEFINE g == Graft(p, q, x)
           m == At(res.tree, g)
           k == ChildrenCount(src, n)
           st == src.status[n]
           t == res.tree
           t2 == res2.tree
           E == D \cup {x}
<1>1. /\ p \in PlaceSet /\ q \in PlaceSet /\ x \in PlaceSet /\ x \in Places(src) /\ IsPrefix(q, x)
      /\ \A y \in Places(src) : y \in PlaceSet
      /\ st \in TreeStatuses /\ StatusAt(src, x) = st
  BY NodesAndPlaces DEF Reached, PlacesBelow
<1>2. /\ Grown(t) /\ Keeps(r.tree, t) /\ D \subseteq Reached(src, q, D)
      /\ Places(t) = Places(r.tree) \cup {Graft(p, q, y) : y \in Reached(src, q, D)}
      /\ StatusAt(t, g) = "UNDETERMINED" /\ Has(t, g, 0)
  BY DEF CopiedSoFar
<1>3. g \in Places(t)
  BY <1>2
<1>4. m \in NodesOf(t) /\ t.place[m] = g /\ t.status[m] = "UNDETERMINED"
  <2> HIDE DEF g
  <2> QED BY <1>2, <1>3, NodesAndPlaces
<1>5. k \in Nat /\ (k > 0 => st \in {"BRANCH", "MERGED"})
  BY ChildThere
<1>6. t2 = Promoted(t, m, k, st)
  BY DEF Promote
<1>7. Sprouts(t, g, k, st, t2)
  <2> HIDE DEF g, m, k, st, t, t2
  <2> QED BY <1>1, <1>2, <1>4, <1>5, <1>6, PromotedIs
<1>8. /\ Grown(t2) /\ Keeps(t, t2)
      /\ Places(t2) = Places(t) \cup {Append(g, a) : a \in 1 .. k}
      /\ \A y \in Places(t) : StatusAt(t2, y) = IF y = g THEN st ELSE StatusAt(t, y)
      /\ \A y \in Places(t2) \ Places(t) : StatusAt(t2, y) = "UNDETERMINED" /\ Has(t2, y, 0)
      /\ \A y \in Places(t) \ {g} : \A j : Has(t2, y, j) <=> Has(t, y, j)
  <2> HIDE DEF g, m, k, st, t, t2
  <2> QED BY <1>7 DEF Sprouts
<1>9. \A a \in 1 .. k : /\ a \in Alternatives
                        /\ Append(x, a) \in PlacesBelow(src, q) /\ Append(x, a) # x
                        /\ Front(Append(x, a)) = x
                        /\ Append(g, a) = Graft(p, q, Append(x, a))
                        /\ Append(g, a) \notin Places(t)
  <2> SUFFICES ASSUME NEW a \in 1 .. k
               PROVE  /\ a \in Alternatives
                      /\ Append(x, a) \in PlacesBelow(src, q) /\ Append(x, a) # x
                      /\ Front(Append(x, a)) = x
                      /\ Append(g, a) = Graft(p, q, Append(x, a))
                      /\ Append(g, a) \notin Places(t)
    OBVIOUS
  <2>1. a \in Alternatives
    BY <1>5 DEF Alternatives
  <2>2. /\ Append(x, a) \in PlaceSet /\ Append(x, a) # x /\ Front(Append(x, a)) = x
        /\ IsPrefix(x, Append(x, a))
    BY <1>1, <2>1, AppendIs
  <2>3. Append(x, a) \in Places(src)
    <3> a <= k /\ src.place[n] = x
      BY <1>5
    <3> QED BY <2>1, ChildThere
  <2>4. IsPrefix(q, Append(x, a))
    BY <1>1, <2>2, PrefixOrder
  <2>5. Append(g, a) = Graft(p, q, Append(x, a))
    BY <1>1, <2>1, GraftAppend
  <2>6. Append(g, a) \notin Places(t)
    <3> HIDE DEF g
    <3> QED BY <1>2, <2>1 DEF Has, Alternatives
  <2> QED BY <2>1, <2>2, <2>3, <2>4, <2>5, <2>6 DEF PlacesBelow
<1>10. Reached(src, q, E) = Reached(src, q, D) \cup {Append(x, a) : a \in 1 .. k}
  <2>1. ASSUME NEW y \in Reached(src, q, E), y \notin Reached(src, q, D)
        PROVE  y \in {Append(x, a) : a \in 1 .. k}
    <3>1. y \in Places(src) /\ y \in PlaceSet /\ y # q /\ Front(y) = x /\ IsPrefix(q, y)
      BY <1>1, <2>1 DEF Reached, PlacesBelow
    <3>2. y # <<>>
      <4>1. SUFFICES ASSUME y = <<>> PROVE FALSE
        OBVIOUS
      <4>2. IsPrefix(y, q) /\ IsPrefix(q, y)
        BY <1>1, <3>1, <4>1, PrefixOrder
      <4> QED BY <1>1, <3>1, <4>2, PrefixOrder
    <3>3. PICK a \in Alternatives : a = Last(y) /\ Append(x, a) = y
      BY <3>1, <3>2, FrontIs
    <3>4. a <= k
      <4> src.place[n] = x
        OBVIOUS
      <4> QED BY <3>1, <3>3, ChildThere
    <3>5. a \in 1 .. k
      BY <1>5, <3>4 DEF Alternatives
    <3> QED BY <3>3, <3>5
  <2>2. Reached(src, q, D) \subseteq Reached(src, q, E)
    BY DEF Reached
  <2>3. {Append(x, a) : a \in 1 .. k} \subseteq Reached(src, q, E)
    BY <1>9 DEF Reached
  <2> QED BY <2>1, <2>2, <2>3
<1>11. \A y \in Reached(src, q, D) : y # x => Graft(p, q, y) # g /\ Graft(p, q, y) \in Places(t)
  <2> SUFFICES ASSUME NEW y \in Reached(src, q, D), y # x
               PROVE  Graft(p, q, y) # g /\ Graft(p, q, y) \in Places(t)
    OBVIOUS
  <2>1. y \in PlaceSet /\ IsPrefix(q, y)
    BY <1>1 DEF Reached, PlacesBelow
  <2> QED BY <1>1, <1>2, <2>1, GraftSame
<1>12. \A y \in Places(r.tree) \ {p} : y # g /\ y \in Places(t)
  <2> SUFFICES ASSUME NEW y \in Places(r.tree) \ {p}
               PROVE  y # g /\ y \in Places(t)
    OBVIOUS
  <2>1. IsPrefix(p, g)
    BY <1>1, GraftIs
  <2>2. y # g
    BY <2>1, NothingBelow
  <2> QED BY <1>2, <2>2
<1>13. Keeps(r.tree, t2)
  <2> HIDE DEF t, t2
  <2> QED BY <1>2, <1>8 DEF Keeps
<1>14. E \subseteq Reached(src, q, E)
  BY <1>2, <1>10
<1>15. Places(t2) = Places(r.tree) \cup {Graft(p, q, y) : y \in Reached(src, q, E)}
  <2>1. {Append(g, a) : a \in 1 .. k} = {Graft(p, q, Append(x, a)) : a \in 1 .. k}
    BY <1>9
  <2>2. {Graft(p, q, y) : y \in Reached(src, q, E)}
          = {Graft(p, q, y) : y \in Reached(src, q, D)} \cup {Graft(p, q, Append(x, a)) : a \in 1 .. k}
    BY <1>10
  <2> HIDE DEF g, k, t, t2, E
  <2> QED BY <1>2, <1>8, <2>1, <2>2
<1>16. \A y \in E : StatusAt(t2, Graft(p, q, y)) = StatusAt(src, y)
  <2>1. \A y \in D : StatusAt(t, Graft(p, q, y)) = StatusAt(src, y)
    BY DEF CopiedSoFar
  <2>2. StatusAt(t2, g) = StatusAt(src, x)
    BY <1>1, <1>3, <1>8
  <2>3. ASSUME NEW y \in D PROVE StatusAt(t2, Graft(p, q, y)) = StatusAt(src, y)
    <3>1. y \in Reached(src, q, D) /\ y # x
      BY <1>2
    <3>2. Graft(p, q, y) # g /\ Graft(p, q, y) \in Places(t)
      BY <1>11, <3>1
    <3>3. StatusAt(t2, Graft(p, q, y)) = StatusAt(t, Graft(p, q, y))
      <4> HIDE DEF g, t, t2, st
      <4> QED BY <1>8, <3>2
    <3> QED BY <2>1, <3>3
  <2> QED BY <2>2, <2>3
<1>17. ASSUME NEW y \in Reached(src, q, E) \ E
       PROVE  StatusAt(t2, Graft(p, q, y)) = "UNDETERMINED" /\ Has(t2, Graft(p, q, y), 0)
  <2>1. CASE y \in Reached(src, q, D)
    <3>1. y # x /\ y \notin D
      BY <1>17
    <3>2. Graft(p, q, y) # g /\ Graft(p, q, y) \in Places(t)
      BY <1>11, <2>1, <3>1
    <3>3. StatusAt(t, Graft(p, q, y)) = "UNDETERMINED" /\ Has(t, Graft(p, q, y), 0)
      BY <2>1, <3>1 DEF CopiedSoFar
    <3> HIDE DEF g, t, t2, st
    <3> QED BY <1>8, <3>2, <3>3
  <2>2. CASE y \notin Reached(src, q, D)
    <3>1. PICK a \in 1 .. k : y = Append(x, a)
      BY <1>10, <1>17, <2>2
    <3>2. Graft(p, q, y) = Append(g, a) /\ Append(g, a) \notin Places(t)
      BY <1>9, <3>1
    <3>3. Append(g, a) \in Places(t2) \ Places(t)
      <4> HIDE DEF g, t, t2, k
      <4> QED BY <1>8, <3>1, <3>2
    <3>4. StatusAt(t2, Append(g, a)) = "UNDETERMINED" /\ Has(t2, Append(g, a), 0)
      <4> HIDE DEF g, t, t2, k
      <4> QED BY <1>8, <3>3
    <3> QED BY <3>2, <3>4
  <2> QED BY <2>1, <2>2
<1>18. \A y \in Places(r.tree) \ {p} :
         StatusAt(t2, y) = StatusAt(r.tree, y) /\ \A j : Has(t2, y, j) <=> Has(r.tree, y, j)
  <2> SUFFICES ASSUME NEW y \in Places(r.tree) \ {p}
               PROVE  /\ StatusAt(t2, y) = StatusAt(r.tree, y)
                      /\ \A j : Has(t2, y, j) <=> Has(r.tree, y, j)
    OBVIOUS
  <2>1. /\ StatusAt(t, y) = StatusAt(r.tree, y)
        /\ \A j : Has(t, y, j) <=> Has(r.tree, y, j)
    BY DEF CopiedSoFar
  <2>2. StatusAt(t2, y) = StatusAt(t, y) /\ \A j : Has(t2, y, j) <=> Has(t, y, j)
    <3> HIDE DEF g, t, t2, k, st
    <3> QED BY <1>8, <1>12
  <2> HIDE DEF t, t2
  <2> QED BY <2>1, <2>2
<1>19. \A b, u \in Int : Counts(r, b, u) => Counts(res2, b, u)
  <2> SUFFICES ASSUME NEW b \in Int, NEW u \in Int, Counts(r, b, u) PROVE Counts(res2, b, u)
    OBVIOUS
  <2>1. Counts(res, b, u)
    BY DEF CopiedSoFar
  <2>2. Counts(Promote(res, m, k, st), b, u)
    <3> t = res.tree
      OBVIOUS
    <3> HIDE DEF m, k, st, t
    <3> QED BY <1>1, <1>2, <1>4, <1>5, <2>1, StatsKept
  <2> QED BY <2>2
<1> HIDE DEF g, m, k, st, t, E
<1> QED BY <1>8, <1>13, <1>14, <1>15, <1>16, <1>17, <1>18, <1>19 DEF CopiedSoFar, E

\* One node is visited by copy_tree_into.
CopyStep(r, nid, src, n, s) ==
  Promote(r, At(r.tree, r.tree.place[nid] \o
                          SubSeq(src.place[s], Len(src.place[n]) + 1, Len(src.place[s]))),
          ChildrenCount(src, s), src.status[s])

Copying(r, nid, src, n, order, k, f) ==
  f = [i \in 0 .. k |-> IF i = 0 THEN r ELSE CopyStep(f[i - 1], nid, src, n, order[i])]

\* The function CopyTreeInto recurses with exists.
LEMMA CopyingExists ==
  ASSUME NEW r, NEW nid, NEW src, NEW n, NEW order, NEW k \in Nat
  PROVE  \E f : Copying(r, nid, src, n, order, k, f)
<1> DEFINE S == {i \in Nat : \E f : Copying(r, nid, src, n, order, i, f)}
<1>1. 0 \in S
  <2> DEFINE f == [i \in 0 .. 0 |-> r]
  <2>1. f = [i \in 0 .. 0 |-> IF i = 0 THEN r ELSE CopyStep(f[i - 1], nid, src, n, order[i])]
    OBVIOUS
  <2>2. Copying(r, nid, src, n, order, 0, f)
    <3> HIDE DEF f
    <3> QED BY <2>1 DEF Copying
  <2> QED BY <2>2
<1>2. ASSUME NEW i \in Nat, i \in S PROVE i + 1 \in S
  <2>1. PICK f : Copying(r, nid, src, n, order, i, f)
    BY <1>2
  <2> DEFINE new == CopyStep(f[i], nid, src, n, order[i + 1])
             g == [j \in 0 .. i + 1 |-> IF j = i + 1 THEN new ELSE f[j]]
  <2>2. \A j \in 0 .. i : f[j] = IF j = 0 THEN r ELSE CopyStep(f[j - 1], nid, src, n, order[j])
    BY <2>1 DEF Copying
  <2>3. \A j \in 0 .. i : g[j] = f[j]
    OBVIOUS
  <2>4. \A j \in 0 .. i + 1 :
          g[j] = IF j = 0 THEN r ELSE CopyStep(g[j - 1], nid, src, n, order[j])
    <3> SUFFICES ASSUME NEW j \in 0 .. i + 1
                 PROVE  g[j] = IF j = 0 THEN r ELSE CopyStep(g[j - 1], nid, src, n, order[j])
      OBVIOUS
    <3>1. CASE j = i + 1
      <4>1. g[j] = new /\ j - 1 = i /\ g[i] = f[i] /\ j # 0
        BY <2>3, <3>1
      <4> QED BY <3>1, <4>1
    <3>2. CASE j # i + 1
      <4>1. j \in 0 .. i /\ g[j] = f[j] /\ (j # 0 => j - 1 \in 0 .. i)
        BY <2>3, <3>2
      <4>2. j # 0 => g[j - 1] = f[j - 1]
        BY <2>3, <4>1
      <4> HIDE DEF g
      <4> QED BY <2>2, <4>1, <4>2
    <3> QED BY <3>1, <3>2
  <2>5. g = [j \in 0 .. i + 1 |->
               IF j = 0 THEN r ELSE CopyStep(g[j - 1], nid, src, n, order[j])]
    <3>1. g = [j \in 0 .. i + 1 |-> g[j]]
      OBVIOUS
    <3> HIDE DEF g
    <3> QED BY <2>4, <3>1
  <2>6. Copying(r, nid, src, n, order, i + 1, g)
    <3> HIDE DEF g
    <3> QED BY <2>5 DEF Copying
  <2> QED BY <2>6
<1>3. \A i \in Nat : i \in S
  <2> HIDE DEF S
  <2> QED BY <1>1, <1>2, SetInduction
<1> QED BY <1>3

Copies(r, nid, src, n) ==
  CHOOSE f : Copying(r, nid, src, n, CopyOrder(src, n), Len(CopyOrder(src, n)), f)

LEMMA CopyTreeIntoIs ==
  ASSUME NEW r, NEW nid, NEW src, NEW n, NEW order, order = CopyOrder(src, n),
         Len(order) \in Nat
  PROVE  /\ CopyTreeInto(r, nid, src, n) = Copies(r, nid, src, n)[Len(order)]
         /\ Copies(r, nid, src, n)[0] = r
         /\ \A i \in 1 .. Len(order) : Copies(r, nid, src, n)[i]
              = CopyStep(Copies(r, nid, src, n)[i - 1], nid, src, n, order[i])
<1> DEFINE C == Copies(r, nid, src, n)
<1>1. \E f : Copying(r, nid, src, n, order, Len(order), f)
  BY CopyingExists
<1>2. Copying(r, nid, src, n, order, Len(order), C)
  BY <1>1 DEF Copies
<1>3. CopyTreeInto(r, nid, src, n) = C[Len(order)]
  BY DEF CopyTreeInto, Copies, Copying, CopyStep
<1> HIDE DEF C
<1>4. C = [i \in 0 .. Len(order) |->
             IF i = 0 THEN r ELSE CopyStep(C[i - 1], nid, src, n, order[i])]
  BY <1>2 DEF Copying
<1>5. C[0] = r /\ \A i \in 1 .. Len(order) : C[i] = CopyStep(C[i - 1], nid, src, n, order[i])
  <2>1. \A i \in 0 .. Len(order) :
          C[i] = IF i = 0 THEN r ELSE CopyStep(C[i - 1], nid, src, n, order[i])
    BY <1>4
  <2> QED BY <2>1
<1> QED BY <1>3, <1>5 DEF C

\* r has been extended to res by what is below q in src, below p.
Copied(r, p, src, q, res) ==
  /\ Grown(res.tree) /\ Keeps(r.tree, res.tree)
  /\ Places(res.tree) = Places(r.tree) \cup {Graft(p, q, x) : x \in PlacesBelow(src, q)}
  /\ \A x \in PlacesBelow(src, q) : StatusAt(res.tree, Graft(p, q, x)) = StatusAt(src, x)
  /\ \A y \in Places(r.tree) \ {p} :
       StatusAt(res.tree, y) = StatusAt(r.tree, y) /\ \A k : Has(res.tree, y, k) <=> Has(r.tree, y, k)
  /\ \A b, u \in Int : Counts(r, b, u) => Counts(res, b, u)

LEMMA CopyIs ==
  ASSUME NEW r, Grown(r.tree), NEW nid \in NodesOf(r.tree), NEW p, p = r.tree.place[nid],
         Has(r.tree, p, 0), r.tree.status[nid] = "UNDETERMINED",
         NEW src, Grown(src), NEW n \in NodesOf(src), NEW q, q = src.place[n]
  PROVE  Copied(r, p, src, q, CopyTreeInto(r, nid, src, n))
<1>1. PICK order : order = CopyOrder(src, n)
  OBVIOUS
<1>2. /\ Len(order) \in Nat /\ DOMAIN order = 1 .. Len(order)
      /\ \A i \in 1 .. Len(order) : order[i] \in Below(src, n)
      /\ \A m \in Below(src, n) : \E i \in 1 .. Len(order) : order[i] = m
      /\ \A i, j \in 1 .. Len(order) :
           VisitedBefore(src.place[order[i]], src.place[order[j]]) <=> i < j
  BY <1>1, CopyOrderIs
<1>3. PICK C : C = Copies(r, nid, src, n)
  OBVIOUS
<1>4. /\ CopyTreeInto(r, nid, src, n) = C[Len(order)] /\ C[0] = r
      /\ \A i \in 1 .. Len(order) : C[i] = CopyStep(C[i - 1], nid, src, n, order[i])
  BY <1>1, <1>2, <1>3, CopyTreeIntoIs
<1> DEFINE D(i) == {src.place[order[j]] : j \in 1 .. i}
           N == {i \in Nat : i <= Len(order) => CopiedSoFar(r, p, src, q, D(i), C[i])}
<1>5. /\ p \in PlaceSet /\ p \in Places(r.tree) /\ StatusAt(r.tree, p) = "UNDETERMINED"
      /\ q \in PlaceSet /\ q \in Places(src)
  BY NodesAndPlaces
<1>6. \A m \in NodesOf(src) : m \in Below(src, n) <=> src.place[m] \in PlacesBelow(src, q)
  BY NodesAndPlaces DEF Below, PlacesBelow
<1>7. 0 \in N
  <2>1. D(0) = {}
    OBVIOUS
  <2>2. CopiedSoFar(r, p, src, q, {}, r)
    BY <1>5, CopyStarts
  <2> QED BY <1>4, <2>1, <2>2
<1>8. ASSUME NEW i \in Nat, i \in N PROVE i + 1 \in N
  <2> SUFFICES ASSUME i + 1 <= Len(order) PROVE CopiedSoFar(r, p, src, q, D(i + 1), C[i + 1])
    OBVIOUS
  <2>1. /\ CopiedSoFar(r, p, src, q, D(i), C[i])
        /\ i + 1 \in 1 .. Len(order)
    BY <1>2, <1>8
  <2>2. PICK m : m = order[i + 1] /\ m \in Below(src, n) /\ m \in NodesOf(src)
    BY <1>2, <2>1 DEF Below
  <2>3. PICK x : x = src.place[m] /\ x \in PlacesBelow(src, q) /\ x \in PlaceSet
    BY <1>6, <2>2, NodesAndPlaces
  <2>4. D(i + 1) = D(i) \cup {x}
    BY <2>1, <2>2, <2>3
  <2>5. x \notin D(i)
    <3> SUFFICES ASSUME NEW j \in 1 .. i, x = src.place[order[j]] PROVE FALSE
      OBVIOUS
    <3>1. j \in 1 .. Len(order) /\ j < i + 1
      BY <1>2, <2>1
    <3>2. VisitedBefore(x, x)
      BY <1>2, <2>1, <2>2, <2>3, <3>1
    <3> QED BY <2>3, <3>2, VisitedOrder
  <2>6. x \in Reached(src, q, D(i))
    <3>1. SUFFICES ASSUME x # q PROVE Front(x) \in D(i)
      BY <2>3 DEF Reached
    <3>2. IsPrefix(q, x) /\ x \in Places(src)
      BY <2>3 DEF PlacesBelow
    <3>3. x # <<>>
      <4> SUFFICES ASSUME x = <<>> PROVE FALSE
        OBVIOUS
      <4>1. IsPrefix(x, q)
        BY <1>5, PrefixOrder
      <4> QED BY <1>5, <2>3, <3>1, <3>2, <4>1, PrefixOrder
    <3>4. PICK y, a : y = Front(x) /\ a = Last(x)
      OBVIOUS
    <3>5. y \in PlaceSet /\ a \in Alternatives /\ Append(y, a) = x
      BY <2>3, <3>3, <3>4, FrontIs
    <3>6. y # x /\ IsPrefix(y, x) /\ IsPrefix(q, y)
      <4>1. /\ y # Append(y, a) /\ IsPrefix(y, Append(y, a))
            /\ \A v \in PlaceSet : IsPrefix(v, Append(y, a)) <=> v = Append(y, a) \/ IsPrefix(v, y)
        BY <3>5, AppendIs
      <4> QED BY <1>5, <3>1, <3>2, <3>5, <4>1
    <3>7. y \in Places(src)
      BY <3>2, <3>5, ParentThere
    <3>8. PICK w : w = At(src, y) /\ w \in NodesOf(src) /\ src.place[w] = y
      BY <3>7, NodesAndPlaces
    <3>9. w \in Below(src, n)
      BY <1>6, <3>6, <3>7, <3>8 DEF PlacesBelow
    <3>10. PICK j \in 1 .. Len(order) : order[j] = w
      BY <1>2, <3>9
    <3>11. VisitedBefore(y, x)
      BY <2>3, <3>5, <3>6, VisitedOrder
    <3>12. j < i + 1
      BY <1>2, <2>1, <2>2, <2>3, <3>8, <3>10, <3>11
    <3>13. j \in 1 .. i
      BY <3>12
    <3> QED BY <3>4, <3>8, <3>10, <3>13
  <2>7. C[i + 1] = Promote(C[i], At(C[i].tree, Graft(p, q, x)), ChildrenCount(src, m), src.status[m])
    <3>1. C[i + 1] = CopyStep(C[i], nid, src, n, m)
      BY <1>4, <2>1, <2>2
    <3>2. Keeps(r.tree, C[i].tree)
      BY <2>1 DEF CopiedSoFar
    <3>3. C[i].tree.place[nid] = p
      BY <3>2 DEF Keeps
    <3> QED BY <2>3, <3>1, <3>3 DEF CopyStep, Graft
  <2> HIDE DEF D
  <2>8. CopiedSoFar(r, p, src, q, D(i) \cup {x}, C[i + 1])
    BY <1>5, <2>1, <2>2, <2>3, <2>5, <2>6, <2>7, CopyGoesOn
  <2> QED BY <2>4, <2>8
<1>9. PICK res : res = C[Len(order)]
  OBVIOUS
<1>10. CopiedSoFar(r, p, src, q, D(Len(order)), res)
  <2>1. \A i \in Nat : i \in N
    <3> HIDE DEF N
    <3> QED BY <1>7, <1>8, SetInduction
  <2>2. Len(order) \in N
    BY <1>2, <2>1
  <2> HIDE DEF D
  <2> QED BY <1>2, <1>9, <2>2
<1>11. D(Len(order)) = PlacesBelow(src, q)
  <2>1. ASSUME NEW x \in PlacesBelow(src, q) PROVE x \in D(Len(order))
    <3>1. At(src, x) \in NodesOf(src) /\ src.place[At(src, x)] = x
      BY NodesAndPlaces DEF PlacesBelow
    <3>2. At(src, x) \in Below(src, n)
      BY <1>6, <3>1
    <3>3. PICK i \in 1 .. Len(order) : order[i] = At(src, x)
      BY <1>2, <3>2
    <3> QED BY <3>1, <3>3
  <2>2. ASSUME NEW i \in 1 .. Len(order) PROVE src.place[order[i]] \in PlacesBelow(src, q)
    <3>1. order[i] \in Below(src, n) /\ order[i] \in NodesOf(src)
      BY <1>2 DEF Below
    <3> QED BY <1>6, <3>1
  <2> QED BY <2>1, <2>2
<1>12. CopiedSoFar(r, p, src, q, PlacesBelow(src, q), res)
  <2> HIDE DEF D
  <2> QED BY <1>10, <1>11
<1>13. Reached(src, q, PlacesBelow(src, q)) = PlacesBelow(src, q)
  BY <1>12 DEF CopiedSoFar, Reached
<1>14. Copied(r, p, src, q, res)
  BY <1>12, <1>13 DEF CopiedSoFar, Copied
<1> QED BY <1>4, <1>9, <1>14

-----------------------------------------------------------------------------
(* Where two trees agree and where they part *)

\* A tree that builders grow.
Source(t) ==
  /\ Grown(t) /\ t.status[Root] = "BRANCH"
  /\ \A n \in NodesOf(t) : t.status[n] \in SourceStatuses

LEMMA SourceIs ==
  ASSUME NEW t, Source(t)
  PROVE  /\ Grown(t) /\ <<>> \in Places(t) /\ StatusAt(t, <<>>) = "BRANCH"
         /\ \A p \in Places(t) : p \in PlaceSet /\ StatusAt(t, p) \in SourceStatuses
<1>1. Grown(t)
  BY DEF Source
<1>2. <<>> \in Places(t) /\ At(t, <<>>) = Root
  BY <1>1, NodesAndPlaces
<1>3. \A p \in Places(t) : p \in PlaceSet /\ At(t, p) \in NodesOf(t)
  BY <1>1, NodesAndPlaces
<1> QED BY <1>1, <1>2, <1>3 DEF Source, StatusAt

\* The places above p are the beginnings of p.
LEMMA Beginnings ==
  ASSUME NEW p \in PlaceSet
  PROVE  /\ \A i \in 0 .. Len(p) : SubSeq(p, 1, i) \in PlaceSet /\ IsPrefix(SubSeq(p, 1, i), p)
         /\ \A q \in PlaceSet : IsPrefix(q, p) => Len(q) \in 0 .. Len(p) /\ q = SubSeq(p, 1, Len(q))
<1>1. Len(p) \in Nat /\ \A i \in 1 .. Len(p) : p[i] \in Alternatives
  BY LenProperties, ElementOfSeq DEF PlaceSet
<1>2. \A i \in 0 .. Len(p) : /\ SubSeq(p, 1, i) \in PlaceSet /\ Len(SubSeq(p, 1, i)) = i
                             /\ \A j \in 1 .. i : SubSeq(p, 1, i)[j] = p[j]
  <2> SUFFICES ASSUME NEW i \in 0 .. Len(p)
               PROVE  /\ SubSeq(p, 1, i) \in PlaceSet /\ Len(SubSeq(p, 1, i)) = i
                      /\ \A j \in 1 .. i : SubSeq(p, 1, i)[j] = p[j]
    OBVIOUS
  <2>1. i \in Int /\ \A j \in 1 .. i : p[j] \in Alternatives
    BY <1>1
  <2> DEFINE u == SubSeq(p, 1, i)
  <2>2. /\ u \in Seq(Alternatives) /\ Len(u) = IF 1 <= i THEN i - 1 + 1 ELSE 0
        /\ \A j \in 1 .. i - 1 + 1 : u[j] = p[1 + j - 1]
    BY <2>1, SubSeqProperties
  <2> HIDE DEF u
  <2>3. Len(u) = i /\ \A j \in 1 .. i : u[j] = p[j]
    BY <1>1, <2>1, <2>2
  <2> QED BY <2>2, <2>3 DEF u, PlaceSet
<1>3. ASSUME NEW i \in 0 .. Len(p)
      PROVE  SubSeq(p, 1, i) \in PlaceSet /\ IsPrefix(SubSeq(p, 1, i), p)
  <2>1. PICK u : u = SubSeq(p, 1, i)
    OBVIOUS
  <2>2. u \in PlaceSet /\ Len(u) <= Len(p) /\ \A j \in 1 .. Len(u) : u[j] = p[j]
    BY <1>1, <1>2, <2>1
  <2> QED BY <2>1, <2>2, PrefixIs
<1>4. ASSUME NEW q \in PlaceSet, IsPrefix(q, p)
      PROVE  Len(q) \in 0 .. Len(p) /\ q = SubSeq(p, 1, Len(q))
  <2>1. Len(q) \in Nat /\ Len(q) <= Len(p) /\ \A i \in 1 .. Len(q) : q[i] = p[i]
    BY <1>4, PrefixIs
  <2>2. Len(q) \in 0 .. Len(p)
    BY <1>1, <2>1
  <2>3. PICK u : u = SubSeq(p, 1, Len(q))
    OBVIOUS
  <2>4. u \in PlaceSet /\ Len(u) = Len(q) /\ \A j \in 1 .. Len(q) : u[j] = p[j]
    BY <1>2, <2>2, <2>3
  <2>5. q = u
    BY <2>1, <2>4, SamePlace
  <2> QED BY <2>2, <2>3, <2>5
<1> QED BY <1>3, <1>4

LEMMA AgreedIs ==
  ASSUME NEW l, Grown(l), NEW r, Grown(r), NEW p \in PlaceSet
  PROVE  p \in Agreed(l, r) <=>
           /\ p \in Places(l) /\ p \in Places(r)
           /\ \A q \in PlaceSet : IsPrefix(q, p) => StatusAt(l, q) = StatusAt(r, q)
<1>1. /\ \A i \in 0 .. Len(p) : SubSeq(p, 1, i) \in PlaceSet /\ IsPrefix(SubSeq(p, 1, i), p)
      /\ \A q \in PlaceSet : IsPrefix(q, p) => Len(q) \in 0 .. Len(p) /\ q = SubSeq(p, 1, Len(q))
  BY Beginnings
<1>2. ASSUME \A i \in 0 .. Len(p) : StatusAt(l, SubSeq(p, 1, i)) = StatusAt(r, SubSeq(p, 1, i)),
             NEW q \in PlaceSet, IsPrefix(q, p)
      PROVE  StatusAt(l, q) = StatusAt(r, q)
  BY <1>1, <1>2
<1>3. ASSUME \A q \in PlaceSet : IsPrefix(q, p) => StatusAt(l, q) = StatusAt(r, q),
             NEW i \in 0 .. Len(p)
      PROVE  StatusAt(l, SubSeq(p, 1, i)) = StatusAt(r, SubSeq(p, 1, i))
  BY <1>1, <1>3
<1>4. (\A i \in 0 .. Len(p) : StatusAt(l, SubSeq(p, 1, i)) = StatusAt(r, SubSeq(p, 1, i)))
        <=> \A q \in PlaceSet : IsPrefix(q, p) => StatusAt(l, q) = StatusAt(r, q)
  BY <1>2, <1>3
<1> QED BY <1>4 DEF Agreed

\* Two trees agree at their roots, and at a child of where they agree if both
\* have it with the same status.
LEMMA AgreedBelow ==
  ASSUME NEW l, Source(l), NEW r, Source(r)
  PROVE  /\ <<>> \in Agreed(l, r)
         /\ \A p \in Agreed(l, r) : p \in PlaceSet /\ p \in Places(l) /\ p \in Places(r)
                                      /\ StatusAt(l, p) = StatusAt(r, p)
         /\ \A p \in PlaceSet, a \in Alternatives :
              Append(p, a) \in Agreed(l, r) <=>
                /\ p \in Agreed(l, r)
                /\ Append(p, a) \in Places(l) /\ Append(p, a) \in Places(r)
                /\ StatusAt(l, Append(p, a)) = StatusAt(r, Append(p, a))
         /\ \A p \in Agreed(l, r), q \in PlaceSet : IsPrefix(q, p) => q \in Agreed(l, r)
<1>1. Grown(l) /\ Grown(r)
  BY DEF Source
<1>2. /\ <<>> \in PlaceSet
      /\ \A q \in PlaceSet : IsPrefix(q, <<>>) => q = <<>>
      /\ \A p \in PlaceSet : IsPrefix(p, p)
  <2>1. <<>> \in PlaceSet
    BY SourceIs
  <2> QED BY <2>1, PrefixOrder
<1>3. <<>> \in Agreed(l, r)
  <2>1. <<>> \in Places(l) /\ <<>> \in Places(r) /\ StatusAt(l, <<>>) = StatusAt(r, <<>>)
    BY SourceIs
  <2> QED BY <1>1, <1>2, <2>1, AgreedIs
<1>4. \A p \in Agreed(l, r) : p \in Places(l) /\ p \in Places(r) /\ p \in PlaceSet
  BY SourceIs DEF Agreed
<1>5. \A p \in Agreed(l, r) : StatusAt(l, p) = StatusAt(r, p)
  BY <1>1, <1>2, <1>4, AgreedIs
<1>6. ASSUME NEW p \in PlaceSet, NEW a \in Alternatives
      PROVE  Append(p, a) \in Agreed(l, r) <=>
                /\ p \in Agreed(l, r)
                /\ Append(p, a) \in Places(l) /\ Append(p, a) \in Places(r)
                /\ StatusAt(l, Append(p, a)) = StatusAt(r, Append(p, a))
  <2>1. PICK c : c = Append(p, a)
    OBVIOUS
  <2>2. c \in PlaceSet /\ \A q \in PlaceSet : IsPrefix(q, c) <=> q = c \/ IsPrefix(q, p)
    BY <2>1, AppendIs
  <2>3. c \in Places(l) => p \in Places(l)
    BY <1>1, <2>1, ParentThere
  <2>4. c \in Places(r) => p \in Places(r)
    BY <1>1, <2>1, ParentThere
  <2>5. c \in Agreed(l, r) <=>
          /\ c \in Places(l) /\ c \in Places(r)
          /\ \A q \in PlaceSet : IsPrefix(q, c) => StatusAt(l, q) = StatusAt(r, q)
    BY <1>1, <2>2, AgreedIs
  <2>6. p \in Agreed(l, r) <=>
          /\ p \in Places(l) /\ p \in Places(r)
          /\ \A q \in PlaceSet : IsPrefix(q, p) => StatusAt(l, q) = StatusAt(r, q)
    BY <1>1, AgreedIs
  <2>7. (\A q \in PlaceSet : IsPrefix(q, c) => StatusAt(l, q) = StatusAt(r, q)) <=>
          /\ StatusAt(l, c) = StatusAt(r, c)
          /\ \A q \in PlaceSet : IsPrefix(q, p) => StatusAt(l, q) = StatusAt(r, q)
    BY <2>2
  <2> QED BY <2>1, <2>3, <2>4, <2>5, <2>6, <2>7
<1>7. ASSUME NEW p \in Agreed(l, r), NEW q \in PlaceSet, IsPrefix(q, p)
      PROVE  q \in Agreed(l, r)
  <2>1. /\ p \in PlaceSet /\ p \in Places(l) /\ p \in Places(r)
        /\ \A v \in PlaceSet : IsPrefix(v, p) => StatusAt(l, v) = StatusAt(r, v)
    BY <1>1, <1>4, AgreedIs
  <2>2. q \in Places(l)
    BY <1>1, <1>7, <2>1, PlacesAbove
  <2>3. q \in Places(r)
    BY <1>1, <1>7, <2>1, PlacesAbove
  <2>4. \A v \in PlaceSet : IsPrefix(v, q) => IsPrefix(v, p)
    BY <1>7, <2>1, PrefixOrder
  <2> QED BY <1>1, <2>1, <2>2, <2>3, <2>4, AgreedIs
<1> QED BY <1>3, <1>4, <1>5, <1>6, <1>7

\* The places the merger compares.
Compare(l, r) == Agreed(l, r) \cup Disputed(l, r)

\* What is explored at p in one tree and missing in the other.
Extra(t, p) == p \in Places(t) /\ StatusAt(t, p) \notin {"UNDETERMINED", "SKIPPED"}

\* A child is compared if both trees have it or the one that has it explored it.
LEMMA CompareIs ==
  ASSUME NEW l, Source(l), NEW r, Source(r)
  PROVE  /\ <<>> \in Compare(l, r) /\ <<>> \notin Disputed(l, r)
         /\ \A p \in Compare(l, r) : p \in PlaceSet /\ (p \in Places(l) \/ p \in Places(r))
         /\ Agreed(l, r) \cap Disputed(l, r) = {}
         /\ \A p \in PlaceSet, a \in Alternatives :
              Append(p, a) \in Compare(l, r) <=>
                /\ p \in Agreed(l, r)
                /\ \/ Append(p, a) \in Places(l) /\ Append(p, a) \in Places(r)
                   \/ Extra(l, Append(p, a)) \/ Extra(r, Append(p, a))
<1>1. <<>> \in Agreed(l, r)
  BY AgreedBelow
<1>2. Agreed(l, r) \cap Disputed(l, r) = {}
  BY DEF Disputed
<1>3. \A p \in Compare(l, r) : p \in PlaceSet /\ (p \in Places(l) \/ p \in Places(r))
  BY SourceIs DEF Compare, Agreed, Disputed
<1>4. ASSUME NEW p \in PlaceSet, NEW a \in Alternatives
      PROVE  Append(p, a) \in Compare(l, r) <=>
                /\ p \in Agreed(l, r)
                /\ \/ Append(p, a) \in Places(l) /\ Append(p, a) \in Places(r)
                   \/ Extra(l, Append(p, a)) \/ Extra(r, Append(p, a))
  <2>1. PICK c : c = Append(p, a)
    OBVIOUS
  <2>2. c # <<>> /\ Front(c) = p
    BY <2>1, AppendIs
  <2>3. c \in Agreed(l, r) <=> /\ p \in Agreed(l, r) /\ c \in Places(l) /\ c \in Places(r)
                               /\ StatusAt(l, c) = StatusAt(r, c)
    BY <2>1, AgreedBelow
  <2>4. c \in Disputed(l, r) <=>
          /\ c \in Places(l) \cup Places(r) /\ c \notin Agreed(l, r) /\ p \in Agreed(l, r)
          /\ c \notin Places(l) => StatusAt(r, c) \notin {"UNDETERMINED", "SKIPPED"}
          /\ c \notin Places(r) => StatusAt(l, c) \notin {"UNDETERMINED", "SKIPPED"}
    BY <2>2 DEF Disputed
  <2> QED BY <2>1, <2>3, <2>4 DEF Compare, Extra
<1> QED BY <1>1, <1>2, <1>3, <1>4 DEF Compare

\* Nothing is compared below where two trees part, and above they agree.
LEMMA AboveCompared ==
  ASSUME NEW l, Source(l), NEW r, Source(r), NEW p \in Compare(l, r),
         NEW q \in PlaceSet, IsPrefix(q, p), q # p
  PROVE  q \in Agreed(l, r)
<1>1. p \in PlaceSet
  BY CompareIs
<1>2. p # <<>>
  BY <1>1, PrefixOrder
<1>3. PICK f, a : f = Front(p) /\ a = Last(p)
  OBVIOUS
<1>4. f \in PlaceSet /\ a \in Alternatives /\ Append(f, a) = p
  BY <1>1, <1>2, <1>3, FrontIs
<1>5. f \in Agreed(l, r)
  BY <1>4, CompareIs
<1>6. IsPrefix(q, f)
  <2>1. \A v \in PlaceSet : IsPrefix(v, Append(f, a)) <=> v = Append(f, a) \/ IsPrefix(v, f)
    BY <1>4, AppendIs
  <2> QED BY <1>4, <2>1
<1> QED BY <1>5, <1>6, AgreedBelow

\* Two nodes at the same place that is compared are equal if the trees agree
\* there.
NodeAt(t, p) == IF p \in Places(t) THEN At(t, p) ELSE NoNode

LEMMA NodeAtIs ==
  ASSUME NEW t, Grown(t), NEW p
  PROVE  /\ NodeAt(t, p) \in Int
         /\ NodeAt(t, p) # NoNode <=> p \in Places(t)
         /\ p \in Places(t) => /\ NodeAt(t, p) = At(t, p) /\ NodeAt(t, p) \in NodesOf(t)
                               /\ t.place[NodeAt(t, p)] = p
                               /\ t.status[NodeAt(t, p)] = StatusAt(t, p)
<1>1. NoNode = -1 /\ NoNode \in Int /\ NoNode \notin Nat
  BY DEF NoNode
<1>2. \A n \in NodesOf(t) : n \in Nat
  BY NumberOfNodes
<1>3. CASE p \in Places(t)
  <2>1. At(t, p) \in NodesOf(t) /\ t.place[At(t, p)] = p /\ StatusAt(t, p) = t.status[At(t, p)]
    BY <1>3, NodesAndPlaces
  <2> QED BY <1>1, <1>2, <1>3, <2>1 DEF NodeAt
<1>4. CASE p \notin Places(t)
  BY <1>1, <1>4 DEF NodeAt
<1> QED BY <1>3, <1>4

LEMMA EqualNodes ==
  ASSUME NEW l, Source(l), NEW r, Source(r), NEW p \in Compare(l, r)
  PROVE  p \in Agreed(l, r) <=>
           /\ p \in Places(l) /\ p \in Places(r) /\ StatusAt(l, p) = StatusAt(r, p)
<1>1. p \in PlaceSet
  BY CompareIs
<1>2. CASE p = <<>>
  BY <1>2, AgreedBelow
<1>3. CASE p # <<>>
  <2>1. PICK f, a : f = Front(p) /\ a = Last(p)
    OBVIOUS
  <2>2. f \in PlaceSet /\ a \in Alternatives /\ Append(f, a) = p
    BY <1>1, <1>3, <2>1, FrontIs
  <2>3. f \in Agreed(l, r)
    BY <2>2, CompareIs
  <2>4. Append(f, a) \in Agreed(l, r) <=>
          /\ f \in Agreed(l, r)
          /\ Append(f, a) \in Places(l) /\ Append(f, a) \in Places(r)
          /\ StatusAt(l, Append(f, a)) = StatusAt(r, Append(f, a))
    <3>1. \A g \in PlaceSet, b \in Alternatives :
            Append(g, b) \in Agreed(l, r) <=>
              /\ g \in Agreed(l, r)
              /\ Append(g, b) \in Places(l) /\ Append(g, b) \in Places(r)
              /\ StatusAt(l, Append(g, b)) = StatusAt(r, Append(g, b))
      BY AgreedBelow
    <3> QED BY <2>2, <3>1
  <2> QED BY <2>2, <2>3, <2>4
<1> QED BY <1>2, <1>3

-----------------------------------------------------------------------------
(* The merged tree while it is built; W are the places of the stack's nodes *)

\* What has been compared.
Settled(l, r, W) == {p \in Compare(l, r) : \A w \in W : ~IsPrefix(w, p)}
Pens(l, r, W) == Settled(l, r, W) \cap Disputed(l, r)

Side(src, p, side) == {UnderPentagon(p, side, q) : q \in PlacesBelow(src, p)}
UnderPens(l, r, W) == UNION {Side(l, p, 1) \cup Side(r, p, 2) : p \in Pens(l, r, W)}

\* A node that was created and not yet promoted.
Fresh(t, p) == Has(t, p, 0) /\ (p # <<>> => StatusAt(t, p) = "UNDETERMINED")

SideKept(src, p, side, t) ==
  \A q \in PlacesBelow(src, p) :
    /\ UnderPentagon(p, side, q) \in Places(t)
    /\ StatusAt(t, UnderPentagon(p, side, q)) = StatusAt(src, q)

Overlays(l, r, t, W) ==
  /\ Grown(t)
  /\ \A w \in W : w \in Compare(l, r) /\ w \in Places(t) /\ Fresh(t, w)
  /\ \A p \in Places(t) : StatusAt(t, p) = "MERGED" <=> p \in Pens(l, r, W)
  /\ Settled(l, r, W) \subseteq Places(t)
  /\ \A p \in Settled(l, r, W) \cap Agreed(l, r) : StatusAt(t, p) = StatusAt(l, p)
  /\ \A p \in Pens(l, r, W) : SideKept(l, p, 1, t) /\ SideKept(r, p, 2, t)
  /\ \A p \in Places(t) \ (Settled(l, r, W) \cup UnderPens(l, r, W)) : Fresh(t, p)

\* A place below a side of a pentagon.
LEMMA UnderIs ==
  ASSUME NEW p \in PlaceSet, NEW side \in Alternatives, NEW q \in PlaceSet, IsPrefix(p, q)
  PROVE  /\ UnderPentagon(p, side, q) = Graft(Append(p, side), p, q)
         /\ UnderPentagon(p, side, q) \in PlaceSet
         /\ IsPrefix(Append(p, side), UnderPentagon(p, side, q))
         /\ IsPrefix(p, UnderPentagon(p, side, q)) /\ UnderPentagon(p, side, q) # p
<1>1. Append(p, side) = p \o <<side>>
  BY AppendIsConcat DEF PlaceSet
<1>2. PICK c : c = Append(p, side)
  OBVIOUS
<1>3. PICK u : u = Graft(c, p, q)
  OBVIOUS
<1>4. UnderPentagon(p, side, q) = u
  BY <1>1, <1>2, <1>3 DEF UnderPentagon, Graft
<1>5. c \in PlaceSet /\ IsPrefix(p, c) /\ ~IsPrefix(c, p)
  BY <1>2, AppendIs
<1>6. u \in PlaceSet /\ IsPrefix(c, u)
  BY <1>3, <1>5, GraftIs
<1>7. IsPrefix(p, u) /\ u # p
  BY <1>5, <1>6, PrefixOrder
<1> QED BY <1>2, <1>3, <1>4, <1>6, <1>7

LEMMA OneAndTwo == 1 \in Alternatives /\ 2 \in Alternatives
BY DEF Alternatives

\* What is below a pentagon is not compared.
LEMMA BelowPentagon ==
  ASSUME NEW l, Source(l), NEW r, Source(r), NEW d \in Disputed(l, r),
         NEW p \in PlaceSet, IsPrefix(d, p), d # p
  PROVE  p \notin Compare(l, r)
<1>1. d \in PlaceSet /\ d \notin Agreed(l, r)
  <2>1. d \in Compare(l, r)
    BY DEF Compare
  <2> QED BY <2>1, CompareIs
<1>2. p \in Compare(l, r) => d \in Agreed(l, r)
  BY <1>1, AboveCompared
<1> QED BY <1>1, <1>2

\* A node of the stack is settled when what is compared below it takes its place.
LEMMA SettledNext ==
  ASSUME NEW l, Source(l), NEW r, Source(r),
         NEW W, \A w \in W : w \in PlaceSet, \A w, v \in W : IsPrefix(w, v) => w = v,
         NEW p \in W, p \in Compare(l, r),
         NEW N, \A n \in N : n \in PlaceSet /\ IsPrefix(p, n) /\ n # p,
         \A q \in Compare(l, r) : IsPrefix(p, q) /\ q # p => \E n \in N : IsPrefix(n, q)
  PROVE  Settled(l, r, (W \ {p}) \cup N) = Settled(l, r, W) \cup {p}
<1>1. \A q \in Compare(l, r) : q \in PlaceSet
  BY CompareIs
<1>2. ASSUME NEW q \in Settled(l, r, (W \ {p}) \cup N), q # p PROVE q \in Settled(l, r, W)
  <2>1. q \in Compare(l, r) /\ (\A w \in W \ {p} : ~IsPrefix(w, q)) /\ \A n \in N : ~IsPrefix(n, q)
    BY DEF Settled
  <2>2. ~IsPrefix(p, q)
    BY <1>2, <2>1
  <2> QED BY <2>1, <2>2 DEF Settled
<1>3. ASSUME NEW q \in Settled(l, r, W) PROVE q \in Settled(l, r, (W \ {p}) \cup N)
  <2>1. q \in Compare(l, r) /\ q \in PlaceSet /\ \A w \in W : ~IsPrefix(w, q)
    BY <1>1 DEF Settled
  <2>2. ASSUME NEW n \in N, IsPrefix(n, q) PROVE FALSE
    <3>1. IsPrefix(p, q)
      BY <2>1, <2>2, PrefixOrder
    <3> QED BY <2>1, <3>1
  <2> QED BY <2>1, <2>2 DEF Settled
<1>4. p \in Settled(l, r, (W \ {p}) \cup N)
  <2>1. \A w \in W \ {p} : ~IsPrefix(w, p)
    OBVIOUS
  <2>2. \A n \in N : ~IsPrefix(n, p)
    BY PrefixOrder
  <2> QED BY <2>1, <2>2 DEF Settled
<1> QED BY <1>2, <1>3, <1>4

LEMMA StackPlaces ==
  ASSUME NEW l, Source(l), NEW r, Source(r), NEW t, NEW W, Overlays(l, r, t, W)
  PROVE  /\ Grown(t) /\ \A w \in W : w \in PlaceSet /\ w \in Compare(l, r)
         /\ \A w, v \in W : IsPrefix(w, v) => w = v
<1>1. Grown(t) /\ \A w \in W : w \in Compare(l, r) /\ w \in Places(t) /\ Has(t, w, 0)
  BY DEF Overlays, Fresh
<1>2. \A w \in W : w \in PlaceSet
  BY <1>1, CompareIs
<1>3. ASSUME NEW w \in W, NEW v \in W, IsPrefix(w, v) PROVE w = v
  BY <1>1, <1>3, NothingBelow
<1> QED BY <1>1, <1>2, <1>3

\* Equal nodes.
LEMMA EqualStep ==
  ASSUME NEW l, Source(l), NEW r, Source(r), NEW t, NEW W, Overlays(l, r, t, W),
         NEW p \in W, p \in Agreed(l, r),
         NEW k \in Nat, NEW st, st = StatusAt(l, p), NEW t2, Sprouts(t, p, k, st, t2),
         NEW N, \A n \in N : \E a \in 1 .. k : n = Append(p, a) /\ n \in Compare(l, r),
         \A a \in Alternatives : Append(p, a) \in Compare(l, r) => Append(p, a) \in N
  PROVE  Overlays(l, r, t2, (W \ {p}) \cup N)
<1> DEFINE W2 == (W \ {p}) \cup N
<1>1. /\ Grown(t) /\ \A w \in W : w \in PlaceSet /\ w \in Compare(l, r)
      /\ \A w, v \in W : IsPrefix(w, v) => w = v
  BY StackPlaces
<1>2. /\ Grown(t2) /\ Places(t) \subseteq Places(t2)
      /\ Places(t2) = Places(t) \cup {Append(p, a) : a \in 1 .. k}
      /\ \A q \in Places(t) : StatusAt(t2, q) = IF q = p THEN st ELSE StatusAt(t, q)
      /\ \A q \in Places(t2) \ Places(t) : StatusAt(t2, q) = "UNDETERMINED" /\ Has(t2, q, 0)
      /\ \A q \in Places(t) \ {p} : \A j : Has(t2, q, j) <=> Has(t, q, j)
  BY DEF Sprouts
<1>3. /\ \A w \in W : w \in Places(t) /\ Fresh(t, w)
      /\ \A q \in Places(t) : StatusAt(t, q) = "MERGED" <=> q \in Pens(l, r, W)
      /\ Settled(l, r, W) \subseteq Places(t)
      /\ \A q \in Settled(l, r, W) \cap Agreed(l, r) : StatusAt(t, q) = StatusAt(l, q)
      /\ \A q \in Pens(l, r, W) : SideKept(l, q, 1, t) /\ SideKept(r, q, 2, t)
      /\ \A q \in Places(t) \ (Settled(l, r, W) \cup UnderPens(l, r, W)) : Fresh(t, q)
  BY DEF Overlays
<1>4. p \in Places(t) /\ Has(t, p, 0) /\ p \in PlaceSet /\ p \notin Disputed(l, r)
      /\ st \in SourceStatuses /\ st # "MERGED"
  <2>1. p \in Places(l)
    BY AgreedBelow
  <2>2. StatusAt(l, p) \in SourceStatuses
    BY <2>1, SourceIs
  <2> QED BY <1>1, <1>3, <2>2, CompareIs DEF Fresh, SourceStatuses
<1>5. \A n \in N : /\ n \in PlaceSet /\ IsPrefix(p, n) /\ n # p /\ n \in Compare(l, r)
                   /\ n \in Places(t2) \ Places(t)
  <2> SUFFICES ASSUME NEW n \in N
               PROVE  /\ n \in PlaceSet /\ IsPrefix(p, n) /\ n # p /\ n \in Compare(l, r)
                      /\ n \in Places(t2) \ Places(t)
    OBVIOUS
  <2>1. PICK a \in 1 .. k : n = Append(p, a) /\ n \in Compare(l, r)
    OBVIOUS
  <2>2. a \in Alternatives /\ ~(a <= 0)
    BY DEF Alternatives
  <2>3. n \in PlaceSet /\ IsPrefix(p, n) /\ n # p
    BY <1>4, <2>1, <2>2, AppendIs
  <2>4. n \notin Places(t)
    BY <1>4, <2>1, <2>2 DEF Has
  <2> QED BY <1>2, <2>1, <2>3, <2>4
<1>6. ASSUME NEW q \in Compare(l, r), IsPrefix(p, q), q # p PROVE \E n \in N : IsPrefix(n, q)
  <2>1. q \in PlaceSet
    BY CompareIs
  <2>2. PICK a \in Alternatives : IsPrefix(Append(p, a), q)
    BY <1>4, <1>6, <2>1, StepDown
  <2>3. PICK n : n = Append(p, a)
    OBVIOUS
  <2>4. n \in PlaceSet
    BY <1>4, <2>3, AppendIs
  <2>5. n \in Compare(l, r)
    <3>1. CASE n = q
      BY <3>1
    <3>2. CASE n # q
      BY <2>2, <2>3, <2>4, <3>2, AboveCompared DEF Compare
    <3> QED BY <3>1, <3>2
  <2>6. n \in N
    BY <2>3, <2>5
  <2> QED BY <2>2, <2>3, <2>6
<1>7. Settled(l, r, W2) = Settled(l, r, W) \cup {p}
  BY <1>1, <1>5, <1>6, SettledNext
<1>8. Pens(l, r, W2) = Pens(l, r, W)
  BY <1>4, <1>7 DEF Pens
<1>9. UnderPens(l, r, W2) = UnderPens(l, r, W)
  BY <1>8 DEF UnderPens
<1> HIDE DEF W2
<1>10. ASSUME NEW w \in W2 PROVE w \in Compare(l, r) /\ w \in Places(t2) /\ Fresh(t2, w)
  <2>1. CASE w \in N
    BY <1>2, <1>5, <2>1 DEF Fresh
  <2>2. CASE w \in W /\ w # p
    BY <1>1, <1>2, <1>3, <2>2 DEF Fresh
  <2> QED BY <2>1, <2>2 DEF W2
<1>11. ASSUME NEW q \in Places(t2)
       PROVE  StatusAt(t2, q) = "MERGED" <=> q \in Pens(l, r, W2)
  <2>1. p \notin Pens(l, r, W)
    BY <1>4 DEF Pens
  <2>2. CASE q \in Places(t)
    BY <1>2, <1>3, <1>4, <1>8, <2>1, <2>2
  <2>3. CASE q \notin Places(t)
    <3>1. q \notin Pens(l, r, W)
      BY <1>3, <2>3 DEF Pens
    <3> QED BY <1>2, <1>8, <2>3, <3>1
  <2> QED BY <2>2, <2>3
<1>12. Settled(l, r, W2) \subseteq Places(t2)
  BY <1>2, <1>3, <1>4, <1>7
<1>13. \A q \in Settled(l, r, W2) \cap Agreed(l, r) : StatusAt(t2, q) = StatusAt(l, q)
  BY <1>2, <1>3, <1>4, <1>7
<1>14. ASSUME NEW d \in Pens(l, r, W), NEW side \in {1, 2}, NEW src, SideKept(src, d, side, t),
              Source(src)
       PROVE  SideKept(src, d, side, t2)
  <2> SUFFICES ASSUME NEW q \in PlacesBelow(src, d)
               PROVE  /\ UnderPentagon(d, side, q) \in Places(t2)
                      /\ StatusAt(t2, UnderPentagon(d, side, q)) = StatusAt(src, q)
    BY DEF SideKept
  <2>1. PICK u : u = UnderPentagon(d, side, q)
    OBVIOUS
  <2>2. u \in Places(t) /\ StatusAt(t, u) = StatusAt(src, q)
    BY <1>14, <2>1 DEF SideKept
  <2>3. d \in Disputed(l, r) /\ d \in PlaceSet /\ q \in PlaceSet /\ IsPrefix(d, q)
    BY <1>14, CompareIs, SourceIs DEF Pens, Settled, PlacesBelow
  <2>4. u \in PlaceSet /\ IsPrefix(d, u) /\ u # d
    BY <2>1, <2>3, OneAndTwo, UnderIs
  <2>5. u # p
    BY <1>1, <2>3, <2>4, BelowPentagon
  <2> QED BY <1>2, <2>1, <2>2, <2>5
<1>15. \A d \in Pens(l, r, W2) : SideKept(l, d, 1, t2) /\ SideKept(r, d, 2, t2)
  BY <1>3, <1>8, <1>14
<1>16. ASSUME NEW q \in Places(t2) \ (Settled(l, r, W2) \cup UnderPens(l, r, W2))
       PROVE  Fresh(t2, q)
  <2>1. q # p /\ q \notin Settled(l, r, W) \cup UnderPens(l, r, W)
    BY <1>7, <1>9
  <2>2. CASE q \in Places(t)
    BY <1>2, <1>3, <2>1, <2>2 DEF Fresh
  <2>3. CASE q \notin Places(t)
    BY <1>2, <2>3 DEF Fresh
  <2> QED BY <2>2, <2>3
<1>17. Overlays(l, r, t2, W2)
  BY <1>2, <1>10, <1>11, <1>12, <1>13, <1>15, <1>16 DEF Overlays
<1> QED BY <1>17 DEF W2

\* A side of a new pentagon at p: what src has at p, or a node that was not
\* promoted.
SideIs(src, p, side, t) ==
  /\ SideKept(src, p, side, t)
  /\ PlacesBelow(src, p) = {} => /\ StatusAt(t, Append(p, side)) = "UNDETERMINED"
                                 /\ Has(t, Append(p, side), 0)

\* t2 is t with a pentagon at p.
PentagonAt(t, p, l, r, t2) ==
  /\ Grown(t2) /\ Keeps(t, t2)
  /\ Places(t2) = Places(t) \cup {Append(p, 1), Append(p, 2)} \cup Side(l, p, 1) \cup Side(r, p, 2)
  /\ StatusAt(t2, p) = "MERGED"
  /\ SideIs(l, p, 1, t2) /\ SideIs(r, p, 2, t2)
  /\ \A q \in Places(t) \ {p} :
       StatusAt(t2, q) = StatusAt(t, q) /\ \A k : Has(t2, q, k) <=> Has(t, q, k)

\* The tree t2 overlays l and r with one more pentagon, at p.
PentagonMore(l, r, t2, W, p) ==
  /\ Overlays(l, r, t2, W \ {p})
  /\ p \notin Pens(l, r, W) /\ Pens(l, r, W \ {p}) = Pens(l, r, W) \cup {p}

LEMMA PentagonStep ==
  ASSUME NEW l, Source(l), NEW r, Source(r), NEW t, NEW W, Overlays(l, r, t, W),
         NEW p \in W, p \in Disputed(l, r), NEW t2, PentagonAt(t, p, l, r, t2)
  PROVE  PentagonMore(l, r, t2, W, p)
<1> DEFINE W2 == W \ {p}
<1>1. /\ Grown(t) /\ \A w \in W : w \in PlaceSet /\ w \in Compare(l, r)
      /\ \A w, v \in W : IsPrefix(w, v) => w = v
  BY StackPlaces
<1>2. /\ Grown(t2) /\ Places(t) \subseteq Places(t2)
      /\ Places(t2) = Places(t) \cup {Append(p, 1), Append(p, 2)} \cup Side(l, p, 1) \cup Side(r, p, 2)
      /\ StatusAt(t2, p) = "MERGED"
      /\ SideIs(l, p, 1, t2) /\ SideIs(r, p, 2, t2)
      /\ \A q \in Places(t) \ {p} :
           StatusAt(t2, q) = StatusAt(t, q) /\ \A k : Has(t2, q, k) <=> Has(t, q, k)
  BY DEF PentagonAt
<1>3. /\ \A w \in W : w \in Places(t) /\ Fresh(t, w)
      /\ \A q \in Places(t) : StatusAt(t, q) = "MERGED" <=> q \in Pens(l, r, W)
      /\ Settled(l, r, W) \subseteq Places(t)
      /\ \A q \in Settled(l, r, W) \cap Agreed(l, r) : StatusAt(t, q) = StatusAt(l, q)
      /\ \A q \in Pens(l, r, W) : SideKept(l, q, 1, t) /\ SideKept(r, q, 2, t)
      /\ \A q \in Places(t) \ (Settled(l, r, W) \cup UnderPens(l, r, W)) : Fresh(t, q)
  BY DEF Overlays
<1>4. p \in Places(t) /\ Has(t, p, 0) /\ p \in PlaceSet /\ p \notin Agreed(l, r) /\ p \in Compare(l, r)
  BY <1>1, <1>3, CompareIs DEF Fresh
<1>5. ASSUME NEW q \in Compare(l, r), IsPrefix(p, q), q # p PROVE FALSE
  <2>1. q \in PlaceSet
    BY CompareIs
  <2> QED BY <1>5, <2>1, BelowPentagon
<1>6. Settled(l, r, W2) = Settled(l, r, W) \cup {p}
  <2>1. PICK N : N = {}
    OBVIOUS
  <2>2. Settled(l, r, (W \ {p}) \cup N) = Settled(l, r, W) \cup {p}
    <3>1. \A q \in Compare(l, r) : IsPrefix(p, q) /\ q # p => \E n \in N : IsPrefix(n, q)
      BY <1>5
    <3>2. \A n \in N : n \in PlaceSet /\ IsPrefix(p, n) /\ n # p
      BY <2>1
    <3>3. \A w \in W : w \in PlaceSet
      BY <1>1
    <3>4. \A w, v \in W : IsPrefix(w, v) => w = v
      BY <1>1
    <3>5. p \in Compare(l, r)
      BY <1>4
    <3> QED BY <3>1, <3>2, <3>3, <3>4, <3>5, SettledNext
  <2> QED BY <2>1, <2>2
<1>7. Pens(l, r, W2) = Pens(l, r, W) \cup {p}
  BY <1>6 DEF Pens
<1>8. UnderPens(l, r, W2) = UnderPens(l, r, W) \cup Side(l, p, 1) \cup Side(r, p, 2)
  BY <1>7 DEF UnderPens
<1>9. p \notin Settled(l, r, W) /\ p \notin Pens(l, r, W)
  <2>1. IsPrefix(p, p)
    BY <1>4, PrefixOrder
  <2> QED BY <2>1 DEF Settled, Pens
<1>10. \A a \in {1, 2} : Append(p, a) \notin Places(t) /\ a \in Alternatives
  BY <1>4, OneAndTwo DEF Has
<1>11. ASSUME NEW src \in {l, r}, NEW side \in {1, 2}, NEW q \in PlacesBelow(src, p)
       PROVE  /\ UnderPentagon(p, side, q) \notin Places(t) /\ StatusAt(src, q) # "MERGED"
  <2>1. Source(src) /\ Grown(src)
    BY <1>1 DEF Source
  <2>2. q \in PlaceSet /\ IsPrefix(p, q) /\ StatusAt(src, q) \in SourceStatuses
    BY <2>1, SourceIs DEF PlacesBelow
  <2>3. PICK u : u = UnderPentagon(p, side, q)
    OBVIOUS
  <2>4. u \in PlaceSet /\ IsPrefix(p, u) /\ u # p
    BY <1>4, <1>10, <2>2, <2>3, UnderIs
  <2>5. u \notin Places(t)
    BY <1>1, <1>4, <2>4, NothingBelow
  <2> QED BY <2>2, <2>3, <2>5 DEF SourceStatuses
<1>12. ASSUME NEW src \in {l, r}, NEW side \in {1, 2}, PlacesBelow(src, p) # {}
       PROVE  Append(p, side) \in Side(src, p, side)
  <2>1. Source(src) /\ Grown(src)
    BY <1>1 DEF Source
  <2>2. PICK q : q \in Places(src) /\ IsPrefix(p, q)
    BY <1>12 DEF PlacesBelow
  <2>3. p \in Places(src) /\ IsPrefix(p, p)
    BY <1>4, <2>1, <2>2, PlacesAbove, PrefixOrder
  <2>4. PICK c : c = Append(p, side)
    OBVIOUS
  <2>5. c \in PlaceSet
    BY <1>4, <1>10, <2>4, AppendIs
  <2>6. UnderPentagon(p, side, p) = Graft(c, p, p)
    BY <1>4, <1>10, <2>3, <2>4, UnderIs
  <2>7. Graft(c, p, p) = c
    BY <1>4, <2>5, GraftSelf
  <2> QED BY <2>3, <2>4, <2>6, <2>7 DEF Side, PlacesBelow
<1>13. ASSUME NEW q \in Places(t2), q \notin Places(t)
       PROVE  \/ q \in Side(l, p, 1) \cup Side(r, p, 2) /\ StatusAt(t2, q) # "MERGED"
              \/ StatusAt(t2, q) = "UNDETERMINED" /\ Has(t2, q, 0)
  <2>1. ASSUME NEW src \in {l, r}, NEW side \in {1, 2}, SideIs(src, p, side, t2),
               q \in Side(src, p, side)
        PROVE  StatusAt(t2, q) # "MERGED"
    <3>1. PICK v \in PlacesBelow(src, p) : q = UnderPentagon(p, side, v)
      BY <2>1 DEF Side
    <3>2. StatusAt(t2, q) = StatusAt(src, v)
      BY <2>1, <3>1 DEF SideIs, SideKept
    <3> QED BY <1>11, <3>1, <3>2
  <2>2. q \in Side(l, p, 1) \cup Side(r, p, 2) => StatusAt(t2, q) # "MERGED"
    BY <1>2, <2>1
  <2>3. ASSUME q \notin Side(l, p, 1) \cup Side(r, p, 2)
        PROVE  StatusAt(t2, q) = "UNDETERMINED" /\ Has(t2, q, 0)
    <3>1. q = Append(p, 1) \/ q = Append(p, 2)
      BY <1>2, <1>13, <2>3
    <3>2. CASE q = Append(p, 1)
      <4>1. PlacesBelow(l, p) = {}
        BY <1>12, <2>3, <3>2
      <4> QED BY <1>2, <3>2, <4>1 DEF SideIs
    <3>3. CASE q = Append(p, 2)
      <4>1. PlacesBelow(r, p) = {}
        BY <1>12, <2>3, <3>3
      <4> QED BY <1>2, <3>3, <4>1 DEF SideIs
    <3> QED BY <3>1, <3>2, <3>3
  <2> QED BY <2>2, <2>3
<1> HIDE DEF W2
<1>14. ASSUME NEW w \in W2 PROVE w \in Compare(l, r) /\ w \in Places(t2) /\ Fresh(t2, w)
  <2>1. w \in W /\ w # p
    BY DEF W2
  <2> QED BY <1>1, <1>2, <1>3, <2>1 DEF Fresh
<1>15. ASSUME NEW q \in Places(t2)
       PROVE  StatusAt(t2, q) = "MERGED" <=> q \in Pens(l, r, W2)
  <2>1. CASE q \in Places(t)
    BY <1>2, <1>3, <1>7, <2>1
  <2>2. CASE q \notin Places(t)
    <3>1. q \notin Pens(l, r, W2)
      BY <1>3, <1>4, <1>7, <2>2 DEF Pens
    <3>2. StatusAt(t2, q) # "MERGED"
      BY <1>13, <2>2
    <3> QED BY <3>1, <3>2
  <2> QED BY <2>1, <2>2
<1>16. Settled(l, r, W2) \subseteq Places(t2)
  BY <1>2, <1>3, <1>4, <1>6
<1>17. \A q \in Settled(l, r, W2) \cap Agreed(l, r) : StatusAt(t2, q) = StatusAt(l, q)
  BY <1>2, <1>3, <1>4, <1>6
<1>18. ASSUME NEW d \in Pens(l, r, W), NEW side \in {1, 2}, NEW src, SideKept(src, d, side, t),
              Source(src)
       PROVE  SideKept(src, d, side, t2)
  <2> SUFFICES ASSUME NEW q \in PlacesBelow(src, d)
               PROVE  /\ UnderPentagon(d, side, q) \in Places(t2)
                      /\ StatusAt(t2, UnderPentagon(d, side, q)) = StatusAt(src, q)
    BY DEF SideKept
  <2>1. PICK u : u = UnderPentagon(d, side, q)
    OBVIOUS
  <2>2. u \in Places(t) /\ StatusAt(t, u) = StatusAt(src, q)
    BY <1>18, <2>1 DEF SideKept
  <2>3. d \in Disputed(l, r) /\ d \in PlaceSet /\ q \in PlaceSet /\ IsPrefix(d, q)
    BY <1>18, CompareIs, SourceIs DEF Pens, Settled, PlacesBelow
  <2>4. u \in PlaceSet /\ IsPrefix(d, u) /\ u # d
    BY <2>1, <2>3, OneAndTwo, UnderIs
  <2>5. u # p
    BY <1>1, <2>3, <2>4, BelowPentagon
  <2> QED BY <1>2, <2>1, <2>2, <2>5
<1>19. \A d \in Pens(l, r, W2) : SideKept(l, d, 1, t2) /\ SideKept(r, d, 2, t2)
  <2>1. SideKept(l, p, 1, t2) /\ SideKept(r, p, 2, t2)
    BY <1>2 DEF SideIs
  <2> QED BY <1>3, <1>7, <1>18, <2>1
<1>20. ASSUME NEW q \in Places(t2) \ (Settled(l, r, W2) \cup UnderPens(l, r, W2))
       PROVE  Fresh(t2, q)
  <2>1. /\ q # p /\ q \notin Settled(l, r, W) \cup UnderPens(l, r, W)
        /\ q \notin Side(l, p, 1) \cup Side(r, p, 2)
    BY <1>6, <1>8
  <2>2. CASE q \in Places(t)
    BY <1>2, <1>3, <2>1, <2>2 DEF Fresh
  <2>3. CASE q \notin Places(t)
    BY <1>13, <2>1, <2>3 DEF Fresh
  <2> QED BY <2>2, <2>3
<1>21. Overlays(l, r, t2, W2)
  BY <1>2, <1>14, <1>15, <1>16, <1>17, <1>19, <1>20 DEF Overlays
<1> QED BY <1>7, <1>9, <1>21 DEF W2, PentagonMore

\* r2 is r1 with what src has at p below the side of the pentagon there.
OneSide(r1, p, side, src, r2) ==
  /\ Grown(r2.tree) /\ Keeps(r1.tree, r2.tree)
  /\ Places(r2.tree) = Places(r1.tree) \cup Side(src, p, side)
  /\ SideIs(src, p, side, r2.tree)
  /\ \A q \in Places(r1.tree) \ {Append(p, side)} :
       /\ StatusAt(r2.tree, q) = StatusAt(r1.tree, q)
       /\ \A k : Has(r2.tree, q, k) <=> Has(r1.tree, q, k)
  /\ \A b, u \in Int : Counts(r1, b, u) => Counts(r2, b, u)

LEMMA SideCopied ==
  ASSUME NEW r1, Grown(r1.tree), NEW nid \in NodesOf(r1.tree),
         NEW p \in PlaceSet, NEW side \in Alternatives, r1.tree.place[nid] = Append(p, side),
         Has(r1.tree, Append(p, side), 0), r1.tree.status[nid] = "UNDETERMINED",
         NEW src, Source(src), NEW n, n = NodeAt(src, p),
         NEW r2, r2 = IF n = NoNode THEN r1 ELSE CopyTreeInto(r1, nid, src, n)
  PROVE  OneSide(r1, p, side, src, r2)
<1>1. Grown(src)
  BY DEF Source
<1>2. /\ n # NoNode <=> p \in Places(src)
      /\ p \in Places(src) => n \in NodesOf(src) /\ src.place[n] = p
  BY <1>1, NodeAtIs
<1>3. PICK c : c = Append(p, side)
  OBVIOUS
<1>4. c \in PlaceSet /\ c \in Places(r1.tree) /\ StatusAt(r1.tree, c) = "UNDETERMINED"
  <2>1. c \in PlaceSet
    BY <1>3, AppendIs
  <2>2. c = r1.tree.place[nid]
    BY <1>3
  <2> QED BY <2>1, <2>2, NodesAndPlaces
<1>5. \A x \in PlacesBelow(src, p) : x \in PlaceSet /\ Graft(c, p, x) = UnderPentagon(p, side, x)
  <2> SUFFICES ASSUME NEW x \in PlacesBelow(src, p)
               PROVE  x \in PlaceSet /\ Graft(c, p, x) = UnderPentagon(p, side, x)
    OBVIOUS
  <2>1. x \in PlaceSet /\ IsPrefix(p, x)
    BY SourceIs DEF PlacesBelow
  <2> QED BY <1>3, <2>1, UnderIs
<1>6. CASE p \in Places(src)
  <2>1. r2 = CopyTreeInto(r1, nid, src, n)
    BY <1>2, <1>6
  <2>2. Copied(r1, c, src, p, r2)
    <3>1. c = r1.tree.place[nid] /\ Has(r1.tree, c, 0) /\ n \in NodesOf(src) /\ p = src.place[n]
      BY <1>2, <1>3, <1>6
    <3> QED BY <1>1, <2>1, <3>1, CopyIs
  <2>3. {Graft(c, p, x) : x \in PlacesBelow(src, p)} = Side(src, p, side)
    BY <1>5 DEF Side
  <2>4. PlacesBelow(src, p) # {}
    BY <1>6, PrefixOrder DEF PlacesBelow
  <2>5. /\ Grown(r2.tree) /\ Keeps(r1.tree, r2.tree)
        /\ Places(r2.tree) = Places(r1.tree) \cup Side(src, p, side)
        /\ \A x \in PlacesBelow(src, p) : StatusAt(r2.tree, Graft(c, p, x)) = StatusAt(src, x)
        /\ \A q \in Places(r1.tree) \ {c} :
             /\ StatusAt(r2.tree, q) = StatusAt(r1.tree, q)
             /\ \A k : Has(r2.tree, q, k) <=> Has(r1.tree, q, k)
        /\ \A b, u \in Int : Counts(r1, b, u) => Counts(r2, b, u)
    BY <2>2, <2>3 DEF Copied
  <2>6. SideIs(src, p, side, r2.tree)
    BY <1>5, <2>4, <2>5 DEF SideIs, SideKept, Side
  <2> QED BY <1>3, <2>5, <2>6 DEF OneSide
<1>7. CASE p \notin Places(src)
  <2>1. r2 = r1
    BY <1>2, <1>7
  <2>2. PlacesBelow(src, p) = {}
    BY <1>1, <1>7, PlacesAbove DEF PlacesBelow
  <2>3. Side(src, p, side) = {}
    BY <2>2 DEF Side
  <2>4. SideIs(src, p, side, r1.tree)
    BY <1>3, <1>4, <2>2 DEF SideIs, SideKept
  <2>5. Keeps(r1.tree, r1.tree)
    BY DEF Keeps
  <2> HIDE DEF Counts
  <2> QED BY <2>1, <2>3, <2>4, <2>5 DEF OneSide
<1> QED BY <1>6, <1>7

LEMMA KeepsOn ==
  ASSUME NEW t, NEW t2, NEW t3, Keeps(t, t2), Keeps(t2, t3)
  PROVE  Keeps(t, t3)
BY DEF Keeps

\* The two children of a pentagon.
TwoSides(p, c1, c2) ==
  /\ c1 \in PlaceSet /\ c2 \in PlaceSet /\ c1 # c2 /\ c1 # p /\ c2 # p
  /\ \A q \in PlaceSet : IsPrefix(q, c1) <=> q = c1 \/ IsPrefix(q, p)
  /\ \A q \in PlaceSet : IsPrefix(q, c2) <=> q = c2 \/ IsPrefix(q, p)
  /\ IsPrefix(p, c1) /\ IsPrefix(p, c2) /\ ~IsPrefix(c1, p) /\ ~IsPrefix(c2, p)

LEMMA Sides ==
  ASSUME NEW p \in PlaceSet, NEW c1, c1 = Append(p, 1), NEW c2, c2 = Append(p, 2)
  PROVE  TwoSides(p, c1, c2)
<1>1. PICK a \in Alternatives, b \in Alternatives : a = 1 /\ b = 2
  BY OneAndTwo
<1>2. /\ Append(p, a) \in PlaceSet /\ Append(p, a) # p
      /\ \A q \in PlaceSet : IsPrefix(q, Append(p, a)) <=> q = Append(p, a) \/ IsPrefix(q, p)
      /\ IsPrefix(p, Append(p, a)) /\ ~IsPrefix(Append(p, a), p)
  BY AppendIs
<1>3. /\ Append(p, b) \in PlaceSet /\ Append(p, b) # p
      /\ \A q \in PlaceSet : IsPrefix(q, Append(p, b)) <=> q = Append(p, b) \/ IsPrefix(q, p)
      /\ IsPrefix(p, Append(p, b)) /\ ~IsPrefix(Append(p, b), p)
  BY AppendIs
<1>4. Append(p, a) = Append(p, b) => a = b
  BY AppendSame
<1> QED BY <1>1, <1>2, <1>3, <1>4 DEF TwoSides

LEMMA CreatePentagonIs ==
  ASSUME NEW m, NEW l, l = TreeL(m), NEW r, r = TreeR(m), Source(l), Source(r),
         NEW res, Grown(res.tree), NEW target \in NodesOf(res.tree),
         NEW p, p = res.tree.place[target], Has(res.tree, p, 0),
         res.tree.status[target] = "UNDETERMINED",
         NEW left, left = NodeAt(l, p), NEW right, right = NodeAt(r, p),
         NEW res2, res2 = CreatePentagon(res, target, m, left, right)
  PROVE  /\ PentagonAt(res.tree, p, l, r, res2.tree)
         /\ \A b, u \in Int : Counts(res, b, u) => Counts(res2, b, u)
<1>1. PICK pen : pen = Promote(res, target, 2, "MERGED")
  OBVIOUS
<1>2. PICK one : one = IF left = NoNode THEN pen
                       ELSE CopyTreeInto(pen, Child(pen.tree, target, 1), l, left)
  OBVIOUS
<1>3. res2 = IF right = NoNode THEN one
             ELSE CopyTreeInto(one, Child(one.tree, target, 2), r, right)
  BY <1>1, <1>2 DEF CreatePentagon
<1>4. p \in PlaceSet /\ p \in Places(res.tree)
  BY NodesAndPlaces
<1>5. PICK c1, c2 : c1 = Append(p, 1) /\ c2 = Append(p, 2)
  OBVIOUS
<1>6. /\ c1 \in PlaceSet /\ c2 \in PlaceSet /\ c1 # c2 /\ c1 # p /\ c2 # p
      /\ \A q \in PlaceSet : IsPrefix(q, c2) <=> q = c2 \/ IsPrefix(q, p)
      /\ ~IsPrefix(c1, p)
  <2>1. TwoSides(p, c1, c2)
    BY <1>4, <1>5, Sides
  <2> QED BY <2>1 DEF TwoSides
<1>7. Sprouts(res.tree, p, 2, "MERGED", pen.tree)
  <2>1. pen.tree = Promoted(res.tree, target, 2, "MERGED")
    BY <1>1 DEF Promote
  <2>2. "MERGED" \in TreeStatuses
    BY DEF TreeStatuses
  <2> QED BY <2>1, <2>2, PromotedIs
<1>8. /\ Grown(pen.tree) /\ Keeps(res.tree, pen.tree)
      /\ Places(pen.tree) = Places(res.tree) \cup {c1, c2}
      /\ StatusAt(pen.tree, p) = "MERGED"
      /\ \A q \in Places(res.tree) \ {p} : StatusAt(pen.tree, q) = StatusAt(res.tree, q)
      /\ \A q \in Places(res.tree) \ {p} : \A k : Has(pen.tree, q, k) <=> Has(res.tree, q, k)
      /\ \A q \in Places(pen.tree) \ Places(res.tree) :
           StatusAt(pen.tree, q) = "UNDETERMINED" /\ Has(pen.tree, q, 0)
  <2>1. {Append(p, a) : a \in 1 .. 2} = {c1, c2}
    <3>1. 1 .. 2 = {1, 2}
      OBVIOUS
    <3> QED BY <1>5, <3>1
  <2> QED BY <1>4, <1>7, <2>1 DEF Sprouts
<1>9. c1 \notin Places(res.tree) /\ c2 \notin Places(res.tree)
  BY <1>5, OneAndTwo DEF Has
<1>10. \A b, u \in Int : Counts(res, b, u) => Counts(pen, b, u)
  <2>1. "MERGED" \in TreeStatuses
    BY DEF TreeStatuses
  <2> QED BY <1>1, <2>1, StatsKept
<1>11. PICK n1 : n1 = Child(pen.tree, target, 1)
  OBVIOUS
<1>12. /\ n1 \in NodesOf(pen.tree) /\ pen.tree.place[n1] = c1
       /\ pen.tree.status[n1] = "UNDETERMINED" /\ Has(pen.tree, c1, 0)
  <2>1. pen.tree.place[target] = p
    BY <1>8 DEF Keeps
  <2>2. n1 = At(pen.tree, c1)
    BY <1>5, <1>11, <2>1 DEF Child
  <2>3. c1 \in Places(pen.tree) \ Places(res.tree)
    BY <1>8, <1>9
  <2> QED BY <1>8, <2>2, <2>3, NodesAndPlaces
<1>13. OneSide(pen, p, 1, l, one)
  <2>1. one = IF left = NoNode THEN pen ELSE CopyTreeInto(pen, n1, l, left)
    BY <1>2, <1>11
  <2> QED BY <1>4, <1>5, <1>8, <1>12, <2>1, OneAndTwo, SideCopied
<1>14. /\ Grown(one.tree) /\ Keeps(pen.tree, one.tree)
       /\ Places(one.tree) = Places(pen.tree) \cup Side(l, p, 1)
       /\ SideIs(l, p, 1, one.tree)
       /\ \A q \in Places(pen.tree) \ {c1} :
            /\ StatusAt(one.tree, q) = StatusAt(pen.tree, q)
            /\ \A k : Has(one.tree, q, k) <=> Has(pen.tree, q, k)
       /\ \A b, u \in Int : Counts(pen, b, u) => Counts(one, b, u)
  BY <1>5, <1>13 DEF OneSide
<1>15. PICK n2 : n2 = Child(one.tree, target, 2)
  OBVIOUS
<1>16. /\ n2 \in NodesOf(one.tree) /\ one.tree.place[n2] = c2
       /\ one.tree.status[n2] = "UNDETERMINED" /\ Has(one.tree, c2, 0)
  <2>1. one.tree.place[target] = p
    <3>1. Keeps(res.tree, one.tree)
      BY <1>8, <1>14, KeepsOn
    <3> QED BY <3>1 DEF Keeps
  <2>2. n2 = At(one.tree, c2)
    BY <1>5, <1>15, <2>1 DEF Child
  <2>3. c2 \in Places(pen.tree) \ Places(res.tree) /\ c2 \in Places(one.tree)
    BY <1>8, <1>9, <1>14
  <2>4. StatusAt(one.tree, c2) = "UNDETERMINED" /\ Has(one.tree, c2, 0)
    BY <1>6, <1>8, <1>14, <2>3
  <2> QED BY <1>14, <2>2, <2>3, <2>4, NodesAndPlaces
<1>17. OneSide(one, p, 2, r, res2)
  <2>1. res2 = IF right = NoNode THEN one ELSE CopyTreeInto(one, n2, r, right)
    BY <1>3, <1>15
  <2> QED BY <1>4, <1>5, <1>14, <1>16, <2>1, OneAndTwo, SideCopied
<1>18. /\ Grown(res2.tree) /\ Keeps(one.tree, res2.tree)
       /\ Places(res2.tree) = Places(one.tree) \cup Side(r, p, 2)
       /\ SideIs(r, p, 2, res2.tree)
       /\ \A q \in Places(one.tree) \ {c2} :
            /\ StatusAt(res2.tree, q) = StatusAt(one.tree, q)
            /\ \A k : Has(res2.tree, q, k) <=> Has(one.tree, q, k)
       /\ \A b, u \in Int : Counts(one, b, u) => Counts(res2, b, u)
  BY <1>5, <1>17 DEF OneSide
<1>19. Keeps(res.tree, res2.tree)
  BY <1>8, <1>14, <1>18, KeepsOn
<1>20. Places(res2.tree) = Places(res.tree) \cup {c1, c2} \cup Side(l, p, 1) \cup Side(r, p, 2)
  BY <1>8, <1>14, <1>18
<1>21. StatusAt(res2.tree, p) = "MERGED"
  BY <1>4, <1>6, <1>8, <1>14, <1>18
<1>22. \A q \in PlacesBelow(l, p) : UnderPentagon(p, 1, q) # c2
  <2> SUFFICES ASSUME NEW q \in PlacesBelow(l, p) PROVE UnderPentagon(p, 1, q) # c2
    OBVIOUS
  <2>1. q \in PlaceSet /\ IsPrefix(p, q)
    BY SourceIs DEF PlacesBelow
  <2>2. IsPrefix(c1, UnderPentagon(p, 1, q))
    BY <1>4, <1>5, <2>1, OneAndTwo, UnderIs
  <2> QED BY <1>6, <2>2
<1>23. SideIs(l, p, 1, res2.tree)
  <2>1. SideKept(l, p, 1, res2.tree)
    BY <1>14, <1>18, <1>22 DEF SideIs, SideKept
  <2>2. ASSUME PlacesBelow(l, p) = {}
        PROVE  StatusAt(res2.tree, c1) = "UNDETERMINED" /\ Has(res2.tree, c1, 0)
    <3>1. StatusAt(one.tree, c1) = "UNDETERMINED" /\ Has(one.tree, c1, 0)
      BY <1>5, <1>14, <2>2 DEF SideIs
    <3>2. c1 \in Places(one.tree) \ {c2}
      BY <1>6, <1>8, <1>14
    <3> QED BY <1>18, <3>1, <3>2
  <2> QED BY <1>5, <2>1, <2>2 DEF SideIs
<1>24. \A q \in Places(res.tree) \ {p} :
         /\ StatusAt(res2.tree, q) = StatusAt(res.tree, q)
         /\ \A k : Has(res2.tree, q, k) <=> Has(res.tree, q, k)
  <2> SUFFICES ASSUME NEW q \in Places(res.tree) \ {p}
               PROVE  /\ StatusAt(res2.tree, q) = StatusAt(res.tree, q)
                      /\ \A k : Has(res2.tree, q, k) <=> Has(res.tree, q, k)
    OBVIOUS
  <2>1. q # c1 /\ q # c2 /\ q \in Places(pen.tree) /\ q \in Places(one.tree)
    BY <1>8, <1>9, <1>14
  <2>2. StatusAt(pen.tree, q) = StatusAt(res.tree, q) /\ \A k : Has(pen.tree, q, k) <=> Has(res.tree, q, k)
    BY <1>8
  <2>3. StatusAt(one.tree, q) = StatusAt(pen.tree, q) /\ \A k : Has(one.tree, q, k) <=> Has(pen.tree, q, k)
    BY <1>14, <2>1
  <2>4. StatusAt(res2.tree, q) = StatusAt(one.tree, q) /\ \A k : Has(res2.tree, q, k) <=> Has(one.tree, q, k)
    BY <1>18, <2>1
  <2> QED BY <2>2, <2>3, <2>4
<1>25. \A b, u \in Int : Counts(res, b, u) => Counts(res2, b, u)
  <2> HIDE DEF Counts
  <2> QED BY <1>10, <1>14, <1>18
<1> QED BY <1>5, <1>18, <1>19, <1>20, <1>21, <1>23, <1>24, <1>25 DEF PentagonAt

-----------------------------------------------------------------------------
(* The children that are compared *)

\* The alternatives of S, each once.
Chosen(alts, S) ==
  /\ alts \in Seq(Alternatives)
  /\ \A i \in DOMAIN alts : alts[i] \in S
  /\ \A a \in S : \E i \in DOMAIN alts : alts[i] = a
  /\ \A i, j \in DOMAIN alts : alts[i] = alts[j] => i = j

LEMMA ChosenAlternatives ==
  ASSUME NEW k \in Nat, NEW S, S \subseteq 1 .. k,
         NEW alts, alts = Those([i \in 1 .. k |-> i], S)
  PROVE  Chosen(alts, S)
<1>1. PICK s : s = [i \in 1 .. k |-> i]
  OBVIOUS
<1>2. s \in Seq(Alternatives)
  <2>1. \A i \in 1 .. k : i \in Alternatives
    BY DEF Alternatives
  <2>2. s = [i \in 1 .. k |-> i] /\ s \in [1 .. k -> Alternatives]
    BY <1>1, <2>1
  <2> QED BY <2>2, IsASeq
<1>3. alts \in Seq(Alternatives)
  BY <1>1, <1>2, ThoseTyped
<1>4. Len(alts) \in Nat /\ DOMAIN alts = 1 .. Len(alts)
  BY <1>3, LenProperties
<1>5. ToSet(alts) = ToSet(s) \cap S /\ \A x, y : Ahead(x, y, alts) => Ahead(x, y, s)
  BY <1>1, <1>2, ThoseInOrder
<1>6. ToSet(s) = 1 .. k
  BY <1>1 DEF ToSet
<1>7. ToSet(alts) = S
  BY <1>5, <1>6
<1>8. ASSUME NEW i \in DOMAIN alts, NEW j \in DOMAIN alts, alts[i] = alts[j], i < j
      PROVE  FALSE
  <2>1. Ahead(alts[i], alts[i], alts)
    BY <1>8 DEF Ahead
  <2>2. Ahead(alts[i], alts[i], s)
    BY <1>5, <2>1
  <2>3. PICK a, b \in DOMAIN s : a < b /\ s[a] = s[b]
    BY <2>2 DEF Ahead
  <2> QED BY <1>1, <2>3
<1>9. \A i, j \in DOMAIN alts : alts[i] = alts[j] => i = j
  <2> SUFFICES ASSUME NEW i \in DOMAIN alts, NEW j \in DOMAIN alts, alts[i] = alts[j]
               PROVE  i = j
    OBVIOUS
  <2>1. i < j \/ j < i \/ i = j
    BY <1>4
  <2>2. ~(i < j)
    BY <1>8
  <2>3. ~(j < i)
    BY <1>8
  <2> QED BY <2>1, <2>2, <2>3
<1> QED BY <1>3, <1>4, <1>7, <1>9 DEF ToSet, Chosen

\* The children of two equal nodes that are compared.
LEMMA ComparedChildren ==
  ASSUME NEW m, NEW l, l = TreeL(m), NEW r, r = TreeR(m), Source(l), Source(r),
         NEW p \in Agreed(l, r), NEW left, left = NodeAt(l, p), NEW right, right = NodeAt(r, p),
         NEW kids, kids = KidsOfBoth(m, left, right)
  PROVE  /\ kids \in Nat /\ (kids > 0 => StatusAt(l, p) = "BRANCH")
         /\ \A a \in 1 .. kids :
              /\ Pair(m, left, right, a) = <<NodeAt(l, Append(p, a)), NodeAt(r, Append(p, a))>>
              /\ Compared(m, left, right, a) <=> Append(p, a) \in Compare(l, r)
         /\ \A a \in Alternatives : Append(p, a) \in Compare(l, r) => a \in 1 .. kids
         /\ \A a \in 1 .. kids : Append(p, a) \in Places(l) \cup Places(r)
<1>1. Grown(l) /\ Grown(r)
  BY DEF Source
<1>2. p \in PlaceSet /\ p \in Places(l) /\ p \in Places(r) /\ StatusAt(l, p) = StatusAt(r, p)
  BY AgreedBelow
<1>3. left \in NodesOf(l) /\ l.place[left] = p /\ l.status[left] = StatusAt(l, p)
  BY <1>1, <1>2, NodeAtIs
<1>4. right \in NodesOf(r) /\ r.place[right] = p /\ r.status[right] = StatusAt(r, p)
  BY <1>1, <1>2, NodeAtIs
<1>5. PICK kl, kr : kl = ChildrenCount(l, left) /\ kr = ChildrenCount(r, right)
  OBVIOUS
<1>6. /\ kl \in Nat /\ (kl # 0 => StatusAt(l, p) \in {"BRANCH", "MERGED"})
      /\ \A a \in Alternatives : a <= kl <=> Append(p, a) \in Places(l)
  BY <1>1, <1>3, <1>5, ChildThere
<1>7. /\ kr \in Nat /\ (kr # 0 => StatusAt(r, p) \in {"BRANCH", "MERGED"})
      /\ \A a \in Alternatives : a <= kr <=> Append(p, a) \in Places(r)
  BY <1>1, <1>4, <1>5, ChildThere
<1>8. kids = IF kl >= kr THEN kl ELSE kr
  BY <1>5 DEF KidsOfBoth, Larger
<1>9. kids \in Nat /\ (kids > 0 => StatusAt(l, p) = "BRANCH")
  <2>1. StatusAt(l, p) \in SourceStatuses
    BY <1>2, SourceIs
  <2> QED BY <1>2, <1>6, <1>7, <1>8, <2>1 DEF SourceStatuses
<1>10. ASSUME NEW a \in 1 .. kids
       PROVE  /\ Pair(m, left, right, a) = <<NodeAt(l, Append(p, a)), NodeAt(r, Append(p, a))>>
              /\ Compared(m, left, right, a) <=> Append(p, a) \in Compare(l, r)
  <2>1. a \in Alternatives
    BY <1>9 DEF Alternatives
  <2>2. PICK c : c = Append(p, a)
    OBVIOUS
  <2>3. (IF a <= kl THEN Child(l, left, a) ELSE NoNode) = NodeAt(l, c)
    BY <1>3, <1>6, <2>1, <2>2 DEF NodeAt, Child
  <2>4. (IF a <= kr THEN Child(r, right, a) ELSE NoNode) = NodeAt(r, c)
    BY <1>4, <1>7, <2>1, <2>2 DEF NodeAt, Child
  <2>5. Pair(m, left, right, a) = <<NodeAt(l, c), NodeAt(r, c)>>
    BY <1>5, <2>3, <2>4 DEF Pair
  <2>6. /\ NodeAt(l, c) # NoNode <=> c \in Places(l)
        /\ c \in Places(l) => l.status[NodeAt(l, c)] = StatusAt(l, c)
    BY <1>1, NodeAtIs
  <2>7. /\ NodeAt(r, c) # NoNode <=> c \in Places(r)
        /\ c \in Places(r) => r.status[NodeAt(r, c)] = StatusAt(r, c)
    BY <1>1, NodeAtIs
  <2>8. Compared(m, left, right, a) <=>
          \/ c \in Places(l) /\ c \in Places(r)
          \/ Extra(l, c) \/ Extra(r, c)
    <3>1. PICK x, y : x = NodeAt(l, c) /\ y = NodeAt(r, c)
      OBVIOUS
    <3>2. Compared(m, left, right, a) <=>
            \/ x # NoNode /\ y # NoNode
            \/ x # NoNode /\ l.status[x] \notin {"UNDETERMINED", "SKIPPED"}
            \/ y # NoNode /\ r.status[y] \notin {"UNDETERMINED", "SKIPPED"}
      BY <2>5, <3>1 DEF Compared
    <3> QED BY <2>6, <2>7, <3>1, <3>2 DEF Extra
  <2>9. c \in Compare(l, r) <=>
          /\ p \in Agreed(l, r)
          /\ \/ c \in Places(l) /\ c \in Places(r)
             \/ Extra(l, c) \/ Extra(r, c)
    BY <1>2, <2>1, <2>2, CompareIs
  <2> QED BY <2>2, <2>5, <2>8, <2>9
<1>11. ASSUME NEW a \in Alternatives, Append(p, a) \in Compare(l, r) PROVE a \in 1 .. kids
  <2>1. Append(p, a) \in Places(l) \/ Append(p, a) \in Places(r)
    BY <1>11, CompareIs
  <2>2. a <= kids
    BY <1>6, <1>7, <1>8, <2>1 DEF Alternatives
  <2> QED BY <1>9, <2>2 DEF Alternatives
<1>12. ASSUME NEW a \in 1 .. kids PROVE Append(p, a) \in Places(l) \cup Places(r)
  <2>1. a \in Alternatives
    BY <1>9 DEF Alternatives
  <2>2. a <= kl \/ a <= kr
    BY <1>6, <1>7, <1>8
  <2> QED BY <1>6, <1>7, <2>1, <2>2
<1> QED BY <1>9, <1>10, <1>11, <1>12

-----------------------------------------------------------------------------
(* The stack of the merger *)

\* The places of the merged nodes that wait.
Pending(t, s) == {t.place[s[i][3]] : i \in DOMAIN s}

StackFits(l, r, t, s) ==
  /\ s \in Seq(Seq(Int))
  /\ \A i \in DOMAIN s : /\ s[i][3] \in NodesOf(t)
                         /\ s[i][1] = NodeAt(l, t.place[s[i][3]])
                         /\ s[i][2] = NodeAt(r, t.place[s[i][3]])
  /\ \A i, j \in DOMAIN s : s[i][3] = s[j][3] => i = j

\* The top h of the stack waits at p.
TopFits(l, r, t, s, h, p) ==
  /\ h[3] \in NodesOf(t) /\ h[1] = NodeAt(l, p) /\ h[2] = NodeAt(r, p)
  /\ p \in Pending(t, s) /\ Pending(t, Tail(s)) = Pending(t, s) \ {p}
  /\ StackFits(l, r, t, Tail(s))

LEMMA StackTop ==
  ASSUME NEW l, NEW r, NEW t, Grown(t), NEW s, StackFits(l, r, t, s), s # <<>>,
         NEW h, h = Head(s), NEW p, p = t.place[h[3]]
  PROVE  TopFits(l, r, t, s, h, p)
<1>1. s \in Seq(Seq(Int)) /\ Len(s) \in Nat /\ DOMAIN s = 1 .. Len(s) /\ Len(s) # 0
  <2>1. s \in Seq(Seq(Int))
    BY DEF StackFits
  <2> QED BY <2>1, LenProperties, EmptySeq
<1>2. h = s[1] /\ 1 \in DOMAIN s
  BY <1>1
<1>3. PICK tl : tl = Tail(s)
  OBVIOUS
<1>4. /\ tl \in Seq(Seq(Int)) /\ Len(tl) = Len(s) - 1 /\ DOMAIN tl = 1 .. Len(s) - 1
      /\ \A i \in DOMAIN tl : tl[i] = s[i + 1] /\ i + 1 \in DOMAIN s /\ i + 1 # 1
  <2>1. tl \in Seq(Seq(Int)) /\ Len(tl) = Len(s) - 1 /\ \A i \in 1 .. Len(tl) : tl[i] = s[i + 1]
    BY <1>1, <1>3, HeadTailProperties
  <2>2. DOMAIN tl = 1 .. Len(tl)
    BY <2>1, LenProperties
  <2> QED BY <1>1, <2>1, <2>2
<1>5. /\ \A i \in DOMAIN s : /\ s[i][3] \in NodesOf(t)
                             /\ s[i][1] = NodeAt(l, t.place[s[i][3]])
                             /\ s[i][2] = NodeAt(r, t.place[s[i][3]])
      /\ \A i, j \in DOMAIN s : s[i][3] = s[j][3] => i = j
  BY DEF StackFits
<1>6. h[3] \in NodesOf(t) /\ h[1] = NodeAt(l, p) /\ h[2] = NodeAt(r, p) /\ p \in Pending(t, s)
  BY <1>2, <1>5 DEF Pending
<1>7. StackFits(l, r, t, tl)
  <2>1. \A i \in DOMAIN tl : /\ tl[i][3] \in NodesOf(t)
                             /\ tl[i][1] = NodeAt(l, t.place[tl[i][3]])
                             /\ tl[i][2] = NodeAt(r, t.place[tl[i][3]])
    <3> SUFFICES ASSUME NEW i \in DOMAIN tl
                 PROVE  /\ tl[i][3] \in NodesOf(t)
                        /\ tl[i][1] = NodeAt(l, t.place[tl[i][3]])
                        /\ tl[i][2] = NodeAt(r, t.place[tl[i][3]])
      OBVIOUS
    <3>1. PICK a \in DOMAIN s : tl[i] = s[a]
      BY <1>4
    <3> QED BY <1>5, <3>1
  <2>2. ASSUME NEW i \in DOMAIN tl, NEW j \in DOMAIN tl, tl[i][3] = tl[j][3] PROVE i = j
    <3>1. i + 1 = j + 1
      <4>1. PICK a \in DOMAIN s : a = i + 1 /\ tl[i] = s[a]
        BY <1>4
      <4>2. PICK b \in DOMAIN s : b = j + 1 /\ tl[j] = s[b]
        BY <1>4
      <4>3. a = b
        BY <1>5, <2>2, <4>1, <4>2
      <4> QED BY <4>1, <4>2, <4>3
    <3>2. i \in Int /\ j \in Int
      BY <1>4
    <3> QED BY <3>1, <3>2
  <2> QED BY <1>4, <2>1, <2>2 DEF StackFits
<1>8. Pending(t, tl) = Pending(t, s) \ {p}
  <2>1. ASSUME NEW i \in DOMAIN tl PROVE t.place[tl[i][3]] \in Pending(t, s) \ {p}
    <3>1. tl[i] = s[i + 1] /\ i + 1 \in DOMAIN s /\ i + 1 # 1
      BY <1>4
    <3>2. tl[i][3] \in NodesOf(t) /\ tl[i][3] # h[3]
      BY <1>2, <1>5, <3>1
    <3>3. t.place[tl[i][3]] # p
      BY <1>6, <3>2, NodesAndPlaces
    <3> QED BY <3>1, <3>3 DEF Pending
  <2>2. ASSUME NEW i \in DOMAIN s, t.place[s[i][3]] # p
        PROVE  t.place[s[i][3]] \in Pending(t, tl)
    <3>1. i # 1
      BY <1>2, <2>2
    <3>2. PICK j : j = i - 1
      OBVIOUS
    <3>3. j \in DOMAIN tl /\ j + 1 = i
      BY <1>1, <1>4, <3>1, <3>2
    <3>4. tl[j] = s[i]
      BY <1>4, <3>3
    <3> QED BY <3>3, <3>4 DEF Pending
  <2> QED BY <2>1, <2>2 DEF Pending
<1> QED BY <1>3, <1>6, <1>7, <1>8 DEF TopFits

LEMMA StackKept ==
  ASSUME NEW l, NEW r, NEW t, NEW t2, Keeps(t, t2), NEW s, StackFits(l, r, t, s)
  PROVE  StackFits(l, r, t2, s) /\ Pending(t2, s) = Pending(t, s)
<1>1. \A i \in DOMAIN s : /\ s[i][3] \in NodesOf(t2)
                          /\ t2.place[s[i][3]] = t.place[s[i][3]]
  BY DEF StackFits, Keeps
<1> QED BY <1>1 DEF StackFits, Pending

\* The nodes of the stack wait at P.
Stacked(l, r, t, s, P) == StackFits(l, r, t, s) /\ Pending(t, s) = P

LEMMA StackBoth ==
  ASSUME NEW l, NEW r, NEW t, NEW a, NEW b, StackFits(l, r, t, a), StackFits(l, r, t, b),
         \A i \in DOMAIN a, j \in DOMAIN b : a[i][3] # b[j][3]
  PROVE  Stacked(l, r, t, a \o b, Pending(t, a) \cup Pending(t, b))
<1>1. a \in Seq(Seq(Int)) /\ b \in Seq(Seq(Int))
  BY DEF StackFits
<1>2. /\ Len(a) \in Nat /\ Len(b) \in Nat /\ DOMAIN a = 1 .. Len(a) /\ DOMAIN b = 1 .. Len(b)
  BY <1>1, LenProperties
<1>3. PICK c : c = a \o b
  OBVIOUS
<1>4. /\ c \in Seq(Seq(Int)) /\ Len(c) = Len(a) + Len(b)
      /\ \A i \in 1 .. Len(a) + Len(b) : c[i] = IF i <= Len(a) THEN a[i] ELSE b[i - Len(a)]
  BY <1>1, <1>3, ConcatProperties
<1>5. DOMAIN c = 1 .. Len(a) + Len(b)
  BY <1>4, LenProperties
<1>6. \A i \in DOMAIN c : \/ i \in DOMAIN a /\ c[i] = a[i]
                          \/ i - Len(a) \in DOMAIN b /\ c[i] = b[i - Len(a)]
  BY <1>2, <1>4, <1>5
<1>7. \A i \in DOMAIN c : /\ c[i][3] \in NodesOf(t)
                          /\ c[i][1] = NodeAt(l, t.place[c[i][3]])
                          /\ c[i][2] = NodeAt(r, t.place[c[i][3]])
  <2> SUFFICES ASSUME NEW i \in DOMAIN c
               PROVE  /\ c[i][3] \in NodesOf(t)
                      /\ c[i][1] = NodeAt(l, t.place[c[i][3]])
                      /\ c[i][2] = NodeAt(r, t.place[c[i][3]])
    OBVIOUS
  <2>1. CASE i \in DOMAIN a /\ c[i] = a[i]
    BY <2>1 DEF StackFits
  <2>2. ASSUME NEW k \in DOMAIN b, c[i] = b[k]
        PROVE  /\ c[i][3] \in NodesOf(t)
               /\ c[i][1] = NodeAt(l, t.place[c[i][3]])
               /\ c[i][2] = NodeAt(r, t.place[c[i][3]])
    BY <2>2 DEF StackFits
  <2> QED BY <1>6, <2>1, <2>2
<1>8. ASSUME NEW i \in DOMAIN c, NEW j \in DOMAIN c, c[i][3] = c[j][3] PROVE i = j
  <2>1. i \in Int /\ j \in Int
    BY <1>5
  <2>2. CASE i \in DOMAIN a /\ c[i] = a[i] /\ j \in DOMAIN a /\ c[j] = a[j]
    BY <1>8, <2>2 DEF StackFits
  <2>3. CASE i - Len(a) \in DOMAIN b /\ c[i] = b[i - Len(a)] /\ j - Len(a) \in DOMAIN b /\ c[j] = b[j - Len(a)]
    <3>1. i - Len(a) = j - Len(a)
      BY <1>8, <2>3 DEF StackFits
    <3> QED BY <1>2, <2>1, <3>1
  <2> QED BY <1>6, <1>8, <2>2, <2>3
<1>9. StackFits(l, r, t, c)
  BY <1>4, <1>7, <1>8 DEF StackFits
<1>10. Pending(t, c) = Pending(t, a) \cup Pending(t, b)
  <2>1. Pending(t, c) \subseteq Pending(t, a) \cup Pending(t, b)
    BY <1>6 DEF Pending
  <2>2. ASSUME NEW i \in DOMAIN a PROVE t.place[a[i][3]] \in Pending(t, c)
    <3>1. i \in DOMAIN c /\ c[i] = a[i]
      BY <1>2, <1>4, <1>5
    <3> QED BY <3>1 DEF Pending
  <2>3. ASSUME NEW i \in DOMAIN b PROVE t.place[b[i][3]] \in Pending(t, c)
    <3>1. PICK j : j = i + Len(a)
      OBVIOUS
    <3>2. j \in DOMAIN c /\ ~(j <= Len(a)) /\ j - Len(a) = i
      BY <1>2, <1>5, <3>1
    <3>3. c[j] = b[i]
      BY <1>4, <1>5, <3>2
    <3> QED BY <3>2, <3>3 DEF Pending
  <2> QED BY <2>1, <2>2, <2>3 DEF Pending
<1> QED BY <1>3, <1>9, <1>10 DEF Stacked

LEMMA PairAndOne ==
  ASSUME NEW x \in Int, NEW y \in Int, NEW z \in Int
  PROVE  /\ <<x, y>> \o <<z>> \in Seq(Int)
         /\ (<<x, y>> \o <<z>>)[1] = x /\ (<<x, y>> \o <<z>>)[2] = y
         /\ (<<x, y>> \o <<z>>)[3] = z
<1>1. PICK u, v : u = <<x, y>> /\ v = <<z>>
  OBVIOUS
<1>2. /\ u \in Seq(Int) /\ v \in Seq(Int) /\ Len(u) = 2 /\ Len(v) = 1
      /\ u[1] = x /\ u[2] = y /\ v[1] = z
  BY <1>1
<1>3. PICK w : w = u \o v
  OBVIOUS
<1>4. /\ w \in Seq(Int)
      /\ \A k \in 1 .. Len(u) + Len(v) : w[k] = IF k <= Len(u) THEN u[k] ELSE v[k - Len(u)]
  BY <1>2, <1>3, ConcatProperties
<1>5. 1 \in 1 .. 3 /\ 2 \in 1 .. 3 /\ 3 \in 1 .. 3 /\ Len(u) + Len(v) = 3 /\ 3 - Len(u) = 1
  BY <1>2
<1>6. w[1] = u[1] /\ w[2] = u[2] /\ w[3] = v[1]
  BY <1>2, <1>4, <1>5
<1> QED BY <1>1, <1>2, <1>3, <1>4, <1>6

\* The children of two equal nodes are pushed.
PushedOf(l, r, t, p, alts) ==
  [i \in DOMAIN alts |->
     <<NodeAt(l, Append(p, alts[i])), NodeAt(r, Append(p, alts[i]))>>
       \o <<At(t, Append(p, alts[i]))>>]

LEMMA StackPushed ==
  ASSUME NEW l, Grown(l), NEW r, Grown(r), NEW t, Grown(t), NEW p \in PlaceSet,
         NEW alts, alts \in Seq(Alternatives),
         \A i, j \in DOMAIN alts : alts[i] = alts[j] => i = j,
         \A i \in DOMAIN alts : Append(p, alts[i]) \in Places(t),
         NEW new, new = PushedOf(l, r, t, p, alts)
  PROVE  Stacked(l, r, t, new, {Append(p, alts[i]) : i \in DOMAIN alts})
<1>1. Len(alts) \in Nat /\ DOMAIN alts = 1 .. Len(alts) /\ \A i \in DOMAIN alts : alts[i] \in Alternatives
  BY LenProperties, ElementOfSeq
<1>2. ASSUME NEW i \in DOMAIN alts
      PROVE  /\ new[i] \in Seq(Int)
             /\ new[i][1] = NodeAt(l, Append(p, alts[i]))
             /\ new[i][2] = NodeAt(r, Append(p, alts[i]))
             /\ new[i][3] = At(t, Append(p, alts[i]))
             /\ new[i][3] \in NodesOf(t) /\ t.place[new[i][3]] = Append(p, alts[i])
  <2>1. PICK c : c = Append(p, alts[i])
    OBVIOUS
  <2>2. c \in Places(t)
    BY <1>2, <2>1
  <2>3. At(t, c) \in NodesOf(t) /\ t.place[At(t, c)] = c /\ At(t, c) \in Int
    BY <2>2, NodesAndPlaces, NumberOfNodes
  <2>4. PICK x, y, z : x = NodeAt(l, c) /\ y = NodeAt(r, c) /\ z = At(t, c)
    OBVIOUS
  <2>5. x \in Int /\ y \in Int /\ z \in Int
    BY <2>3, <2>4, NodeAtIs
  <2>6. new[i] = <<x, y>> \o <<z>>
    BY <2>1, <2>4 DEF PushedOf
  <2>7. /\ <<x, y>> \o <<z>> \in Seq(Int)
        /\ (<<x, y>> \o <<z>>)[1] = x /\ (<<x, y>> \o <<z>>)[2] = y
        /\ (<<x, y>> \o <<z>>)[3] = z
    BY <2>5, PairAndOne
  <2> QED BY <2>1, <2>3, <2>4, <2>6, <2>7
<1>3. new \in Seq(Seq(Int)) /\ DOMAIN new = DOMAIN alts
  <2>1. new = [i \in 1 .. Len(alts) |-> new[i]]
    BY <1>1 DEF PushedOf
  <2>2. new \in [1 .. Len(alts) -> Seq(Int)]
    BY <1>1, <1>2, <2>1
  <2> QED BY <1>1, <2>2, IsASeq
<1>4. ASSUME NEW i \in DOMAIN alts, NEW j \in DOMAIN alts, new[i][3] = new[j][3] PROVE i = j
  <2>1. Append(p, alts[i]) = Append(p, alts[j])
    BY <1>2, <1>4
  <2>2. PICK a \in Alternatives, b \in Alternatives : a = alts[i] /\ b = alts[j]
    BY <1>1
  <2>3. a = b
    BY <2>1, <2>2, AppendSame
  <2> QED BY <2>2, <2>3
<1> HIDE DEF NodesOf
<1>5. StackFits(l, r, t, new)
  BY <1>2, <1>3, <1>4 DEF StackFits
<1>6. Pending(t, new) = {Append(p, alts[i]) : i \in DOMAIN alts}
  <2>1. \A i \in DOMAIN new : t.place[new[i][3]] = Append(p, alts[i])
    BY <1>2, <1>3
  <2>2. ASSUME NEW q \in Pending(t, new) PROVE q \in {Append(p, alts[i]) : i \in DOMAIN alts}
    <3>1. PICK i \in DOMAIN new : q = t.place[new[i][3]]
      BY DEF Pending
    <3> QED BY <1>3, <2>1, <3>1
  <2>3. ASSUME NEW i \in DOMAIN alts PROVE Append(p, alts[i]) \in Pending(t, new)
    <3>1. i \in DOMAIN new /\ t.place[new[i][3]] = Append(p, alts[i])
      BY <1>3, <2>1
    <3> QED BY <3>1 DEF Pending
  <2> QED BY <2>2, <2>3
<1> QED BY <1>5, <1>6 DEF Stacked

-----------------------------------------------------------------------------
(* The list of pentagons *)

Entry(l, r, t, p) ==
  [pen |-> At(t, p), left |-> Cardinality(PlacesBelow(l, p)),
   right |-> Cardinality(PlacesBelow(r, p))]

\* The list has an entry for each pentagon of D and no other.
Listed(l, r, t, D, list) ==
  /\ list \in Seq([pen : Int, left : Int, right : Int])
  /\ Len(list) = Cardinality(D)
  /\ \A p \in D : \E i \in DOMAIN list : list[i] = Entry(l, r, t, p)
  /\ \A i \in DOMAIN list : \E p \in D : list[i] = Entry(l, r, t, p)

LEMMA CountedBelow ==
  ASSUME NEW t, Grown(t), NEW p \in PlaceSet
  PROVE  /\ CountDescendants(t, NodeAt(t, p)) = Cardinality(PlacesBelow(t, p))
         /\ Cardinality(PlacesBelow(t, p)) \in Nat
<1>1. PICK n : n = NodeAt(t, p)
  OBVIOUS
<1>2. CASE p \notin Places(t)
  <2>1. n = NoNode
    BY <1>1, <1>2, NodeAtIs
  <2>2. PlacesBelow(t, p) = {}
    BY <1>2, PlacesAbove DEF PlacesBelow
  <2>3. Cardinality(PlacesBelow(t, p)) = 0
    BY <2>2, FS_EmptySet
  <2> QED BY <1>1, <2>1, <2>3 DEF CountDescendants
<1>3. CASE p \in Places(t)
  <2>1. n # NoNode /\ n \in NodesOf(t) /\ t.place[n] = p
    BY <1>1, <1>3, NodeAtIs
  <2>2. CountDescendants(t, n) = Cardinality(Below(t, n))
    BY <2>1 DEF CountDescendants
  <2>3. /\ \A k \in Below(t, n) : t.place[k] \in PlacesBelow(t, p) /\ At(t, t.place[k]) = k
        /\ \A q \in PlacesBelow(t, p) : At(t, q) \in Below(t, n) /\ t.place[At(t, q)] = q
    BY <2>1, NodesAndPlaces DEF Below, PlacesBelow
  <2>4. IsFiniteSet(Below(t, n))
    BY NumberOfNodes, FS_Subset DEF Below
  <2> DEFINE f == [k \in Below(t, n) |-> t.place[k]]
  <2>5. f \in Bijection(Below(t, n), PlacesBelow(t, p))
    <3>1. f \in [Below(t, n) -> PlacesBelow(t, p)]
      BY <2>3
    <3>2. \A k, j \in Below(t, n) : f[k] = f[j] => k = j
      <4> SUFFICES ASSUME NEW k \in Below(t, n), NEW j \in Below(t, n), f[k] = f[j] PROVE k = j
        OBVIOUS
      <4>1. t.place[k] = t.place[j]
        OBVIOUS
      <4>2. At(t, t.place[k]) = k /\ At(t, t.place[j]) = j
        BY <2>3
      <4> QED BY <4>1, <4>2
    <3>3. \A q \in PlacesBelow(t, p) : \E k \in Below(t, n) : f[k] = q
      BY <2>3
    <3> HIDE DEF f
    <3> QED BY <3>1, <3>2, <3>3 DEF Bijection, Injection, Surjection, IsInjective
  <2>6. Cardinality(Below(t, n)) = Cardinality(PlacesBelow(t, p)) /\ Cardinality(Below(t, n)) \in Nat
    <3>1. ExistsBijection(Below(t, n), PlacesBelow(t, p))
      <4> HIDE DEF f
      <4> QED BY <2>5 DEF ExistsBijection
    <3> QED BY <2>4, <3>1, FS_Bijection, FS_CardinalityType
  <2> QED BY <1>1, <2>2, <2>6
<1> QED BY <1>2, <1>3

LEMMA ListKept ==
  ASSUME NEW l, NEW r, NEW t, NEW t2, Grown(t), Grown(t2), Keeps(t, t2),
         NEW D, D \subseteq Places(t), NEW list, Listed(l, r, t, D, list)
  PROVE  Listed(l, r, t2, D, list)
<1>1. \A p \in D : Entry(l, r, t2, p) = Entry(l, r, t, p)
  BY KeptPlaces DEF Entry
<1> QED BY <1>1 DEF Listed

LEMMA ListGrows ==
  ASSUME NEW l, Grown(l), NEW r, Grown(r), NEW t, Grown(t), NEW D, D \subseteq Places(t),
         NEW list, Listed(l, r, t, D, list), NEW p \in PlaceSet, p \in Places(t), p \notin D,
         NEW e, e = Entry(l, r, t, p)
  PROVE  Listed(l, r, t, D \cup {p}, Append(list, e))
<1>1. PICK E : E = [pen : Int, left : Int, right : Int]
  OBVIOUS
<1>2. e \in E
  <2>1. At(t, p) \in Int
    BY NodesAndPlaces, NumberOfNodes
  <2> QED BY <1>1, <2>1, CountedBelow DEF Entry
<1>3. list \in Seq(E) /\ Len(list) = Cardinality(D)
  BY <1>1 DEF Listed
<1>4. PICK list2 : list2 = Append(list, e)
  OBVIOUS
<1>5. /\ list2 \in Seq(E) /\ Len(list) \in Nat /\ Len(list2) = Len(list) + 1
      /\ DOMAIN list = 1 .. Len(list) /\ DOMAIN list2 = 1 .. Len(list) + 1
      /\ list2[Len(list) + 1] = e /\ \A i \in 1 .. Len(list) : list2[i] = list[i]
  BY <1>2, <1>3, <1>4, AppendProperties, LenProperties
<1>6. IsFiniteSet(D)
  <2>1. Places(t) = {t.place[n] : n \in NodesOf(t)}
    BY DEF Places
  <2>2. IsFiniteSet({t.place[n] : n \in NodesOf(t)})
    <3>1. IsFiniteSet(NodesOf(t))
      BY NumberOfNodes
    <3> HIDE DEF NodesOf
    <3> DEFINE f == [n \in NodesOf(t) |-> t.place[n]]
    <3>2. {f[n] : n \in NodesOf(t)} = {t.place[n] : n \in NodesOf(t)}
      OBVIOUS
    <3>3. f \in Surjection(NodesOf(t), {f[n] : n \in NodesOf(t)})
      BY DEF Surjection
    <3> HIDE DEF f
    <3>4. IsFiniteSet({f[n] : n \in NodesOf(t)})
      BY <3>1, <3>3, FS_Surjection
    <3> QED BY <3>2, <3>4
  <2> QED BY <2>1, <2>2, FS_Subset
<1>7. Cardinality(D \cup {p}) = Cardinality(D) + 1
  BY <1>6, FS_AddElement
<1>8. ASSUME NEW q \in D \cup {p} PROVE \E i \in DOMAIN list2 : list2[i] = Entry(l, r, t, q)
  <2>1. CASE q = p
    BY <1>5, <2>1
  <2>2. CASE q \in D
    <3>1. PICK i \in DOMAIN list : list[i] = Entry(l, r, t, q)
      BY <2>2 DEF Listed
    <3>2. i \in DOMAIN list2 /\ list2[i] = list[i]
      BY <1>5, <3>1
    <3> QED BY <3>1, <3>2
  <2> QED BY <2>1, <2>2
<1>9. ASSUME NEW i \in DOMAIN list2 PROVE \E q \in D \cup {p} : list2[i] = Entry(l, r, t, q)
  <2>1. CASE i = Len(list) + 1
    BY <1>5, <2>1
  <2>2. CASE i # Len(list) + 1
    <3>1. i \in DOMAIN list /\ list2[i] = list[i]
      BY <1>5, <2>2
    <3>2. PICK q \in D : list[i] = Entry(l, r, t, q)
      BY <3>1 DEF Listed
    <3> QED BY <3>1, <3>2
  <2> QED BY <2>1, <2>2
<1>10. Listed(l, r, t, D \cup {p}, list2)
  BY <1>1, <1>3, <1>5, <1>7, <1>8, <1>9 DEF Listed
<1> QED BY <1>4, <1>10

-----------------------------------------------------------------------------
(* A step of the merger *)

\* A place of the merged tree is one of the two trees, unless it is below a
\* pentagon.
BelowMerged(t, p) == \E q \in Places(t) : IsPrefix(q, p) /\ q # p /\ StatusAt(t, q) = "MERGED"
Founded(l, r, t) == \A p \in Places(t) : p \in Places(l) \cup Places(r) \/ BelowMerged(t, p)

LEMMA EqualFounded ==
  ASSUME NEW l, NEW r, NEW t, Grown(t), Founded(l, r, t), NEW p \in Places(t),
         StatusAt(t, p) # "MERGED", NEW k, NEW st, NEW t2, Sprouts(t, p, k, st, t2),
         \A a \in 1 .. k : Append(p, a) \in Places(l) \cup Places(r)
  PROVE  Founded(l, r, t2)
<1>1. /\ Places(t2) = Places(t) \cup {Append(p, a) : a \in 1 .. k}
      /\ \A q \in Places(t) : StatusAt(t2, q) = IF q = p THEN st ELSE StatusAt(t, q)
  BY DEF Sprouts
<1>2. ASSUME NEW q \in Places(t2), q \notin Places(l) \cup Places(r) PROVE BelowMerged(t2, q)
  <2>1. q \in Places(t)
    BY <1>1, <1>2
  <2>2. PICK d \in Places(t) : IsPrefix(d, q) /\ d # q /\ StatusAt(t, d) = "MERGED"
    BY <1>2, <2>1 DEF Founded, BelowMerged
  <2>3. d \in Places(t2) /\ StatusAt(t2, d) = "MERGED"
    BY <1>1, <2>2
  <2> QED BY <2>2, <2>3 DEF BelowMerged
<1> QED BY <1>2 DEF Founded

LEMMA PentagonFounded ==
  ASSUME NEW l, Source(l), NEW r, Source(r), NEW t, Grown(t), Founded(l, r, t),
         NEW p \in Places(t), NEW t2, PentagonAt(t, p, l, r, t2)
  PROVE  Founded(l, r, t2)
<1>1. /\ Grown(t2) /\ StatusAt(t2, p) = "MERGED"
      /\ Places(t2) = Places(t) \cup {Append(p, 1), Append(p, 2)} \cup Side(l, p, 1) \cup Side(r, p, 2)
      /\ \A q \in Places(t) \ {p} : StatusAt(t2, q) = StatusAt(t, q)
  BY DEF PentagonAt
<1>2. p \in PlaceSet
  BY NodesAndPlaces
<1>3. ASSUME NEW src, Source(src), NEW s \in Alternatives, NEW q \in Side(src, p, s)
      PROVE  IsPrefix(p, q) /\ q # p
  <2>1. PICK v \in PlacesBelow(src, p) : q = UnderPentagon(p, s, v)
    BY DEF Side
  <2>2. v \in Places(src) /\ IsPrefix(p, v)
    BY DEF PlacesBelow
  <2>3. v \in PlaceSet
    BY <1>3, <2>2, SourceIs
  <2> QED BY <1>2, <2>1, <2>2, <2>3, UnderIs
<1>4. ASSUME NEW q \in Places(t2) \ Places(t) PROVE IsPrefix(p, q) /\ q # p
  <2>1. ASSUME NEW a \in Alternatives, q = Append(p, a) PROVE IsPrefix(p, q) /\ q # p
    BY <1>2, <2>1, AppendIs
  <2>2. CASE q \in Side(l, p, 1)
    BY <1>3, <2>2, OneAndTwo
  <2>3. CASE q \in Side(r, p, 2)
    BY <1>3, <2>3, OneAndTwo
  <2> QED BY <1>1, <2>1, <2>2, <2>3, OneAndTwo
<1>5. ASSUME NEW q \in Places(t2), q \notin Places(l) \cup Places(r) PROVE BelowMerged(t2, q)
  <2>1. CASE q \in Places(t)
    <3>1. PICK d \in Places(t) : IsPrefix(d, q) /\ d # q /\ StatusAt(t, d) = "MERGED"
      BY <1>5, <2>1 DEF Founded, BelowMerged
    <3>2. d \in Places(t2) /\ StatusAt(t2, d) = "MERGED"
      BY <1>1, <3>1
    <3> QED BY <3>1, <3>2 DEF BelowMerged
  <2>2. CASE q \notin Places(t)
    <3>1. IsPrefix(p, q) /\ q # p /\ p \in Places(t2)
      BY <1>1, <1>4, <2>2
    <3> QED BY <1>1, <3>1 DEF BelowMerged
  <2> QED BY <2>1, <2>2
<1> QED BY <1>5 DEF Founded

\* The root is promoted although createRoot has counted it already.
RootCounted(res, W) ==
  IF <<>> \in W THEN StatusAt(res.tree, <<>>) = "BRANCH" /\ Counts(res, 0, 0)
  ELSE Counts(res, 1, -1)

\* What a merger has done with the nodes that no longer wait on its stack.
Overlay(l, r, res, s, list) ==
  LET W == Pending(res.tree, s)
  IN /\ Overlays(l, r, res.tree, W)
     /\ StackFits(l, r, res.tree, s)
     /\ Listed(l, r, res.tree, Pens(l, r, W), list)
     /\ RootCounted(res, W)
     /\ Founded(l, r, res.tree)

\* The node h at p is next; those at W wait.
NextIs(l, r, res, t, W, h, p) ==
  /\ t = res.tree /\ Grown(t) /\ Overlays(l, r, t, W) /\ Founded(l, r, t)
  /\ h[3] \in NodesOf(t) /\ t.place[h[3]] = p
  /\ h[1] = NodeAt(l, p) /\ h[2] = NodeAt(r, p)
  /\ p \in W /\ p \in PlaceSet /\ p \in Places(t) /\ p \in Compare(l, r) /\ Has(t, p, 0)
  /\ p # <<>> => t.status[h[3]] = "UNDETERMINED" /\ Counts(res, 1, -1)
  /\ p = <<>> => t.status[h[3]] = "BRANCH" /\ Counts(res, 0, 0)

\* The node h is next and tl is the rest of the stack.
NextOf(l, r, res, h, tl, list) ==
  \E t, W, p : /\ NextIs(l, r, res, t, W, h, p)
              /\ StackFits(l, r, t, tl) /\ Pending(t, tl) = W \ {p}
              /\ Listed(l, r, t, Pens(l, r, W), list)

LEMMA NextNode ==
  ASSUME NEW l, Source(l), NEW r, Source(r), NEW res, NEW s, NEW list,
         Overlay(l, r, res, s, list), s # <<>>, NEW h, h = Head(s), NEW tl, tl = Tail(s)
  PROVE  NextOf(l, r, res, h, tl, list)
<1>1. PICK t, W, p : t = res.tree /\ W = Pending(t, s) /\ p = t.place[h[3]]
  OBVIOUS
<1>2. /\ Overlays(l, r, t, W) /\ StackFits(l, r, t, s) /\ RootCounted(res, W)
      /\ Founded(l, r, t)
  BY <1>1 DEF Overlay
<1>3. Grown(t) /\ (\A w \in W : w \in PlaceSet) /\ \A w, v \in W : IsPrefix(w, v) => w = v
  BY <1>2, StackPlaces
<1>4. /\ h[3] \in NodesOf(t) /\ h[1] = NodeAt(l, p) /\ h[2] = NodeAt(r, p) /\ p \in W
      /\ StackFits(l, r, t, Tail(s)) /\ Pending(t, Tail(s)) = W \ {p}
      /\ Listed(l, r, t, Pens(l, r, W), list)
  <2>1. TopFits(l, r, t, s, h, p)
    BY <1>1, <1>2, <1>3, StackTop
  <2> QED BY <1>1, <2>1 DEF TopFits, Overlay
<1>5. p \in Compare(l, r) /\ p \in Places(t) /\ Has(t, p, 0) /\ p \in PlaceSet
      /\ (p # <<>> => StatusAt(t, p) = "UNDETERMINED")
  BY <1>2, <1>3, <1>4 DEF Overlays, Fresh
<1>6. StatusAt(t, p) = t.status[h[3]]
  <2>1. t.place[h[3]] = p
    BY <1>1
  <2> QED BY <1>3, <1>4, <2>1, NodesAndPlaces
<1>7. <<>> \in W <=> p = <<>>
  <2>1. <<>> \in W => IsPrefix(<<>>, p)
    BY <1>5, PrefixOrder
  <2> QED BY <1>3, <1>4, <2>1
<1>8. /\ p # <<>> => Counts(res, 1, -1)
      /\ p = <<>> => StatusAt(t, p) = "BRANCH" /\ Counts(res, 0, 0)
  <2> HIDE DEF Counts
  <2> QED BY <1>1, <1>2, <1>7 DEF RootCounted
<1>9. NextIs(l, r, res, t, W, h, p)
  <2> HIDE DEF Counts
  <2> QED BY <1>1, <1>2, <1>3, <1>4, <1>5, <1>6, <1>8 DEF NextIs
<1> QED BY <1>1, <1>4, <1>9 DEF NextOf

LEMMA StatsNext ==
  ASSUME NEW res, Grown(res.tree), NEW p, NEW n \in NodesOf(res.tree), NEW k \in Nat,
         NEW st \in TreeStatuses,
         p # <<>> => res.tree.status[n] = "UNDETERMINED" /\ Counts(res, 1, -1),
         p = <<>> => res.tree.status[n] = "BRANCH" /\ st = "BRANCH" /\ Counts(res, 0, 0)
  PROVE  Counts(Promote(res, n, k, st), 1, -1)
<1>1. CASE p = <<>>
  BY <1>1, StatsOfRoot
<1>2. CASE p # <<>>
  <2>1. 1 \in Int /\ -1 \in Int
    OBVIOUS
  <2>2. PICK b \in Int, u \in Int : b = 1 /\ u = -1
    BY <2>1
  <2>3. Counts(Promote(res, n, k, st), b, u)
    BY <1>2, <2>2, StatsKept
  <2> QED BY <2>2, <2>3
<1> QED BY <1>1, <1>2

\* What is pushed for the children of two equal nodes at p.
PushedFor(l, r, t, p, kids, new) ==
  \E alts \in Seq(Alternatives) :
    /\ \A i, j \in DOMAIN alts : alts[i] = alts[j] => i = j
    /\ \A i \in DOMAIN alts : alts[i] \in 1 .. kids /\ Append(p, alts[i]) \in Compare(l, r)
    /\ \A a \in 1 .. kids : Append(p, a) \in Compare(l, r) => \E i \in DOMAIN alts : alts[i] = a
    /\ new = PushedOf(l, r, t, p, alts)

Kids(l, r, p, kids) == {q \in Compare(l, r) : \E a \in 1 .. kids : q = Append(p, a)}

LEMMA PushedFits ==
  ASSUME NEW l, Grown(l), NEW r, Grown(r), NEW t, Grown(t), NEW p \in PlaceSet,
         NEW kids, \A a \in 1 .. kids : Append(p, a) \in Places(t),
         NEW new, PushedFor(l, r, t, p, kids, new)
  PROVE  Stacked(l, r, t, new, Kids(l, r, p, kids))
<1>1. PICK alts \in Seq(Alternatives) :
        /\ \A i, j \in DOMAIN alts : alts[i] = alts[j] => i = j
        /\ \A i \in DOMAIN alts : alts[i] \in 1 .. kids /\ Append(p, alts[i]) \in Compare(l, r)
        /\ \A a \in 1 .. kids : Append(p, a) \in Compare(l, r) => \E i \in DOMAIN alts : alts[i] = a
        /\ new = PushedOf(l, r, t, p, alts)
  BY DEF PushedFor
<1>2. \A i \in DOMAIN alts : Append(p, alts[i]) \in Places(t)
  BY <1>1
<1>3. Stacked(l, r, t, new, {Append(p, alts[i]) : i \in DOMAIN alts})
  BY <1>1, <1>2, StackPushed
<1>4. {Append(p, alts[i]) : i \in DOMAIN alts} = Kids(l, r, p, kids)
  <2>1. ASSUME NEW i \in DOMAIN alts PROVE Append(p, alts[i]) \in Kids(l, r, p, kids)
    BY <1>1 DEF Kids
  <2>2. ASSUME NEW q \in Kids(l, r, p, kids) PROVE q \in {Append(p, alts[i]) : i \in DOMAIN alts}
    <3>1. PICK a \in 1 .. kids : q = Append(p, a) /\ q \in Compare(l, r)
      BY DEF Kids
    <3>2. PICK i \in DOMAIN alts : alts[i] = a
      BY <1>1, <3>1
    <3> QED BY <3>1, <3>2
  <2> QED BY <2>1, <2>2
<1> QED BY <1>3, <1>4

LEMMA EqualNext ==
  ASSUME NEW l, Source(l), NEW r, Source(r), NEW res, NEW t, NEW W, NEW h, NEW p,
         NextIs(l, r, res, t, W, h, p), p \in Agreed(l, r),
         NEW tl, StackFits(l, r, t, tl), Pending(t, tl) = W \ {p},
         NEW list, Listed(l, r, t, Pens(l, r, W), list),
         NEW kids \in Nat, NEW st, st = StatusAt(l, p), kids > 0 => st = "BRANCH",
         \A a \in Alternatives : Append(p, a) \in Compare(l, r) => a \in 1 .. kids,
         \A a \in 1 .. kids : Append(p, a) \in Places(l) \cup Places(r),
         NEW res2, res2 = Promote(res, h[3], kids, st),
         NEW new, PushedFor(l, r, res2.tree, p, kids, new)
  PROVE  Overlay(l, r, res2, new \o tl, list)
<1>1. /\ t = res.tree /\ Grown(t) /\ Overlays(l, r, t, W) /\ Founded(l, r, t)
      /\ h[3] \in NodesOf(t) /\ t.place[h[3]] = p
      /\ p \in W /\ p \in PlaceSet /\ p \in Places(t) /\ Has(t, p, 0)
      /\ p # <<>> => t.status[h[3]] = "UNDETERMINED" /\ Counts(res, 1, -1)
      /\ p = <<>> => t.status[h[3]] = "BRANCH" /\ Counts(res, 0, 0)
  <2> HIDE DEF Counts
  <2> QED BY DEF NextIs
<1>2. Grown(l) /\ Grown(r)
  BY DEF Source
<1>3. st \in TreeStatuses /\ st # "MERGED" /\ (p = <<>> => st = "BRANCH")
  <2>1. p \in Places(l)
    BY AgreedBelow
  <2> QED BY <2>1, SourceIs DEF TreeStatuses, SourceStatuses
<1>4. PICK t2 : t2 = res2.tree
  OBVIOUS
<1>5. Sprouts(t, p, kids, st, t2)
  <2>1. t2 = Promoted(t, h[3], kids, st)
    BY <1>1, <1>4 DEF Promote
  <2>2. kids > 0 => st \in {"BRANCH", "MERGED"}
    OBVIOUS
  <2> QED BY <1>1, <1>3, <2>1, <2>2, PromotedIs
<1>6. /\ Grown(t2) /\ Keeps(t, t2)
      /\ Places(t2) = Places(t) \cup {Append(p, a) : a \in 1 .. kids}
  BY <1>5 DEF Sprouts
<1>7. PICK N : N = Kids(l, r, p, kids)
  OBVIOUS
<1>8. StackFits(l, r, t2, new) /\ Pending(t2, new) = N
  <2>1. \A a \in 1 .. kids : Append(p, a) \in Places(t2)
    BY <1>6
  <2>2. Stacked(l, r, t2, new, N)
    BY <1>1, <1>2, <1>4, <1>6, <1>7, <2>1, PushedFits
  <2> QED BY <2>2 DEF Stacked
<1>9. StackFits(l, r, t2, tl) /\ Pending(t2, tl) = W \ {p}
  BY <1>6, StackKept
<1>10. \A n \in N : n \notin Places(t)
  <2> SUFFICES ASSUME NEW n \in N PROVE n \notin Places(t)
    OBVIOUS
  <2>1. PICK a \in 1 .. kids : n = Append(p, a)
    BY <1>7 DEF Kids
  <2>2. a \in Alternatives /\ ~(a <= 0)
    BY DEF Alternatives
  <2> QED BY <1>1, <2>1, <2>2 DEF Has
<1>11. \A i \in DOMAIN new, j \in DOMAIN tl : new[i][3] # tl[j][3]
  <2> SUFFICES ASSUME NEW i \in DOMAIN new, NEW j \in DOMAIN tl, new[i][3] = tl[j][3]
               PROVE  FALSE
    OBVIOUS
  <2>1. tl[j][3] \in NodesOf(t)
    BY DEF StackFits
  <2>2. t.place[tl[j][3]] \in Places(t)
    BY <1>1, <2>1, NodesAndPlaces
  <2>3. t2.place[tl[j][3]] \in Places(t)
    BY <1>6, <2>1, <2>2 DEF Keeps
  <2>4. t2.place[new[i][3]] \in N
    BY <1>8 DEF Pending
  <2> QED BY <1>10, <2>3, <2>4
<1>12. PICK s2 : s2 = new \o tl
  OBVIOUS
<1>13. StackFits(l, r, t2, s2) /\ Pending(t2, s2) = (W \ {p}) \cup N
  <2>1. Stacked(l, r, t2, new \o tl, Pending(t2, new) \cup Pending(t2, tl))
    BY <1>8, <1>9, <1>11, StackBoth
  <2> QED BY <1>8, <1>9, <1>12, <2>1 DEF Stacked
<1>14. Overlays(l, r, t2, (W \ {p}) \cup N)
  <2>1. \A n \in N : \E a \in 1 .. kids : n = Append(p, a) /\ n \in Compare(l, r)
    BY <1>7 DEF Kids
  <2>2. \A a \in Alternatives : Append(p, a) \in Compare(l, r) => Append(p, a) \in N
    BY <1>7 DEF Kids
  <2> QED BY <1>1, <1>5, <2>1, <2>2, EqualStep
<1>15. Pens(l, r, (W \ {p}) \cup N) = Pens(l, r, W)
  <2>1. Pens(l, r, W) = {q \in Places(t) : StatusAt(t, q) = "MERGED"}
    BY <1>1 DEF Overlays, Pens
  <2>2. Pens(l, r, (W \ {p}) \cup N) = {q \in Places(t2) : StatusAt(t2, q) = "MERGED"}
    BY <1>14 DEF Overlays, Pens
  <2>3. StatusAt(t, p) # "MERGED"
    <3>1. p \notin Pens(l, r, W)
      BY CompareIs DEF Pens
    <3> QED BY <1>1, <2>1, <3>1
  <2>4. /\ Places(t) \subseteq Places(t2)
        /\ \A q \in Places(t) : StatusAt(t2, q) = IF q = p THEN st ELSE StatusAt(t, q)
        /\ \A q \in Places(t2) \ Places(t) : StatusAt(t2, q) = "UNDETERMINED"
    BY <1>5 DEF Sprouts
  <2> QED BY <1>3, <2>1, <2>2, <2>3, <2>4
<1>16. Listed(l, r, t2, Pens(l, r, W), list)
  <2>1. Pens(l, r, W) \subseteq Places(t)
    BY <1>1 DEF Overlays, Pens
  <2> QED BY <1>1, <1>6, <2>1, ListKept
<1>17. RootCounted(res2, (W \ {p}) \cup N)
  <2>1. <<>> \notin (W \ {p}) \cup N
    <3>1. <<>> \notin W \ {p}
      <4>1. IsPrefix(<<>>, p)
        BY <1>1, PrefixOrder
      <4> QED BY <1>1, <4>1, StackPlaces
    <3>2. <<>> \notin N
      BY <1>1, <1>10, NodesAndPlaces
    <3> QED BY <3>1, <3>2
  <2>2. Counts(res2, 1, -1)
    <3>1. Grown(res.tree) /\ h[3] \in NodesOf(res.tree)
      BY <1>1
    <3>2. p # <<>> => res.tree.status[h[3]] = "UNDETERMINED" /\ Counts(res, 1, -1)
      BY <1>1
    <3>3. p = <<>> => res.tree.status[h[3]] = "BRANCH" /\ st = "BRANCH" /\ Counts(res, 0, 0)
      BY <1>1, <1>3
    <3> HIDE DEF Counts
    <3>4. Counts(Promote(res, h[3], kids, st), 1, -1)
      BY <1>3, <3>1, <3>2, <3>3, StatsNext
    <3> QED BY <3>4
  <2> HIDE DEF Counts
  <2> QED BY <2>1, <2>2 DEF RootCounted
<1>18. Founded(l, r, t2)
  <2>1. StatusAt(t, p) # "MERGED"
    <3>1. p \notin Pens(l, r, W)
      BY CompareIs DEF Pens
    <3> QED BY <1>1, <3>1 DEF Overlays
  <2> QED BY <1>1, <1>5, <2>1, EqualFounded
<1> HIDE DEF Counts
<1> QED BY <1>4, <1>12, <1>13, <1>14, <1>15, <1>16, <1>17, <1>18 DEF Overlay

\* What MergeNode pushes.
AltsFor(m, left, right, kids) ==
  Those([i \in 1 .. kids |-> i], {alt \in 1 .. kids : Compared(m, left, right, alt)})
PairsFor(m, left, right, t, target, alts) ==
  [i \in DOMAIN alts |->
     Pair(m, left, right, alts[i]) \o <<Child(t, target, alts[i])>>]

NewOf(m, left, right, target) ==
  PairsFor(m, left, right,
           Promote(merged[m], target, KidsOfBoth(m, left, right), TreeL(m).status[left]).tree,
           target, AltsFor(m, left, right, KidsOfBoth(m, left, right)))

LEMMA AltsAre ==
  ASSUME NEW m, NEW left, NEW right, NEW kids \in Nat
  PROVE  Chosen(AltsFor(m, left, right, kids),
                {alt \in 1 .. kids : Compared(m, left, right, alt)})
<1>1. PICK S, alts : /\ S = {alt \in 1 .. kids : Compared(m, left, right, alt)}
                     /\ alts = Those([i \in 1 .. kids |-> i], S)
  OBVIOUS
<1>2. S \subseteq 1 .. kids
  BY <1>1
<1>3. Chosen(alts, S)
  BY <1>1, <1>2, ChosenAlternatives
<1>4. AltsFor(m, left, right, kids) = alts
  BY <1>1 DEF AltsFor
<1> QED BY <1>1, <1>3, <1>4

LEMMA PushedIs ==
  ASSUME NEW m, NEW l, l = TreeL(m), NEW r, r = TreeR(m), Source(l), Source(r),
         NEW p \in Agreed(l, r), NEW left, left = NodeAt(l, p), NEW right, right = NodeAt(r, p),
         NEW kids, kids = KidsOfBoth(m, left, right),
         NEW alts, alts = AltsFor(m, left, right, kids),
         NEW t, NEW target, t.place[target] = p
  PROVE  PushedFor(l, r, t, p, kids, PairsFor(m, left, right, t, target, alts))
<1>1. /\ kids \in Nat
      /\ \A a \in 1 .. kids :
           /\ Pair(m, left, right, a) = <<NodeAt(l, Append(p, a)), NodeAt(r, Append(p, a))>>
           /\ Compared(m, left, right, a) <=> Append(p, a) \in Compare(l, r)
  BY ComparedChildren
<1>2. PICK S : S = {alt \in 1 .. kids : Compared(m, left, right, alt)}
  OBVIOUS
<1>3. Chosen(alts, S)
  BY <1>1, <1>2, AltsAre
<1>4. \A a : a \in S <=> a \in 1 .. kids /\ Append(p, a) \in Compare(l, r)
  BY <1>1, <1>2
<1>5. \A i \in DOMAIN alts : alts[i] \in 1 .. kids /\ Append(p, alts[i]) \in Compare(l, r)
  BY <1>3, <1>4 DEF Chosen
<1>6. \A a \in 1 .. kids : Append(p, a) \in Compare(l, r) => \E i \in DOMAIN alts : alts[i] = a
  BY <1>3, <1>4 DEF Chosen
<1>7. PICK new : new = PairsFor(m, left, right, t, target, alts)
  OBVIOUS
<1>8. new = PushedOf(l, r, t, p, alts)
  <2>1. ASSUME NEW i \in DOMAIN alts
        PROVE  Pair(m, left, right, alts[i]) \o <<Child(t, target, alts[i])>>
                 = <<NodeAt(l, Append(p, alts[i])), NodeAt(r, Append(p, alts[i]))>>
                     \o <<At(t, Append(p, alts[i]))>>
    <3>1. PICK a : a = alts[i]
      OBVIOUS
    <3>2. Pair(m, left, right, a) = <<NodeAt(l, Append(p, a)), NodeAt(r, Append(p, a))>>
      BY <1>1, <1>5, <3>1
    <3>3. Child(t, target, a) = At(t, Append(p, a))
      BY DEF Child
    <3> QED BY <3>1, <3>2, <3>3
  <2>2. new = [i \in DOMAIN alts |->
                 Pair(m, left, right, alts[i]) \o <<Child(t, target, alts[i])>>]
    BY <1>7 DEF PairsFor
  <2> DEFINE F(i) == Pair(m, left, right, alts[i]) \o <<Child(t, target, alts[i])>>
             G(i) == <<NodeAt(l, Append(p, alts[i])), NodeAt(r, Append(p, alts[i]))>>
                       \o <<At(t, Append(p, alts[i]))>>
  <2>3. \A i \in DOMAIN alts : F(i) = G(i)
    BY <2>1
  <2>4. new = [i \in DOMAIN alts |-> F(i)]
    BY <2>2
  <2>5. PushedOf(l, r, t, p, alts) = [i \in DOMAIN alts |-> G(i)]
    BY DEF PushedOf
  <2> HIDE DEF F, G
  <2> QED BY <2>3, <2>4, <2>5
<1>9. PushedFor(l, r, t, p, kids, new)
  BY <1>3, <1>5, <1>6, <1>8 DEF PushedFor, Chosen
<1> QED BY <1>7, <1>9

\* A pentagon is created.
LEMMA PentagonNext ==
  ASSUME NEW m, NEW l, l = TreeL(m), NEW r, r = TreeR(m), Source(l), Source(r),
         NEW res, NEW t, NEW W, NEW h, NEW p,
         NextIs(l, r, res, t, W, h, p), p \in Disputed(l, r),
         NEW tl, StackFits(l, r, t, tl), Pending(t, tl) = W \ {p},
         NEW list, Listed(l, r, t, Pens(l, r, W), list),
         NEW res2, res2 = CreatePentagon(res, h[3], m, h[1], h[2]),
         NEW e, e = [pen |-> h[3], left |-> CountDescendants(l, h[1]),
                     right |-> CountDescendants(r, h[2])]
  PROVE  Overlay(l, r, res2, tl, Append(list, e))
<1>1. /\ t = res.tree /\ Grown(t) /\ Overlays(l, r, t, W) /\ Founded(l, r, t)
      /\ h[3] \in NodesOf(t) /\ t.place[h[3]] = p
      /\ h[1] = NodeAt(l, p) /\ h[2] = NodeAt(r, p)
      /\ p \in W /\ p \in PlaceSet /\ p \in Places(t) /\ Has(t, p, 0)
      /\ p # <<>> => t.status[h[3]] = "UNDETERMINED" /\ Counts(res, 1, -1)
  <2> HIDE DEF Counts
  <2> QED BY DEF NextIs
<1>2. Grown(l) /\ Grown(r)
  BY DEF Source
<1>3. p # <<>>
  BY CompareIs
<1>4. PICK t2 : t2 = res2.tree
  OBVIOUS
<1>5. PentagonAt(t, p, l, r, t2) /\ \A b, u \in Int : Counts(res, b, u) => Counts(res2, b, u)
  <2>1. /\ Grown(res.tree) /\ h[3] \in NodesOf(res.tree) /\ p = res.tree.place[h[3]]
        /\ Has(res.tree, p, 0) /\ res.tree.status[h[3]] = "UNDETERMINED"
    BY <1>1, <1>3
  <2> HIDE DEF Counts
  <2>2. /\ PentagonAt(res.tree, p, l, r, res2.tree)
        /\ \A b, u \in Int : Counts(res, b, u) => Counts(res2, b, u)
    BY <1>1, <2>1, CreatePentagonIs
  <2> QED BY <1>1, <1>4, <2>2
<1>6. Grown(t2) /\ Keeps(t, t2)
  BY <1>5 DEF PentagonAt
<1>7. /\ Overlays(l, r, t2, W \ {p})
      /\ p \notin Pens(l, r, W) /\ Pens(l, r, W \ {p}) = Pens(l, r, W) \cup {p}
  <2>1. PentagonMore(l, r, t2, W, p)
    <3>1. Overlays(l, r, t, W) /\ p \in W /\ PentagonAt(t, p, l, r, t2)
      BY <1>1, <1>5
    <3> QED BY <3>1, PentagonStep
  <2> QED BY <2>1 DEF PentagonMore
<1>8. StackFits(l, r, t2, tl) /\ Pending(t2, tl) = W \ {p}
  BY <1>6, StackKept
<1>9. PICK D, list2 : D = Pens(l, r, W) /\ list2 = Append(list, e)
  OBVIOUS
<1>10. Listed(l, r, t2, D \cup {p}, list2)
  <2>1. D \subseteq Places(t)
    BY <1>1, <1>9 DEF Overlays, Pens
  <2>2. e = Entry(l, r, t, p)
    <3>1. At(t, p) = h[3]
      BY <1>1, NodesAndPlaces
    <3>2. CountDescendants(l, h[1]) = Cardinality(PlacesBelow(l, p))
      BY <1>1, <1>2, CountedBelow
    <3>3. CountDescendants(r, h[2]) = Cardinality(PlacesBelow(r, p))
      BY <1>1, <1>2, CountedBelow
    <3> QED BY <3>1, <3>2, <3>3 DEF Entry
  <2>3. Listed(l, r, t, D \cup {p}, list2)
    BY <1>1, <1>2, <1>7, <1>9, <2>1, <2>2, ListGrows
  <2>4. D \cup {p} \subseteq Places(t)
    BY <1>1, <2>1
  <2> QED BY <1>1, <1>6, <2>3, <2>4, ListKept
<1>11. RootCounted(res2, W \ {p})
  <2>1. <<>> \notin W \ {p}
    <3>1. IsPrefix(<<>>, p)
      BY <1>1, PrefixOrder
    <3> QED BY <1>1, <3>1, StackPlaces
  <2>2. Counts(res2, 1, -1)
    <3>1. 1 \in Int /\ -1 \in Int /\ Counts(res, 1, -1)
      BY <1>1, <1>3
    <3> HIDE DEF Counts
    <3> QED BY <1>5, <3>1
  <2> HIDE DEF Counts
  <2> QED BY <2>1, <2>2 DEF RootCounted
<1>12. Founded(l, r, t2)
  BY <1>1, <1>5, PentagonFounded
<1> HIDE DEF Counts
<1> QED BY <1>4, <1>7, <1>8, <1>9, <1>10, <1>11, <1>12 DEF Overlay

\* The merger has merged the two nodes on top of its stack.
LEMMA NodeMerged ==
  ASSUME NEW m \in Mergers, MergeNode(m), Source(TreeL(m)), Source(TreeR(m)),
         m \in DOMAIN merged, m \in DOMAIN stack, m \in DOMAIN pentagons,
         Overlay(TreeL(m), TreeR(m), merged[m], stack[m], pentagons[m])
  PROVE  Overlay(TreeL(m), TreeR(m), merged'[m], stack'[m], pentagons'[m])
<1>1. PICK l, r, res, s, list : /\ l = TreeL(m) /\ r = TreeR(m)
                                /\ res = merged[m] /\ s = stack[m] /\ list = pentagons[m]
  OBVIOUS
<1>2. Source(l) /\ Source(r) /\ Overlay(l, r, res, s, list) /\ s # <<>>
  BY <1>1 DEF MergeNode
<1>3. PICK h, tl : h = Head(s) /\ tl = Tail(s)
  OBVIOUS
<1>4. PICK t, W, p : /\ NextIs(l, r, res, t, W, h, p)
                     /\ StackFits(l, r, t, tl) /\ Pending(t, tl) = W \ {p}
                     /\ Listed(l, r, t, Pens(l, r, W), list)
  <2>1. NextOf(l, r, res, h, tl, list)
    BY <1>2, <1>3, NextNode
  <2> QED BY <2>1 DEF NextOf
<1>5. /\ h[1] = NodeAt(l, p) /\ h[2] = NodeAt(r, p) /\ p \in Compare(l, r)
      /\ t = res.tree /\ h[3] \in NodesOf(t) /\ t.place[h[3]] = p /\ Grown(t) /\ Has(t, p, 0)
  BY <1>4 DEF NextIs
<1>6. Grown(l) /\ Grown(r)
  BY <1>2 DEF Source
<1>7. p \in Agreed(l, r) <=> CompareNodes(m, h[1], h[2])
  <2>1. /\ h[1] # NoNode <=> p \in Places(l)
        /\ p \in Places(l) => l.status[h[1]] = StatusAt(l, p)
    <3>1. PICK n : n = NodeAt(l, p)
      OBVIOUS
    <3>2. n # NoNode <=> p \in Places(l)
      BY <1>6, <3>1, NodeAtIs
    <3>3. p \in Places(l) => l.status[n] = StatusAt(l, p)
      BY <1>6, <3>1, NodeAtIs
    <3> QED BY <1>5, <3>1, <3>2, <3>3
  <2>2. /\ h[2] # NoNode <=> p \in Places(r)
        /\ p \in Places(r) => r.status[h[2]] = StatusAt(r, p)
    <3>1. PICK n : n = NodeAt(r, p)
      OBVIOUS
    <3>2. n # NoNode <=> p \in Places(r)
      BY <1>6, <3>1, NodeAtIs
    <3>3. p \in Places(r) => r.status[n] = StatusAt(r, p)
      BY <1>6, <3>1, NodeAtIs
    <3> QED BY <1>5, <3>1, <3>2, <3>3
  <2>3. p \in Agreed(l, r) <=>
           /\ p \in Places(l) /\ p \in Places(r) /\ StatusAt(l, p) = StatusAt(r, p)
    BY <1>2, <1>5, EqualNodes
  <2> QED BY <1>1, <2>1, <2>2, <2>3 DEF CompareNodes
<1>8. CASE CompareNodes(m, h[1], h[2])
  <2>1. p \in Agreed(l, r)
    BY <1>7, <1>8
  <2>2. PICK kids : kids = KidsOfBoth(m, h[1], h[2])
    OBVIOUS
  <2>3. PICK alts : alts = AltsFor(m, h[1], h[2], kids)
    OBVIOUS
  <2>4. PICK res2 : res2 = Promote(res, h[3], kids, l.status[h[1]])
    OBVIOUS
  <2>5. PICK new : new = PairsFor(m, h[1], h[2], res2.tree, h[3], alts)
    OBVIOUS
  <2>6. /\ merged' = [merged EXCEPT ![m] = res2]
        /\ stack' = [stack EXCEPT ![m] = new \o Tail(@)]
        /\ pentagons' = pentagons
    <3>1. PICK left, right, target : left = h[1] /\ right = h[2] /\ target = h[3]
      OBVIOUS
    <3>2. /\ left = Head(stack[m])[1] /\ right = Head(stack[m])[2]
          /\ target = Head(stack[m])[3]
      BY <1>1, <1>3, <3>1
    <3>3. res2 = Promote(merged[m], target, KidsOfBoth(m, left, right), TreeL(m).status[left])
      BY <1>1, <2>2, <2>4, <3>1
    <3>4. CompareNodes(m, left, right)
      BY <1>8, <3>1
    <3>8. merged' = [merged EXCEPT ![m] = res2] /\ pentagons' = pentagons
      BY <3>2, <3>3, <3>4 DEF MergeNode
    <3>9. stack' = [stack EXCEPT ![m] = new \o Tail(@)]
      <4>1. CompareNodes(m, Head(stack[m])[1], Head(stack[m])[2])
        BY <3>2, <3>4
      <4>2. stack' = [stack EXCEPT ![m] = NewOf(m, Head(stack[m])[1], Head(stack[m])[2],
                                               Head(stack[m])[3]) \o Tail(@)]
        BY <4>1, Zenon DEF MergeNode, NewOf, PairsFor, AltsFor
      <4>3. NewOf(m, left, right, target) = new
        BY <2>2, <2>3, <2>5, <3>1, <3>3 DEF NewOf
      <4> QED BY <3>2, <4>2, <4>3
    <3> QED BY <3>8, <3>9
  <2>7. merged'[m] = res2 /\ stack'[m] = new \o tl /\ pentagons'[m] = list
    BY <1>1, <1>3, <2>6
  <2>8. /\ kids \in Nat /\ (kids > 0 => StatusAt(l, p) = "BRANCH")
        /\ \A a \in Alternatives : Append(p, a) \in Compare(l, r) => a \in 1 .. kids
        /\ \A a \in 1 .. kids : Append(p, a) \in Places(l) \cup Places(r)
    BY <1>1, <1>2, <1>5, <2>1, <2>2, ComparedChildren
  <2>9. l.status[h[1]] = StatusAt(l, p)
    <3>1. p \in Places(l)
      BY <1>2, <2>1, AgreedBelow
    <3> QED BY <1>5, <1>6, <3>1, NodeAtIs
  <2>10. PICK st : st = StatusAt(l, p)
    OBVIOUS
  <2>11. res2.tree.place[h[3]] = p
    <3>1. st \in TreeStatuses /\ (kids > 0 => st \in {"BRANCH", "MERGED"})
      <4>1. p \in Places(l)
        BY <1>2, <2>1, AgreedBelow
      <4> QED BY <1>2, <2>8, <2>10, <4>1, SourceIs DEF TreeStatuses
    <3>2. res2.tree = Promoted(t, h[3], kids, st)
      BY <1>5, <2>4, <2>9, <2>10 DEF Promote
    <3>3. Sprouts(t, p, kids, st, res2.tree)
      BY <1>5, <2>8, <3>1, <3>2, PromotedIs
    <3> QED BY <1>5, <3>3 DEF Sprouts, Keeps
  <2>12. PushedFor(l, r, res2.tree, p, kids, new)
    <3>1. PICK left, right : left = h[1] /\ right = h[2]
      OBVIOUS
    <3>2. left = NodeAt(l, p) /\ right = NodeAt(r, p) /\ l = TreeL(m) /\ r = TreeR(m)
      BY <1>1, <1>5, <3>1
    <3>3. kids = KidsOfBoth(m, left, right) /\ alts = AltsFor(m, left, right, kids)
      BY <2>2, <2>3, <3>1
    <3>4. new = PairsFor(m, left, right, res2.tree, h[3], alts)
      BY <2>5, <3>1
    <3>5. PICK t2, target : t2 = res2.tree /\ target = h[3] /\ t2.place[target] = p
      BY <2>11
    <3>6. PushedFor(l, r, t2, p, kids, PairsFor(m, left, right, t2, target, alts))
      BY <1>2, <2>1, <3>2, <3>3, <3>5, PushedIs
    <3> QED BY <3>4, <3>5, <3>6
  <2>13. Overlay(l, r, res2, new \o tl, list)
    <3>1. res2 = Promote(res, h[3], kids, st)
      BY <2>4, <2>9, <2>10
    <3>2. kids > 0 => st = "BRANCH"
      BY <2>8, <2>10
    <3> QED BY <1>2, <1>4, <2>1, <2>8, <2>10, <2>12, <3>1, <3>2, EqualNext
  <2> QED BY <1>1, <2>7, <2>13
<1>9. CASE ~CompareNodes(m, h[1], h[2])
  <2>1. p \in Disputed(l, r)
    BY <1>5, <1>7, <1>9 DEF Compare
  <2>2. PICK res2 : res2 = CreatePentagon(res, h[3], m, h[1], h[2])
    OBVIOUS
  <2>3. PICK e : e = [pen |-> h[3], left |-> CountDescendants(l, h[1]),
                      right |-> CountDescendants(r, h[2])]
    OBVIOUS
  <2>4. /\ merged' = [merged EXCEPT ![m] = CreatePentagon(@, h[3], m, h[1], h[2])]
        /\ stack' = [stack EXCEPT ![m] = Tail(@)]
        /\ pentagons' = [pentagons EXCEPT ![m] = Append(@, e)]
    BY <1>1, <1>3, <1>9, <2>3 DEF MergeNode
  <2>5. merged'[m] = res2 /\ stack'[m] = tl /\ pentagons'[m] = Append(list, e)
    BY <1>1, <1>3, <2>2, <2>4
  <2>6. Overlay(l, r, res2, tl, Append(list, e))
    BY <1>1, <1>2, <1>4, <2>1, <2>2, <2>3, PentagonNext
  <2> QED BY <1>1, <2>5, <2>6
<1> QED BY <1>8, <1>9

-----------------------------------------------------------------------------
(* From the first node to the end *)

LEMMA OneNode ==
  ASSUME NEW t, t = SingleNode("BRANCH")
  PROVE  /\ Source(t) /\ NodesOf(t) = {Root} /\ Places(t) = {<<>>} /\ Has(t, <<>>, 0)
         /\ t.status[Root] = "BRANCH" /\ t.place[Root] = <<>> /\ StatusAt(t, <<>>) = "BRANCH"
<1>1. /\ DOMAIN t.status = {0} /\ DOMAIN t.place = {0} /\ NodesOf(t) = {0}
      /\ t.status[0] = "BRANCH" /\ t.place[0] = <<>>
  BY DEF SingleNode, Root, NodesOf
<1>2. Places(t) = {<<>>}
  BY <1>1 DEF Places
<1>3. <<>> \in PlaceSet
  BY EmptySeq DEF PlaceSet
<1>4. Has(t, <<>>, 0)
  <2>1. \A a \in Alternatives : Append(<<>>, a) # <<>>
    BY <1>3, AppendIs
  <2> QED BY <1>2, <2>1 DEF Has, Alternatives
<1>5. Grown(t)
  <2>1. 0 .. 1 - 1 = {0} /\ 1 .. 1 - 1 = {} /\ 1 \in Nat \ {0} /\ 0 \in Nat
    OBVIOUS
  <2>2. Ordered(t, 0)
    BY <1>1, <1>4, <2>1 DEF Ordered
  <2>3. GrownTo(t, 1)
    BY <1>1, <1>3, <2>1, <2>2 DEF GrownTo, Root, TreeStatuses, SourceStatuses
  <2> QED BY <2>1, <2>3 DEF Grown
<1>6. Source(t)
  BY <1>1, <1>5 DEF Source, Root, SourceStatuses
<1>7. StatusAt(t, <<>>) = "BRANCH"
  BY <1>6, SourceIs
<1> QED BY <1>1, <1>2, <1>4, <1>6, <1>7 DEF Root

\* The merged tree with its root and nothing else overlays what was compared.
LEMMA MergeStarts ==
  ASSUME NEW l, Source(l), NEW r, Source(r),
         NEW res, res = [tree |-> SingleNode("BRANCH"), stats |-> NoStats],
         NEW s, s = <<<<Root, Root, Root>>>>, NEW list, list = <<>>
  PROVE  Overlay(l, r, res, s, list)
<1>1. PICK t : t = res.tree
  OBVIOUS
<1>2. /\ Source(t) /\ Grown(t) /\ NodesOf(t) = {0} /\ Places(t) = {<<>>} /\ Has(t, <<>>, 0)
      /\ t.status[0] = "BRANCH" /\ t.place[0] = <<>> /\ StatusAt(t, <<>>) = "BRANCH"
  BY <1>1, OneNode DEF Root, Source
<1>3. PICK h : h = <<0, 0, 0>>
  OBVIOUS
<1>4. /\ h \in Seq(Int) /\ h[1] = 0 /\ h[2] = 0 /\ h[3] = 0
      /\ s = <<h>> /\ s \in Seq(Seq(Int)) /\ DOMAIN s = {1} /\ s[1] = h
  BY <1>3 DEF Root
<1>5. Pending(t, s) = {<<>>}
  BY <1>2, <1>4 DEF Pending
<1>6. <<>> \in Places(l) /\ <<>> \in Places(r) /\ At(l, <<>>) = 0 /\ At(r, <<>>) = 0
  BY NodesAndPlaces DEF Source, Root
<1>7. StackFits(l, r, t, s)
  <2>1. NodeAt(l, <<>>) = 0 /\ NodeAt(r, <<>>) = 0
    BY <1>6 DEF NodeAt
  <2> QED BY <1>2, <1>4, <2>1 DEF StackFits
<1>8. Settled(l, r, {<<>>}) = {} /\ Pens(l, r, {<<>>}) = {}
  <2>1. \A p \in Compare(l, r) : IsPrefix(<<>>, p)
    BY CompareIs, PrefixOrder
  <2> QED BY <2>1 DEF Settled, Pens
<1>9. Overlays(l, r, t, {<<>>})
  <2>1. <<>> \in Compare(l, r)
    BY CompareIs
  <2>2. Fresh(t, <<>>)
    BY <1>2 DEF Fresh
  <2> QED BY <1>2, <1>8, <2>1, <2>2 DEF Overlays
<1>10. Listed(l, r, t, {}, list)
  BY EmptySeq, FS_EmptySet DEF Listed
<1>11. Counts(res, 0, 0)
  <2>1. Count(t, "BRANCH") = 1
    <3>1. {n \in NodesOf(t) : t.status[n] = "BRANCH"} = {0}
      BY <1>2
    <3> QED BY <3>1, FS_Singleton DEF Count
  <2>2. \A st : st # "BRANCH" => Count(t, st) = 0
    <3> SUFFICES ASSUME NEW st, st # "BRANCH" PROVE Count(t, st) = 0
      OBVIOUS
    <3>1. {n \in NodesOf(t) : t.status[n] = st} = {}
      BY <1>2
    <3> QED BY <3>1, FS_EmptySet DEF Count
  <2>3. res.stats = NoStats
    OBVIOUS
  <2> QED BY <1>1, <2>1, <2>2, <2>3 DEF Counts, NoStats
<1>12. RootCounted(res, {<<>>})
  <2> HIDE DEF Counts
  <2> QED BY <1>1, <1>2, <1>11 DEF RootCounted
<1>13. Founded(l, r, t)
  BY <1>2, <1>6 DEF Founded
<1> HIDE DEF Counts
<1> QED BY <1>1, <1>5, <1>7, <1>8, <1>9, <1>10, <1>12, <1>13 DEF Overlay

\* What MergedFaithful says of the trees of a merger.
FaithfulTo(t, l, r) ==
  LET left == {c \in Disputed(l, r) \X Places(l) : IsPrefix(c[1], c[2])}
      right == {c \in Disputed(l, r) \X Places(r) : IsPrefix(c[1], c[2])}
      under == {UnderPentagon(c[1], 1, c[2]) : c \in left}
                 \cup {UnderPentagon(c[1], 2, c[2]) : c \in right}
  IN /\ {p \in Places(t) : StatusAt(t, p) = "MERGED"} = Disputed(l, r)
     /\ \A p \in Agreed(l, r) : p \in Places(t) /\ StatusAt(t, p) = StatusAt(l, p)
     /\ under \subseteq Places(t)
     /\ \A c \in left : StatusAt(t, UnderPentagon(c[1], 1, c[2])) = StatusAt(l, c[2])
     /\ \A c \in right : StatusAt(t, UnderPentagon(c[1], 2, c[2])) = StatusAt(r, c[2])
     /\ \A p \in Places(t) \ (under \cup Agreed(l, r) \cup Disputed(l, r)) :
          /\ StatusAt(t, p) = "UNDETERMINED" /\ ChildrenCount(t, At(t, p)) = 0

\* A merged tree that nothing waits for.
Finished(l, r, res, list) ==
  /\ Overlays(l, r, res.tree, {}) /\ Settled(l, r, {}) = Compare(l, r)
  /\ Pens(l, r, {}) = Disputed(l, r)
  /\ Listed(l, r, res.tree, Disputed(l, r), list)
  /\ Counts(res, 1, -1)
  /\ Founded(l, r, res.tree)

LEMMA MergeEnds ==
  ASSUME NEW l, Source(l), NEW r, Source(r), NEW res, NEW list, Overlay(l, r, res, <<>>, list)
  PROVE  Finished(l, r, res, list)
<1>1. Pending(res.tree, <<>>) = {}
  BY DEF Pending
<1>2. Settled(l, r, {}) = Compare(l, r) /\ Pens(l, r, {}) = Disputed(l, r)
  BY DEF Settled, Pens, Compare
<1>3. RootCounted(res, {})
  BY <1>1 DEF Overlay
<1>4. Counts(res, 1, -1)
  <2> HIDE DEF Counts
  <2> QED BY <1>3 DEF RootCounted
<1> HIDE DEF Counts
<1> QED BY <1>1, <1>2, <1>4 DEF Overlay, Finished

LEMMA FinishedFaithful ==
  ASSUME NEW l, Source(l), NEW r, Source(r), NEW res, NEW list, Finished(l, r, res, list),
         NEW t, t = res.tree
  PROVE  FaithfulTo(t, l, r)
<1> DEFINE left == {c \in Disputed(l, r) \X Places(l) : IsPrefix(c[1], c[2])}
           right == {c \in Disputed(l, r) \X Places(r) : IsPrefix(c[1], c[2])}
           under == {UnderPentagon(c[1], 1, c[2]) : c \in left}
                      \cup {UnderPentagon(c[1], 2, c[2]) : c \in right}
<1>1. /\ Grown(t)
      /\ \A p \in Places(t) : StatusAt(t, p) = "MERGED" <=> p \in Disputed(l, r)
      /\ Compare(l, r) \subseteq Places(t)
      /\ \A p \in Agreed(l, r) : StatusAt(t, p) = StatusAt(l, p)
      /\ \A p \in Disputed(l, r) : SideKept(l, p, 1, t) /\ SideKept(r, p, 2, t)
      /\ \A p \in Places(t) \ (Compare(l, r) \cup UnderPens(l, r, {})) : Fresh(t, p)
  BY DEF Finished, Overlays, Compare
<1>2. \A c \in left : /\ c[1] \in Disputed(l, r) /\ c[2] \in PlacesBelow(l, c[1])
                      /\ UnderPentagon(c[1], 1, c[2]) \in Places(t)
                      /\ StatusAt(t, UnderPentagon(c[1], 1, c[2])) = StatusAt(l, c[2])
  <2> SUFFICES ASSUME NEW c \in left
               PROVE  /\ c[1] \in Disputed(l, r) /\ c[2] \in PlacesBelow(l, c[1])
                      /\ UnderPentagon(c[1], 1, c[2]) \in Places(t)
                      /\ StatusAt(t, UnderPentagon(c[1], 1, c[2])) = StatusAt(l, c[2])
    OBVIOUS
  <2>1. PICK p, q : p = c[1] /\ q = c[2]
    OBVIOUS
  <2>2. p \in Disputed(l, r) /\ q \in PlacesBelow(l, p)
    BY <2>1 DEF PlacesBelow
  <2>3. SideKept(l, p, 1, t)
    BY <1>1, <2>2
  <2> QED BY <2>1, <2>2, <2>3 DEF SideKept
<1>3. \A c \in right : /\ c[1] \in Disputed(l, r) /\ c[2] \in PlacesBelow(r, c[1])
                       /\ UnderPentagon(c[1], 2, c[2]) \in Places(t)
                       /\ StatusAt(t, UnderPentagon(c[1], 2, c[2])) = StatusAt(r, c[2])
  <2> SUFFICES ASSUME NEW c \in right
               PROVE  /\ c[1] \in Disputed(l, r) /\ c[2] \in PlacesBelow(r, c[1])
                      /\ UnderPentagon(c[1], 2, c[2]) \in Places(t)
                      /\ StatusAt(t, UnderPentagon(c[1], 2, c[2])) = StatusAt(r, c[2])
    OBVIOUS
  <2>1. PICK p, q : p = c[1] /\ q = c[2]
    OBVIOUS
  <2>2. p \in Disputed(l, r) /\ q \in PlacesBelow(r, p)
    BY <2>1 DEF PlacesBelow
  <2>3. SideKept(r, p, 2, t)
    BY <1>1, <2>2
  <2> QED BY <2>1, <2>2, <2>3 DEF SideKept
<1>4. under \subseteq Places(t)
  BY <1>2, <1>3
<1>5. UnderPens(l, r, {}) \subseteq under
  <2> SUFFICES ASSUME NEW x \in UnderPens(l, r, {}) PROVE x \in under
    OBVIOUS
  <2>1. PICK p \in Disputed(l, r) : x \in Side(l, p, 1) \/ x \in Side(r, p, 2)
    BY DEF UnderPens, Finished
  <2>2. CASE x \in Side(l, p, 1)
    <3>1. PICK q \in PlacesBelow(l, p) : x = UnderPentagon(p, 1, q)
      BY <2>2 DEF Side
    <3>2. <<p, q>> \in left /\ <<p, q>>[1] = p /\ <<p, q>>[2] = q
      BY <3>1 DEF PlacesBelow
    <3> HIDE DEF left
    <3> QED BY <3>1, <3>2
  <2>3. CASE x \in Side(r, p, 2)
    <3>1. PICK q \in PlacesBelow(r, p) : x = UnderPentagon(p, 2, q)
      BY <2>3 DEF Side
    <3>2. <<p, q>> \in right /\ <<p, q>>[1] = p /\ <<p, q>>[2] = q
      BY <3>1 DEF PlacesBelow
    <3> HIDE DEF right
    <3> QED BY <3>1, <3>2
  <2> QED BY <2>1, <2>2, <2>3
<1>6. ASSUME NEW p \in Places(t) \ (under \cup Agreed(l, r) \cup Disputed(l, r))
      PROVE  StatusAt(t, p) = "UNDETERMINED" /\ ChildrenCount(t, At(t, p)) = 0
  <2>1. Fresh(t, p)
    BY <1>1, <1>5 DEF Compare
  <2>2. p # <<>>
    BY AgreedBelow
  <2>3. PICK n : n = At(t, p)
    OBVIOUS
  <2>4. n \in NodesOf(t) /\ t.place[n] = p
    BY <1>1, <2>3, NodesAndPlaces
  <2>5. Has(t, p, ChildrenCount(t, n)) /\ Has(t, p, 0)
    BY <1>1, <2>1, <2>4, Children DEF Fresh
  <2>6. ChildrenCount(t, n) = 0
    BY <2>5, HasOne
  <2> QED BY <2>1, <2>2, <2>3, <2>6 DEF Fresh
<1>7. {p \in Places(t) : StatusAt(t, p) = "MERGED"} = Disputed(l, r)
  BY <1>1 DEF Compare
<1>8. \A p \in Agreed(l, r) : p \in Places(t) /\ StatusAt(t, p) = StatusAt(l, p)
  BY <1>1 DEF Compare
<1> HIDE DEF left, right, under
<1>9. /\ {p \in Places(t) : StatusAt(t, p) = "MERGED"} = Disputed(l, r)
      /\ \A p \in Agreed(l, r) : p \in Places(t) /\ StatusAt(t, p) = StatusAt(l, p)
      /\ under \subseteq Places(t)
      /\ \A c \in left : StatusAt(t, UnderPentagon(c[1], 1, c[2])) = StatusAt(l, c[2])
      /\ \A c \in right : StatusAt(t, UnderPentagon(c[1], 2, c[2])) = StatusAt(r, c[2])
      /\ \A p \in Places(t) \ (under \cup Agreed(l, r) \cup Disputed(l, r)) :
           /\ StatusAt(t, p) = "UNDETERMINED" /\ ChildrenCount(t, At(t, p)) = 0
  BY <1>2, <1>3, <1>4, <1>6, <1>7, <1>8
<1> QED BY <1>9 DEF FaithfulTo, left, right, under

\* What PentagonsCounted and OnlyRootMiscounted say of them.
CountedFor(res, list, l, r) ==
  /\ Len(list) = Cardinality(Disputed(l, r))
  /\ \A p \in Disputed(l, r) : \E i \in DOMAIN list :
       list[i] = [pen |-> At(res.tree, p), left |-> Cardinality(PlacesBelow(l, p)),
                  right |-> Cardinality(PlacesBelow(r, p))]
  /\ res.stats = [branch |-> Count(res.tree, "BRANCH") + 1, failed |-> Count(res.tree, "FAILED"),
                  solved |-> Count(res.tree, "SOLVED"), skipped |-> Count(res.tree, "SKIPPED"),
                  undet |-> Count(res.tree, "UNDETERMINED") - 1]

LEMMA FinishedCounted ==
  ASSUME NEW l, Source(l), NEW r, Source(r), NEW res, NEW list, Finished(l, r, res, list)
  PROVE  CountedFor(res, list, l, r)
<1>1. /\ Len(list) = Cardinality(Disputed(l, r))
      /\ \A p \in Disputed(l, r) : \E i \in DOMAIN list :
           list[i] = [pen |-> At(res.tree, p), left |-> Cardinality(PlacesBelow(l, p)),
                      right |-> Cardinality(PlacesBelow(r, p))]
  BY DEF Finished, Listed, Entry
<1>2. Count(res.tree, "UNDETERMINED") \in Int
  <2>1. IsFiniteSet(NodesOf(res.tree))
    BY NumberOfNodes DEF Finished, Overlays
  <2>2. IsFiniteSet({n \in NodesOf(res.tree) : res.tree.status[n] = "UNDETERMINED"})
    BY <2>1, FS_Subset
  <2> QED BY <2>2, FS_CardinalityType DEF Count
<1>3. Count(res.tree, "UNDETERMINED") + -1 = Count(res.tree, "UNDETERMINED") - 1
  BY <1>2
<1>4. res.stats = [branch |-> Count(res.tree, "BRANCH") + 1, failed |-> Count(res.tree, "FAILED"),
                   solved |-> Count(res.tree, "SOLVED"), skipped |-> Count(res.tree, "SKIPPED"),
                   undet |-> Count(res.tree, "UNDETERMINED") - 1]
  BY <1>3 DEF Finished, Counts
<1> QED BY <1>1, <1>4 DEF CountedFor

-----------------------------------------------------------------------------
(* The invariant *)

\* The tree of a solver that was t is t2 by now: only undetermined nodes change.
Later(t, t2) ==
  Keeps(t, t2) /\ \A n \in NodesOf(t) : t.status[n] # "UNDETERMINED" => t2.status[n] = t.status[n]

LEMMA LaterOn ==
  ASSUME NEW t, NEW t2, NEW t3, Later(t, t2), Later(t2, t3)
  PROVE  Later(t, t3)
<1>1. Keeps(t, t3) /\ NodesOf(t) \subseteq NodesOf(t2)
  BY KeepsOn DEF Later, Keeps
<1> QED BY <1>1 DEF Later

LEMMA LaterSelf == \A t : Later(t, t)
BY DEF Later, Keeps

\* A finished merged tree overlays the two trees as they were when the merger
\* let go of them.
Kept(m) ==
  \E l, r : /\ Source(l) /\ Source(r) /\ Later(l, TreeL(m)) /\ Later(r, TreeR(m))
            /\ Finished(l, r, merged[m], pentagons[m])

Fields ==
  /\ DOMAIN trees = Executions /\ DOMAIN mutex = Executions
  /\ DOMAIN thread = Mergers /\ DOMAIN stack = Mergers
  /\ DOMAIN merged = Mergers /\ DOMAIN pentagons = Mergers

Locks ==
  /\ \A e \in Executions :
       mutex[e] # Free => mutex[e] \in Mergers /\ (LeftOf[mutex[e]] = e \/ RightOf[mutex[e]] = e)
  /\ \A m \in Mergers :
       /\ thread[m] \in {"started", "hasLeft", "merging", "finished"}
       /\ thread[m] \in {"hasLeft", "merging"} => mutex[LeftOf[m]] = m
       /\ thread[m] = "merging" => mutex[RightOf[m]] = m

\* What the merger m has done.
Work(m) ==
  /\ thread[m] = "merging" => Overlay(TreeL(m), TreeR(m), merged[m], stack[m], pentagons[m])
  /\ thread[m] # "merging" => stack[m] = <<>>
  /\ thread[m] \in {"started", "hasLeft"} => pentagons[m] = <<>> /\ merged[m] = NoTree
  /\ thread[m] = "finished" => Kept(m)

MergeInv ==
  /\ Fields /\ Locks
  /\ \A e \in Executions : Source(trees[e])
  /\ \A m \in Mergers : Work(m)

LEMMA MergedTrees ==
  ASSUME MergeInv, NEW m \in Mergers
  PROVE  /\ LeftOf[m] \in Executions /\ RightOf[m] \in Executions /\ LeftOf[m] # RightOf[m]
         /\ Source(TreeL(m)) /\ Source(TreeR(m))
<1>1. LeftOf[m] \in Executions /\ RightOf[m] \in Executions /\ LeftOf[m] # RightOf[m]
  BY MergersAssumption
<1> QED BY <1>1 DEF MergeInv, TreeL, TreeR

\* A tree of a solver that grows is one.
LEMMA SourceGrows ==
  ASSUME NEW t, Source(t), NEW p \in Places(t), NEW k, NEW st \in SourceStatuses,
         p = <<>> => st = "BRANCH", NEW t2, Sprouts(t, p, k, st, t2)
  PROVE  Source(t2)
<1>1. Grown(t) /\ Grown(t2)
  BY DEF Source, Sprouts
<1>2. \A q \in Places(t2) : StatusAt(t2, q) \in SourceStatuses
  <2> SUFFICES ASSUME NEW q \in Places(t2) PROVE StatusAt(t2, q) \in SourceStatuses
    OBVIOUS
  <2>1. CASE q \in Places(t)
    <3>1. StatusAt(t2, q) = IF q = p THEN st ELSE StatusAt(t, q)
      BY <2>1 DEF Sprouts
    <3>2. StatusAt(t, q) \in SourceStatuses
      BY <2>1, SourceIs
    <3> QED BY <3>1, <3>2
  <2>2. CASE q \notin Places(t)
    BY <2>2 DEF Sprouts, SourceStatuses
  <2> QED BY <2>1, <2>2
<1>3. \A n \in NodesOf(t2) : t2.status[n] \in SourceStatuses
  BY <1>1, <1>2, NodesAndPlaces
<1>4. t2.status[Root] = "BRANCH"
  <2>1. Root \in NodesOf(t) /\ t.place[Root] = <<>>
    BY <1>1, NumberOfNodes DEF GrownTo
  <2>2. t2.status[Root] = IF t.place[Root] = p THEN st ELSE t.status[Root]
    BY <2>1 DEF Sprouts
  <2> QED BY <2>1, <2>2 DEF Source
<1> QED BY <1>1, <1>3, <1>4 DEF Source

LEMMA MergeInvInit ==
  ASSUME MergerInit
  PROVE  MergeInv
<1>1. PICK k \in [Executions -> 0 .. MaxKids] :
        trees = [e \in Executions |-> Promoted(SingleNode("BRANCH"), Root, k[e], "BRANCH")]
  BY DEF MergerInit
<1>2. Fields
  BY <1>1 DEF MergerInit, Fields
<1>3. \A e \in Executions : Source(trees[e])
  <2> SUFFICES ASSUME NEW e \in Executions PROVE Source(trees[e])
    OBVIOUS
  <2>1. PICK t, t2, j : t = SingleNode("BRANCH") /\ j = k[e] /\ t2 = trees[e]
    OBVIOUS
  <2>2. t2 = Promoted(t, Root, j, "BRANCH") /\ j \in Nat
    <3>1. j \in 0 .. MaxKids
      BY <1>1, <2>1
    <3> QED BY <1>1, <2>1, <3>1, ReportedAssumption
  <2>3. /\ Source(t) /\ Grown(t) /\ Root \in NodesOf(t) /\ <<>> = t.place[Root] /\ Has(t, <<>>, 0)
        /\ <<>> \in Places(t)
    BY <2>1, OneNode DEF Source
  <2>4. "BRANCH" \in TreeStatuses /\ "BRANCH" \in SourceStatuses
    BY DEF TreeStatuses, SourceStatuses
  <2>5. PICK st : st = "BRANCH"
    OBVIOUS
  <2>6. Sprouts(t, <<>>, j, st, t2)
    BY <2>2, <2>3, <2>4, <2>5, PromotedIs
  <2>7. Source(t2)
    BY <2>3, <2>4, <2>5, <2>6, SourceGrows
  <2> QED BY <2>1, <2>7
<1>4. Locks
  BY <1>2, MergersAssumption DEF MergerInit, Locks
<1>5. \A m \in Mergers : Work(m)
  BY DEF MergerInit, Work
<1> QED BY <1>2, <1>3, <1>4, <1>5 DEF MergeInv

\* A tree grows.
LEMMA GrowKeeps ==
  ASSUME MergeInv, NEW e \in Executions, NEW n \in NodesOf(trees[e]), NEW k \in 0 .. MaxKids,
         NEW st \in Reported, Grow(e, n, k, st)
  PROVE  /\ DOMAIN trees' = Executions
         /\ \A x \in Executions : Source(trees'[x]) /\ Later(trees[x], trees'[x])
         /\ \A x \in Executions : mutex[x] # Free => trees'[x] = trees[x]
<1>1. PICK t, t2 : t = trees[e] /\ t2 = Promoted(t, n, k, st)
  OBVIOUS
<1>2. /\ mutex[e] = Free /\ n \in NodesOf(t) /\ t.status[n] = "UNDETERMINED"
      /\ (k > 0 => st = "BRANCH") /\ trees' = [trees EXCEPT ![e] = t2]
  BY <1>1 DEF Grow
<1>3. DOMAIN trees = Executions /\ \A x \in Executions : Source(trees[x])
  BY DEF MergeInv, Fields
<1>4. k \in Nat /\ st \in SourceStatuses /\ st \in TreeStatuses
  BY ReportedAssumption DEF SourceStatuses, TreeStatuses
<1>5. Source(t) /\ Grown(t)
  BY <1>1, <1>3 DEF Source
<1>6. PICK p : p = t.place[n]
  OBVIOUS
<1>7. Has(t, p, 0) /\ p \in Places(t) /\ p # <<>>
  <2>1. ChildrenCount(t, n) = 0
    BY <1>2, <1>5, ChildThere
  <2>2. Has(t, p, ChildrenCount(t, n))
    BY <1>2, <1>5, <1>6, Children
  <2>3. p # <<>>
    <3>1. t.status[Root] = "BRANCH" /\ At(t, <<>>) = Root
      BY <1>5, NodesAndPlaces DEF Source
    <3>2. At(t, p) = n
      BY <1>2, <1>5, <1>6, NodesAndPlaces
    <3> QED BY <1>2, <3>1, <3>2
  <2> QED BY <1>2, <1>5, <1>6, <2>1, <2>2, <2>3, NodesAndPlaces
<1>8. Sprouts(t, p, k, st, t2)
  <2>1. k > 0 => st \in {"BRANCH", "MERGED"}
    BY <1>2
  <2> QED BY <1>1, <1>2, <1>4, <1>5, <1>6, <1>7, <2>1, PromotedIs
<1>9. Source(t2) /\ Later(t, t2)
  <2>1. Source(t2)
    BY <1>4, <1>5, <1>7, <1>8, SourceGrows
  <2>2. Keeps(t, t2) /\ \A i \in NodesOf(t) : t2.status[i] = IF t.place[i] = p THEN st ELSE t.status[i]
    BY <1>8 DEF Sprouts
  <2>3. \A i \in NodesOf(t) : t.place[i] = p => i = n
    BY <1>2, <1>5, <1>6, NodesAndPlaces
  <2>4. \A i \in NodesOf(t) : t.status[i] # "UNDETERMINED" => t2.status[i] = t.status[i]
    BY <1>2, <2>2, <2>3
  <2> QED BY <2>1, <2>2, <2>4 DEF Later
<1>10. /\ DOMAIN trees' = Executions /\ trees'[e] = t2
       /\ \A x \in Executions : x # e => trees'[x] = trees[x]
  BY <1>2, <1>3
<1>11. \A x : Later(x, x)
  BY LaterSelf
<1>12. \A x \in Executions : Source(trees'[x]) /\ Later(trees[x], trees'[x])
  BY <1>1, <1>3, <1>9, <1>10, <1>11
<1>13. \A x \in Executions : mutex[x] # Free => trees'[x] = trees[x]
  BY <1>2, <1>10
<1> QED BY <1>10, <1>12, <1>13

LEMMA GrowNext ==
  ASSUME MergeInv, Build
  PROVE  MergeInv'
<1>1. PICK e \in Executions : \E n \in NodesOf(trees[e]), k \in 0 .. MaxKids, st \in Reported :
        Grow(e, n, k, st)
  BY DEF Build
<1>2. PICK n \in NodesOf(trees[e]), k \in 0 .. MaxKids, st \in Reported : Grow(e, n, k, st)
  BY <1>1
<1>3. /\ DOMAIN trees' = Executions
      /\ \A x \in Executions : Source(trees'[x]) /\ Later(trees[x], trees'[x])
      /\ \A x \in Executions : mutex[x] # Free => trees'[x] = trees[x]
  BY <1>2, GrowKeeps
<1>4. UNCHANGED <<mutex, thread, stack, merged, pentagons>>
  BY <1>2 DEF Grow
<1>5. Fields' /\ Locks'
  BY <1>3, <1>4 DEF MergeInv, Fields, Locks
<1>6. ASSUME NEW m \in Mergers PROVE Work(m)'
  <2>1. LeftOf[m] \in Executions /\ RightOf[m] \in Executions /\ m # Free
    BY MergersAssumption, FreeAssumption
  <2>2. Work(m) /\ Locks
    BY DEF MergeInv
  <2>3. TreeL(m)' = trees'[LeftOf[m]] /\ TreeR(m)' = trees'[RightOf[m]]
    BY DEF TreeL, TreeR
  <2>4. CASE thread[m] = "merging"
    <3>1. mutex[LeftOf[m]] = m /\ mutex[RightOf[m]] = m
      BY <2>2, <2>4 DEF Locks
    <3>2. TreeL(m)' = TreeL(m) /\ TreeR(m)' = TreeR(m)
      BY <1>3, <2>1, <2>3, <3>1 DEF TreeL, TreeR
    <3> QED BY <1>4, <2>2, <2>4, <3>2 DEF Work
  <2>5. CASE thread[m] = "finished"
    <3>1. PICK l, r : /\ Source(l) /\ Source(r) /\ Later(l, TreeL(m)) /\ Later(r, TreeR(m))
                      /\ Finished(l, r, merged[m], pentagons[m])
      BY <2>2, <2>5 DEF Work, Kept
    <3>2. Later(TreeL(m), TreeL(m)') /\ Later(TreeR(m), TreeR(m)')
      BY <1>3, <2>1, <2>3 DEF TreeL, TreeR
    <3>3. PICK l1, r1, l2, r2 : /\ l1 = TreeL(m) /\ r1 = TreeR(m)
                                /\ l2 = TreeL(m)' /\ r2 = TreeR(m)'
      OBVIOUS
    <3>4. Later(l, l2) /\ Later(r, r2)
      BY <3>1, <3>2, <3>3, LaterOn
    <3>5. Kept(m)'
      BY <1>4, <3>1, <3>3, <3>4 DEF Kept
    <3> QED BY <1>4, <2>2, <2>5, <3>5 DEF Work
  <2>6. CASE thread[m] \notin {"merging", "finished"}
    BY <1>4, <2>2, <2>6 DEF Work
  <2> QED BY <2>4, <2>5, <2>6
<1> QED BY <1>3, <1>5, <1>6 DEF MergeInv

\* A step of one merger leaves the work of the others alone.
LEMMA OthersWork ==
  ASSUME MergeInv, NEW m \in Mergers, trees' = trees,
         NEW k \in Mergers, k # m, thread'[k] = thread[k], stack'[k] = stack[k],
         merged'[k] = merged[k], pentagons'[k] = pentagons[k]
  PROVE  Work(k)'
<1>1. Work(k)
  BY DEF MergeInv
<1>2. TreeL(k)' = TreeL(k) /\ TreeR(k)' = TreeR(k)
  BY DEF TreeL, TreeR
<1>3. Kept(k) => Kept(k)'
  BY <1>2 DEF Kept
<1> QED BY <1>1, <1>2, <1>3 DEF Work

LEMMA LockLeftNext ==
  ASSUME MergeInv, NEW m \in Mergers, LockLeft(m)
  PROVE  MergeInv'
<1>1. Fields /\ Locks /\ (\A e \in Executions : Source(trees[e])) /\ \A k \in Mergers : Work(k)
  BY DEF MergeInv
<1>2. /\ thread[m] = "started" /\ mutex[LeftOf[m]] = Free
      /\ mutex' = [mutex EXCEPT ![LeftOf[m]] = m] /\ thread' = [thread EXCEPT ![m] = "hasLeft"]
      /\ UNCHANGED <<trees, stack, merged, pentagons>>
  BY DEF LockLeft
<1>3. Fields'
  BY <1>1, <1>2 DEF Fields
<1>4. \A k \in Mergers : thread'[k] = IF k = m THEN "hasLeft" ELSE thread[k]
  BY <1>1, <1>2 DEF Fields
<1>5. \A e \in Executions : mutex'[e] = IF e = LeftOf[m] THEN m ELSE mutex[e]
  BY <1>1, <1>2 DEF Fields
<1>6. LeftOf[m] \in Executions /\ Free \notin Mergers
      /\ \A k \in Mergers : LeftOf[k] \in Executions /\ RightOf[k] \in Executions
  BY MergersAssumption, FreeAssumption
<1>7. Locks'
  <2>1. \A e \in Executions :
          mutex'[e] # Free => mutex'[e] \in Mergers /\ (LeftOf[mutex'[e]] = e \/ RightOf[mutex'[e]] = e)
    BY <1>1, <1>5, <1>6 DEF Locks
  <2>2. \A k \in Mergers :
          /\ thread'[k] \in {"started", "hasLeft", "merging", "finished"}
          /\ thread'[k] \in {"hasLeft", "merging"} => mutex'[LeftOf[k]] = k
          /\ thread'[k] = "merging" => mutex'[RightOf[k]] = k
    BY <1>1, <1>2, <1>4, <1>5, <1>6 DEF Locks
  <2> QED BY <2>1, <2>2 DEF Locks
<1>8. ASSUME NEW k \in Mergers PROVE Work(k)'
  <2>1. CASE k = m
    <3>1. thread'[m] = "hasLeft"
      BY <1>4
    <3>2. stack[m] = <<>> /\ pentagons[m] = <<>> /\ merged[m] = NoTree
      BY <1>1, <1>2 DEF Work
    <3> QED BY <1>2, <2>1, <3>1, <3>2 DEF Work
  <2>2. CASE k # m
    BY <1>2, <1>4, <2>2, OthersWork
  <2> QED BY <2>1, <2>2
<1> QED BY <1>1, <1>2, <1>3, <1>7, <1>8 DEF MergeInv

LEMMA LockRightNext ==
  ASSUME MergeInv, NEW m \in Mergers, LockRight(m)
  PROVE  MergeInv'
<1>1. Fields /\ Locks /\ (\A e \in Executions : Source(trees[e])) /\ \A k \in Mergers : Work(k)
  BY DEF MergeInv
<1>2. PICK s, res : s = <<<<Root, Root, Root>>>>
                    /\ res = [tree |-> SingleNode("BRANCH"), stats |-> NoStats]
  OBVIOUS
<1>3. /\ thread[m] = "hasLeft" /\ mutex[RightOf[m]] = Free
      /\ mutex' = [mutex EXCEPT ![RightOf[m]] = m] /\ thread' = [thread EXCEPT ![m] = "merging"]
      /\ stack' = [stack EXCEPT ![m] = s] /\ merged' = [merged EXCEPT ![m] = res]
      /\ UNCHANGED <<trees, pentagons>>
  BY <1>2 DEF LockRight
<1>4. Fields'
  BY <1>1, <1>3 DEF Fields
<1>5. \A k \in Mergers : thread'[k] = IF k = m THEN "merging" ELSE thread[k]
  BY <1>1, <1>3 DEF Fields
<1>6. \A e \in Executions : mutex'[e] = IF e = RightOf[m] THEN m ELSE mutex[e]
  BY <1>1, <1>3 DEF Fields
<1>7. /\ stack'[m] = s /\ merged'[m] = res
      /\ \A k \in Mergers : k # m => stack'[k] = stack[k] /\ merged'[k] = merged[k]
  BY <1>1, <1>3 DEF Fields
<1>8. Free \notin Mergers
      /\ \A k \in Mergers : LeftOf[k] \in Executions /\ RightOf[k] \in Executions
                            /\ LeftOf[k] # RightOf[k]
  BY MergersAssumption, FreeAssumption
<1>9. Locks'
  <2>1. \A e \in Executions :
          mutex'[e] # Free => mutex'[e] \in Mergers /\ (LeftOf[mutex'[e]] = e \/ RightOf[mutex'[e]] = e)
    BY <1>1, <1>6, <1>8 DEF Locks
  <2>2. \A k \in Mergers :
          /\ thread'[k] \in {"started", "hasLeft", "merging", "finished"}
          /\ thread'[k] \in {"hasLeft", "merging"} => mutex'[LeftOf[k]] = k
          /\ thread'[k] = "merging" => mutex'[RightOf[k]] = k
    BY <1>1, <1>3, <1>5, <1>6, <1>8 DEF Locks
  <2> QED BY <2>1, <2>2 DEF Locks
<1>10. ASSUME NEW k \in Mergers PROVE Work(k)'
  <2>1. CASE k = m
    <3>1. PICK l, r, list : l = TreeL(m) /\ r = TreeR(m) /\ list = pentagons[m]
      OBVIOUS
    <3>2. Source(l) /\ Source(r) /\ list = <<>>
      <4>1. list = <<>>
        BY <1>1, <1>3, <3>1 DEF Work
      <4> QED BY <3>1, <4>1, MergedTrees
    <3>3. Overlay(l, r, res, s, list)
      BY <1>2, <3>2, MergeStarts
    <3>4. TreeL(m)' = l /\ TreeR(m)' = r
      BY <1>3, <3>1 DEF TreeL, TreeR
    <3>5. thread'[m] = "merging"
      BY <1>5
    <3> QED BY <1>3, <1>7, <2>1, <3>1, <3>3, <3>4, <3>5 DEF Work
  <2>2. CASE k # m
    BY <1>3, <1>5, <1>7, <2>2, OthersWork
  <2> QED BY <2>1, <2>2
<1> QED BY <1>1, <1>3, <1>4, <1>9, <1>10 DEF MergeInv

LEMMA MergeNodeNext ==
  ASSUME MergeInv, NEW m \in Mergers, MergeNode(m)
  PROVE  MergeInv'
<1>1. Fields /\ Locks /\ (\A e \in Executions : Source(trees[e])) /\ \A k \in Mergers : Work(k)
  BY DEF MergeInv
<1>2. thread[m] = "merging" /\ UNCHANGED <<trees, mutex, thread>>
  BY DEF MergeNode
<1>3. /\ DOMAIN merged' = Mergers /\ DOMAIN stack' = Mergers /\ DOMAIN pentagons' = Mergers
      /\ \A k \in Mergers : k # m => /\ merged'[k] = merged[k] /\ stack'[k] = stack[k]
                                     /\ pentagons'[k] = pentagons[k]
  <2>1. (\E v : merged' = [merged EXCEPT ![m] = v]) /\ (\E v : stack' = [stack EXCEPT ![m] = v])
    BY DEF MergeNode
  <2>2. pentagons' = pentagons \/ \E v : pentagons' = [pentagons EXCEPT ![m] = v]
    BY DEF MergeNode
  <2> QED BY <1>1, <2>1, <2>2 DEF Fields
<1>4. Fields' /\ Locks'
  BY <1>1, <1>2, <1>3 DEF Fields, Locks
<1>5. ASSUME NEW k \in Mergers PROVE Work(k)'
  <2>1. CASE k = m
    <3>1. Overlay(TreeL(m), TreeR(m), merged[m], stack[m], pentagons[m])
      BY <1>1, <1>2 DEF Work
    <3>2. Source(TreeL(m)) /\ Source(TreeR(m))
      BY MergedTrees
    <3>3. m \in DOMAIN merged /\ m \in DOMAIN stack /\ m \in DOMAIN pentagons
      BY <1>1 DEF Fields
    <3>4. Overlay(TreeL(m), TreeR(m), merged'[m], stack'[m], pentagons'[m])
      BY <3>1, <3>2, <3>3, NodeMerged
    <3>5. TreeL(m)' = TreeL(m) /\ TreeR(m)' = TreeR(m)
      BY <1>2 DEF TreeL, TreeR
    <3> QED BY <1>2, <2>1, <3>4, <3>5 DEF Work
  <2>2. CASE k # m
    BY <1>2, <1>3, <2>2, OthersWork
  <2> QED BY <2>1, <2>2
<1> QED BY <1>1, <1>2, <1>4, <1>5 DEF MergeInv

LEMMA ReturnNext ==
  ASSUME MergeInv, NEW m \in Mergers, Return(m)
  PROVE  MergeInv'
<1>1. Fields /\ Locks /\ (\A e \in Executions : Source(trees[e])) /\ \A k \in Mergers : Work(k)
  BY DEF MergeInv
<1>2. /\ thread[m] = "merging" /\ stack[m] = <<>>
      /\ mutex' = [e \in Executions |-> IF mutex[e] = m THEN Free ELSE mutex[e]]
      /\ thread' = [thread EXCEPT ![m] = "finished"]
      /\ UNCHANGED <<trees, stack, merged, pentagons>>
  BY DEF Return
<1>3. Fields'
  BY <1>1, <1>2 DEF Fields
<1>4. \A k \in Mergers : thread'[k] = IF k = m THEN "finished" ELSE thread[k]
  BY <1>1, <1>2 DEF Fields
<1>5. \A k \in Mergers : LeftOf[k] \in Executions /\ RightOf[k] \in Executions
  BY MergersAssumption
<1>6. Locks'
  <2>1. \A e \in Executions :
          mutex'[e] # Free => mutex'[e] \in Mergers /\ (LeftOf[mutex'[e]] = e \/ RightOf[mutex'[e]] = e)
    BY <1>1, <1>2 DEF Locks
  <2>2. \A k \in Mergers :
          /\ thread'[k] \in {"started", "hasLeft", "merging", "finished"}
          /\ thread'[k] \in {"hasLeft", "merging"} => mutex'[LeftOf[k]] = k
          /\ thread'[k] = "merging" => mutex'[RightOf[k]] = k
    BY <1>1, <1>2, <1>4, <1>5 DEF Locks
  <2> QED BY <2>1, <2>2 DEF Locks
<1>7. ASSUME NEW k \in Mergers PROVE Work(k)'
  <2>1. CASE k = m
    <3>1. PICK l, r : l = TreeL(m) /\ r = TreeR(m)
      OBVIOUS
    <3>2. Source(l) /\ Source(r) /\ Overlay(l, r, merged[m], <<>>, pentagons[m])
      <4>1. Overlay(l, r, merged[m], stack[m], pentagons[m])
        BY <1>1, <1>2, <3>1 DEF Work
      <4> QED BY <1>2, <3>1, <4>1, MergedTrees
    <3>3. Finished(l, r, merged[m], pentagons[m])
      BY <3>2, MergeEnds
    <3>4. TreeL(m)' = l /\ TreeR(m)' = r
      BY <1>2, <3>1 DEF TreeL, TreeR
    <3>5. Later(l, l) /\ Later(r, r)
      BY LaterSelf
    <3>6. Kept(m)'
      BY <1>2, <3>2, <3>3, <3>4, <3>5 DEF Kept
    <3> QED BY <1>2, <1>4, <2>1, <3>6 DEF Work
  <2>2. CASE k # m
    BY <1>2, <1>4, <2>2, OthersWork
  <2> QED BY <2>1, <2>2
<1> QED BY <1>1, <1>2, <1>3, <1>6, <1>7 DEF MergeInv

LEMMA MergeInvNext ==
  ASSUME MergeInv, [Next]_vars
  PROVE  MergeInv'
<1>1. CASE MergerNext
  <2>1. CASE Build
    BY <2>1, GrowNext
  <2>2. CASE \E m \in Mergers : RunMerger(m)
    <3>1. PICK m \in Mergers : RunMerger(m)
      BY <2>2
    <3>2. LockLeft(m) \/ LockRight(m) \/ MergeNode(m) \/ Return(m)
      BY <3>1 DEF RunMerger
    <3> QED BY <3>2, LockLeftNext, LockRightNext, MergeNodeNext, ReturnNext
  <2> QED BY <1>1, <2>1, <2>2 DEF MergerNext
<1>2. CASE UNCHANGED mergerVars
  <2>1. \A m \in Mergers : TreeL(m)' = TreeL(m) /\ TreeR(m)' = TreeR(m)
    BY <1>2 DEF mergerVars, TreeL, TreeR
  <2>2. \A m \in Mergers : Kept(m) => Kept(m)'
    BY <1>2, <2>1 DEF mergerVars, Kept
  <2>3. \A m \in Mergers : Work(m) => Work(m)'
    BY <1>2, <2>1, <2>2 DEF mergerVars, Work
  <2> QED BY <1>2, <2>3 DEF mergerVars, MergeInv, Fields, Locks
<1>3. MergerNext \/ UNCHANGED mergerVars
  <2>1. \A m : OpenWindow(m) => UNCHANGED mergerVars
    BY Zenon DEF OpenWindow
  <2>2. \A m, cur : HideFailed(m, cur) => UNCHANGED mergerVars
    BY DEF HideFailed
  <2>3. \A m : RunNogoodAnalysis(m) => UNCHANGED mergerVars
    BY DEF RunNogoodAnalysis
  <2> QED BY <2>1, <2>2, <2>3 DEF Next, vars
<1> QED BY <1>1, <1>2, <1>3

\* Whatever the mergers and the builders do, MergeInv holds.
THEOREM MergeInvHolds == Spec => []MergeInv
<1>1. Init => MergeInv
  BY MergeInvInit DEF Init
<1>2. MergeInv /\ [Next]_vars => MergeInv'
  BY MergeInvNext
<1> QED BY <1>1, <1>2, PTL DEF Spec

\* The tree of a merger that has done its work overlays the two trees it has
\* locked: pentagons exactly where they part, with both subtrees unchanged below
\* (tree_merger.cpp:105-274).
THEOREM MergeFaithful == Spec => []MergedFaithful
<1>1. MergeInv => MergedFaithful
  <2> SUFFICES ASSUME MergeInv PROVE MergedFaithful
    OBVIOUS
  <2>1. ASSUME NEW m \in Mergers, Complete(m)
        PROVE  FaithfulTo(merged[m].tree, TreeL(m), TreeR(m))
    <3>1. PICK l, r, res, list : /\ l = TreeL(m) /\ r = TreeR(m)
                                 /\ res = merged[m] /\ list = pentagons[m]
      OBVIOUS
    <3>2. Source(l) /\ Source(r) /\ Overlay(l, r, res, <<>>, list)
      BY <2>1, <3>1, MergedTrees DEF MergeInv, Work, Complete
    <3>3. Finished(l, r, res, list)
      BY <3>2, MergeEnds
    <3>4. FaithfulTo(res.tree, l, r)
      BY <3>2, <3>3, FinishedFaithful
    <3> QED BY <3>1, <3>4
  <2> QED BY <2>1, Zenon DEF MergedFaithful, FaithfulTo
<1> QED BY <1>1, MergeInvHolds, PTL

\* Its list has an entry for every pentagon, with the sizes of both subtrees, and
\* its statistics are off by the root that was counted twice and by nothing else
\* (tree_merger.cpp:178-202, 262-268).
THEOREM MergeExact == Spec => []MergeCounted
<1>1. MergeInv => MergeCounted
  <2> SUFFICES ASSUME MergeInv PROVE MergeCounted
    OBVIOUS
  <2>1. ASSUME NEW m \in Mergers, Complete(m)
        PROVE  CountedFor(merged[m], pentagons[m], TreeL(m), TreeR(m))
    <3>1. PICK l, r, res, list : /\ l = TreeL(m) /\ r = TreeR(m)
                                 /\ res = merged[m] /\ list = pentagons[m]
      OBVIOUS
    <3>2. Source(l) /\ Source(r) /\ Overlay(l, r, res, <<>>, list)
      BY <2>1, <3>1, MergedTrees DEF MergeInv, Work, Complete
    <3>3. Finished(l, r, res, list)
      BY <3>2, MergeEnds
    <3>4. CountedFor(res, list, l, r)
      BY <3>2, <3>3, FinishedCounted
    <3> QED BY <3>1, <3>4
  <2>2. PentagonsCounted
    BY <2>1 DEF PentagonsCounted, CountedFor
  <2>3. OnlyRootMiscounted
    BY <2>1 DEF OnlyRootMiscounted, CountedFor, Count
  <2> QED BY <2>2, <2>3 DEF MergeCounted
<1> QED BY <1>1, MergeInvHolds, PTL

-----------------------------------------------------------------------------
(* What the window hides *)

LEMMA AncestorIs ==
  ASSUME NEW t, Grown(t), NEW n \in NodesOf(t)
  PROVE  /\ \A a \in NodesOf(t) : a \in AncestorsIn(t, n) <=> IsPrefix(t.place[a], t.place[n])
         /\ \A a \in AncestorsIn(t, n) : a \in NodesOf(t)
         /\ \A a \in AncestorsIn(t, n) : \A b \in AncestorsIn(t, a) : b \in AncestorsIn(t, n)
         /\ \A a \in AncestorsIn(t, n) : n \in AncestorsIn(t, a) => a = n
<1>1. \A a : a \in AncestorsIn(t, n) <=> a \in NodesOf(t) /\ IsPrefix(t.place[a], t.place[n])
  BY DEF AncestorsIn
<1>2. \A a \in NodesOf(t) : t.place[a] \in PlaceSet /\ At(t, t.place[a]) = a
  BY NodesAndPlaces
<1>3. ASSUME NEW a \in AncestorsIn(t, n), NEW b \in AncestorsIn(t, a) PROVE b \in AncestorsIn(t, n)
  <2>1. /\ a \in NodesOf(t) /\ b \in NodesOf(t)
        /\ IsPrefix(t.place[a], t.place[n]) /\ IsPrefix(t.place[b], t.place[a])
    BY <1>1 DEF AncestorsIn
  <2>2. IsPrefix(t.place[b], t.place[n])
    BY <1>2, <2>1, PrefixOrder
  <2> QED BY <1>1, <2>1, <2>2
<1>4. ASSUME NEW a \in AncestorsIn(t, n), n \in AncestorsIn(t, a) PROVE a = n
  <2>1. /\ a \in NodesOf(t)
        /\ IsPrefix(t.place[a], t.place[n]) /\ IsPrefix(t.place[n], t.place[a])
    BY <1>1, <1>4 DEF AncestorsIn
  <2>2. t.place[a] = t.place[n]
    BY <1>2, <2>1, PrefixOrder
  <2> QED BY <1>2, <2>1, <2>2
<1> QED BY <1>1, <1>3, <1>4

\* What is below a node under a pentagon is under it too.
LEMMA UnderStays ==
  ASSUME NEW t, Grown(t), NEW n \in NodesOf(t), UnderAPentagon(t, n), NEW d \in Below(t, n)
  PROVE  d \in NodesOf(t) /\ UnderAPentagon(t, d)
<1>1. d \in NodesOf(t) /\ n \in AncestorsIn(t, d)
  BY DEF Below, AncestorsIn
<1>2. PICK a \in AncestorsIn(t, n) \ {n} : t.status[a] = "MERGED"
  BY DEF UnderAPentagon
<1>3. a \in AncestorsIn(t, d)
  BY <1>1, <1>2, AncestorIs
<1>4. a # d
  BY <1>1, <1>2, AncestorIs
<1> QED BY <1>1, <1>2, <1>3, <1>4 DEF UnderAPentagon

LEMMA ParentIs ==
  ASSUME NEW t, Grown(t), NEW n \in NodesOf(t), n # Root
  PROVE  /\ ParentIn(t, n) \in NodesOf(t) /\ ParentIn(t, n) \in AncestorsIn(t, n) \ {n}
         /\ AlternativeIn(t, n) \in Alternatives
         /\ t.place[n] = Append(t.place[ParentIn(t, n)], AlternativeIn(t, n))
         /\ ParentIn(t, n) \in 0 .. n - 1
<1>1. PICK p, f, a : p = t.place[n] /\ f = Front(p) /\ a = Last(p)
  OBVIOUS
<1>2. p \in PlaceSet /\ p \in Places(t) /\ At(t, p) = n /\ At(t, <<>>) = Root
  BY <1>1, NodesAndPlaces
<1>3. p # <<>>
  BY <1>2
<1>4. f \in PlaceSet /\ a \in Alternatives /\ Append(f, a) = p
  BY <1>1, <1>2, <1>3, FrontIs
<1>5. f \in Places(t)
  BY <1>2, <1>4, ParentThere
<1>6. PICK k : k = At(t, f)
  OBVIOUS
<1>7. k \in NodesOf(t) /\ t.place[k] = f
  BY <1>5, <1>6, NodesAndPlaces
<1>8. ParentIn(t, n) = k /\ AlternativeIn(t, n) = a
  BY <1>1, <1>6 DEF ParentIn, AlternativeIn
<1>9. IsPrefix(f, p) /\ f # p
  BY <1>4, AppendIs
<1>10. k \in AncestorsIn(t, n) /\ k # n
  BY <1>1, <1>7, <1>9 DEF AncestorsIn
<1>11. k \in 0 .. n - 1
  <2>1. PICK c \in Nat \ {0} : GrownTo(t, c)
    BY DEF Grown
  <2>2. n \in 1 .. c - 1
    BY <2>1 DEF GrownTo, NodesOf, Root
  <2>3. PICK j \in 0 .. n - 1, b \in Alternatives : t.place[n] = Append(t.place[j], b)
    BY <2>1, <2>2 DEF GrownTo, ComesLater
  <2>4. j \in NodesOf(t)
    BY <2>1, <2>2, <2>3 DEF GrownTo, NodesOf
  <2>5. PICK g : g = t.place[j]
    OBVIOUS
  <2>6. g \in PlaceSet /\ At(t, g) = j
    BY <2>4, <2>5, NodesAndPlaces
  <2>7. g = f
    BY <1>1, <1>4, <2>3, <2>5, <2>6, AppendIs
  <2> QED BY <1>6, <2>6, <2>7
<1> QED BY <1>1, <1>4, <1>7, <1>8, <1>10, <1>11

\* The nodes in the list are those with status MERGED.
LEMMA PentagonNodes ==
  ASSUME NEW l, Source(l), NEW r, Source(r), NEW res, NEW list, Finished(l, r, res, list),
         NEW t, t = res.tree
  PROVE  /\ Grown(t)
         /\ \A n \in NodesOf(t) : t.status[n] = "MERGED" <=> t.place[n] \in Disputed(l, r)
         /\ \A i \in DOMAIN list : list[i].pen \in NodesOf(t) /\ t.status[list[i].pen] = "MERGED"
<1>1. Grown(t) /\ \A p \in Places(t) : StatusAt(t, p) = "MERGED" <=> p \in Disputed(l, r)
  BY DEF Finished, Overlays
<1>2. \A n \in NodesOf(t) : t.status[n] = "MERGED" <=> t.place[n] \in Disputed(l, r)
  BY <1>1, NodesAndPlaces
<1>3. ASSUME NEW i \in DOMAIN list
      PROVE  list[i].pen \in NodesOf(t) /\ t.status[list[i].pen] = "MERGED"
  <2>1. PICK d \in Disputed(l, r) : list[i] = Entry(l, r, t, d)
    BY DEF Finished, Listed
  <2>2. list[i].pen = At(t, d)
    BY <2>1 DEF Entry
  <2>3. d \in Places(t)
    BY DEF Finished, Overlays, Compare
  <2>4. At(t, d) \in NodesOf(t) /\ t.place[At(t, d)] = d
    BY <1>1, <2>3, NodesAndPlaces
  <2> QED BY <1>2, <2>2, <2>4
<1> QED BY <1>1, <1>2, <1>3

\* Pentagons are not below one another.
LEMMA PentagonsApart ==
  ASSUME NEW l, Source(l), NEW r, Source(r),
         NEW p \in Disputed(l, r), NEW q \in Disputed(l, r), IsPrefix(p, q)
  PROVE  p = q
<1>1. p \in Compare(l, r) /\ q \in Compare(l, r) /\ Agreed(l, r) \cap Disputed(l, r) = {}
  BY CompareIs DEF Compare
<1>2. p \in PlaceSet
  BY <1>1, CompareIs
<1>3. p # q => p \in Agreed(l, r)
  BY <1>1, <1>2, AboveCompared
<1> QED BY <1>1, <1>3

LEMMA HiddenUnder ==
  ASSUME NEW t, Grown(t), NEW pens, \A p \in pens : p \in NodesOf(t) /\ t.status[p] = "MERGED",
         NEW hidden, NEW cur \in NodesOf(t), NEW n \in ToHide(t, pens, hidden, cur)
  PROVE  n \in NodesOf(t) /\ UnderAPentagon(t, n)
<1>1. CASE UnderAPentagon(t, cur)
  <2>1. n \in Below(t, cur)
    BY <1>1 DEF ToHide, FailedAt
  <2> QED BY <1>1, <2>1, UnderStays
<1>2. CASE ~UnderAPentagon(t, cur)
  <2>1. PICK kid \in NodesOf(t) \ {Root} : ParentIn(t, kid) \in pens /\ n \in FailedAt(t, hidden, kid)
    BY <1>2 DEF ToHide
  <2>2. n \in Below(t, kid)
    BY <2>1 DEF FailedAt
  <2>3. UnderAPentagon(t, kid)
    <3>1. ParentIn(t, kid) \in AncestorsIn(t, kid) \ {kid}
      BY <2>1, ParentIs
    <3> QED BY <2>1, <3>1 DEF UnderAPentagon
  <2> QED BY <2>1, <2>2, <2>3, UnderStays
<1> QED BY <1>1, <1>2

LEMMA PentagonsSeen ==
  ASSUME NEW l, Source(l), NEW r, Source(r), NEW res, NEW list, Finished(l, r, res, list),
         NEW t, t = res.tree, NEW i \in DOMAIN list,
         NEW a \in AncestorsIn(t, list[i].pen), UnderAPentagon(t, a)
  PROVE  FALSE
<1>1. PICK p : p = list[i].pen
  OBVIOUS
<1>2. /\ Grown(t) /\ p \in NodesOf(t) /\ t.status[p] = "MERGED"
      /\ \A n \in NodesOf(t) : t.status[n] = "MERGED" <=> t.place[n] \in Disputed(l, r)
  BY <1>1, PentagonNodes
<1>3. a \in NodesOf(t) /\ a \in AncestorsIn(t, p)
  BY <1>1, <1>2, AncestorIs
<1>4. PICK b \in AncestorsIn(t, a) \ {a} : t.status[b] = "MERGED"
  BY DEF UnderAPentagon
<1>5. b \in AncestorsIn(t, p) /\ b \in NodesOf(t)
  BY <1>2, <1>3, <1>4, AncestorIs
<1>6. t.place[b] = t.place[p]
  <2>1. t.place[b] \in Disputed(l, r) /\ t.place[p] \in Disputed(l, r)
    BY <1>2, <1>4, <1>5
  <2>2. IsPrefix(t.place[b], t.place[p])
    BY <1>5 DEF AncestorsIn
  <2>3. PICK x, y : x = t.place[b] /\ y = t.place[p]
    OBVIOUS
  <2> QED BY <2>1, <2>2, <2>3, PentagonsApart
<1>7. b = p
  BY <1>2, <1>5, <1>6, NodesAndPlaces
<1> QED BY <1>2, <1>3, <1>4, <1>7, AncestorIs

-----------------------------------------------------------------------------
(* Where a merged node comes from *)

\* The nodes in hand at n when up are those at its parent.
LockStep(t, l, r, n, up) ==
  <<GetChild(l, up[1], AlternativeIn(t, n)), GetChild(r, up[2], AlternativeIn(t, n))>>

Locking(t, l, r, c, f) ==
  f = [n \in 0 .. c - 1 |->
         IF n = Root THEN <<Root, Root>> ELSE LockStep(t, l, r, n, f[ParentIn(t, n)])]

\* The function Lockstep recurses with exists.
LEMMA LockingExists ==
  ASSUME NEW t, Grown(t), NEW l, NEW r, NEW c, c = CountOf(t)
  PROVE  \E f : Locking(t, l, r, c, f)
<1>1. c \in Nat \ {0} /\ NodesOf(t) = 0 .. c - 1
  BY NumberOfNodes
<1>2. \A n \in 1 .. c - 1 : ParentIn(t, n) \in 0 .. n - 1
  <2> SUFFICES ASSUME NEW n \in 1 .. c - 1 PROVE ParentIn(t, n) \in 0 .. n - 1
    OBVIOUS
  <2>1. n \in NodesOf(t) /\ n # Root
    BY <1>1 DEF Root
  <2> QED BY <2>1, ParentIs
<1> DEFINE S == {i \in Nat : i <= c => \E f : Locking(t, l, r, i, f)}
<1>3. 0 \in S
  <2> DEFINE f == [n \in {} |-> <<Root, Root>>]
  <2>1. 0 .. 0 - 1 = {}
    OBVIOUS
  <2>2. f = [n \in 0 .. 0 - 1 |->
               IF n = Root THEN <<Root, Root>> ELSE LockStep(t, l, r, n, f[ParentIn(t, n)])]
    BY <2>1
  <2>3. Locking(t, l, r, 0, f)
    <3> HIDE DEF f
    <3> QED BY <2>2 DEF Locking
  <2> QED BY <2>3
<1>4. ASSUME NEW i \in Nat, i \in S PROVE i + 1 \in S
  <2> SUFFICES ASSUME i + 1 <= c PROVE \E f : Locking(t, l, r, i + 1, f)
    OBVIOUS
  <2>1. PICK f : Locking(t, l, r, i, f)
    BY <1>1, <1>4
  <2> DEFINE new == IF i = Root THEN <<Root, Root>> ELSE LockStep(t, l, r, i, f[ParentIn(t, i)])
             g == [n \in 0 .. i |-> IF n = i THEN new ELSE f[n]]
  <2>2. \A n \in 0 .. i - 1 : f[n] =
          IF n = Root THEN <<Root, Root>> ELSE LockStep(t, l, r, n, f[ParentIn(t, n)])
    BY <2>1 DEF Locking
  <2>3. /\ g = [n \in 0 .. i |-> g[n]] /\ g[i] = new /\ 0 .. (i + 1) - 1 = 0 .. i
        /\ \A n \in 0 .. i - 1 : n \in 0 .. i /\ n # i /\ g[n] = f[n]
    OBVIOUS
  <2>4. \A n \in 0 .. i : n # Root => ParentIn(t, n) \in 0 .. i - 1 /\ ParentIn(t, n) \in 0 .. n - 1
    BY <1>1, <1>2 DEF Root
  <2>5. new = IF i = Root THEN <<Root, Root>> ELSE LockStep(t, l, r, i, f[ParentIn(t, i)])
    OBVIOUS
  <2> HIDE DEF g, new
  <2>6. \A n \in 0 .. i : g[n] =
          IF n = Root THEN <<Root, Root>> ELSE LockStep(t, l, r, n, g[ParentIn(t, n)])
    <3> SUFFICES ASSUME NEW n \in 0 .. i
                 PROVE  g[n] = IF n = Root THEN <<Root, Root>>
                               ELSE LockStep(t, l, r, n, g[ParentIn(t, n)])
      OBVIOUS
    <3>1. CASE n = Root
      <4>1. CASE n = i
        BY <2>3, <2>5, <3>1, <4>1
      <4>2. CASE n # i
        <5>1. n \in 0 .. i - 1
          BY <4>2
        <5>2. g[n] = f[n]
          BY <2>3, <5>1
        <5> QED BY <2>2, <3>1, <5>1, <5>2
      <4> QED BY <4>1, <4>2
    <3>2. CASE n # Root
      <4>1. g[ParentIn(t, n)] = f[ParentIn(t, n)]
        BY <2>3, <2>4, <3>2
      <4>2. g[n] = LockStep(t, l, r, n, f[ParentIn(t, n)])
        <5>1. CASE n = i
          BY <2>3, <2>5, <3>2, <5>1
        <5>2. CASE n # i
          <6>1. n \in 0 .. i - 1
            BY <5>2
          <6>2. g[n] = f[n]
            BY <2>3, <6>1
          <6> QED BY <2>2, <3>2, <6>1, <6>2
        <5> QED BY <5>1, <5>2
      <4> QED BY <3>2, <4>1, <4>2
    <3> QED BY <3>1, <3>2
  <2>7. g = [n \in 0 .. (i + 1) - 1 |->
               IF n = Root THEN <<Root, Root>> ELSE LockStep(t, l, r, n, g[ParentIn(t, n)])]
    BY <2>3, <2>6
  <2>8. Locking(t, l, r, i + 1, g)
    BY <2>7 DEF Locking
  <2> QED BY <2>8
<1>5. \A i \in Nat : i \in S
  <2> HIDE DEF S
  <2> QED BY <1>3, <1>4, SetInduction
<1> QED BY <1>1, <1>5

LEMMA LockstepIs ==
  ASSUME NEW t, Grown(t), NEW l, NEW r, NEW B, B = Lockstep(t, l, r)
  PROVE  /\ B[Root] = <<Root, Root>>
         /\ \A n \in NodesOf(t) : n # Root => B[n] = LockStep(t, l, r, n, B[ParentIn(t, n)])
<1>1. PICK c : c = CountOf(t)
  OBVIOUS
<1>2. NodesOf(t) = 0 .. c - 1 /\ Root \in NodesOf(t)
  BY <1>1, NumberOfNodes
<1>3. \E f : Locking(t, l, r, c, f)
  BY <1>1, LockingExists
<1>4. B = CHOOSE f : Locking(t, l, r, c, f)
  BY <1>2 DEF Lockstep, Locking, LockStep
<1>5. Locking(t, l, r, c, B)
  BY <1>3, <1>4
<1>6. \A n \in NodesOf(t) :
        B[n] = IF n = Root THEN <<Root, Root>> ELSE LockStep(t, l, r, n, B[ParentIn(t, n)])
  BY <1>2, <1>5 DEF Locking
<1> QED BY <1>2, <1>6

LEMMA GetChildIs ==
  ASSUME NEW t, Grown(t), NEW p \in Places(t), NEW a \in Alternatives, Append(p, a) \in Places(t)
  PROVE  GetChild(t, At(t, p), a) = At(t, Append(p, a))
<1>1. PICK n : n = At(t, p)
  OBVIOUS
<1>2. n \in NodesOf(t) /\ t.place[n] = p
  BY <1>1, NodesAndPlaces
<1>3. a <= ChildrenCount(t, n)
  BY <1>2, ChildThere
<1> QED BY <1>1, <1>2, <1>3 DEF GetChild, Child

\* Where the trees agree the walk has the nodes of both in hand.
InHand(t, l, r, l1, r1) ==
  \A p \in Agreed(l, r) :
    /\ p \in Places(l1) /\ p \in Places(r1)
    /\ Lockstep(t, l1, r1)[At(t, p)] = <<At(l1, p), At(r1, p)>>

LEMMA WalkAgreed ==
  ASSUME NEW l, Source(l), NEW r, Source(r), NEW t, Grown(t), Compare(l, r) \subseteq Places(t),
         NEW l1, Grown(l1), Keeps(l, l1), NEW r1, Grown(r1), Keeps(r, r1)
  PROVE  InHand(t, l, r, l1, r1)
<1>1. PICK B : B = Lockstep(t, l1, r1)
  OBVIOUS
<1>2. /\ B[Root] = <<Root, Root>>
      /\ \A n \in NodesOf(t) : n # Root => B[n] = LockStep(t, l1, r1, n, B[ParentIn(t, n)])
  BY <1>1, LockstepIs
<1>3. Grown(l) /\ Grown(r)
  BY DEF Source
<1>4. \A p \in Agreed(l, r) : p \in PlaceSet /\ p \in Places(l1) /\ p \in Places(r1)
  BY <1>3, AgreedBelow, KeptPlaces
<1> DEFINE X == {p \in PlaceSet : p \in Agreed(l, r) => B[At(t, p)] = <<At(l1, p), At(r1, p)>>}
<1>5. <<>> \in X
  <2>1. <<>> \in PlaceSet
    BY EmptySeq DEF PlaceSet
  <2>2. At(t, <<>>) = Root /\ At(l1, <<>>) = Root /\ At(r1, <<>>) = Root
    BY NodesAndPlaces
  <2> QED BY <1>2, <2>1, <2>2
<1>6. ASSUME NEW p \in PlaceSet, NEW a \in Alternatives, p \in X PROVE Append(p, a) \in X
  <2>1. PICK q : q = Append(p, a)
    OBVIOUS
  <2>2. q \in PlaceSet /\ q # <<>> /\ Front(q) = p /\ Last(q) = a
    BY <2>1, AppendIs
  <2> SUFFICES ASSUME q \in Agreed(l, r) PROVE B[At(t, q)] = <<At(l1, q), At(r1, q)>>
    BY <2>1, <2>2
  <2>3. p \in Agreed(l, r)
    BY <2>1, AgreedBelow
  <2>4. B[At(t, p)] = <<At(l1, p), At(r1, p)>>
    BY <1>6, <2>3
  <2>5. PICK n : n = At(t, q)
    OBVIOUS
  <2>6. n \in NodesOf(t) /\ t.place[n] = q /\ n # Root
    <3>1. q \in Places(t)
      BY DEF Compare
    <3>2. t.place[Root] = <<>>
      <4>1. <<>> \in Places(t) /\ At(t, <<>>) = Root
        BY NodesAndPlaces
      <4> QED BY <4>1, NodesAndPlaces
    <3> QED BY <2>2, <2>5, <3>1, <3>2, NodesAndPlaces
  <2>7. ParentIn(t, n) = At(t, p) /\ AlternativeIn(t, n) = a
    BY <2>2, <2>6 DEF ParentIn, AlternativeIn
  <2>8. PICK up : up = <<At(l1, p), At(r1, p)>>
    OBVIOUS
  <2>9. B[n] = LockStep(t, l1, r1, n, up)
    BY <1>2, <2>4, <2>6, <2>7, <2>8
  <2>10. up[1] = At(l1, p) /\ up[2] = At(r1, p)
    BY <2>8
  <2>11. GetChild(l1, At(l1, p), a) = At(l1, q)
    <3>1. p \in Places(l1) /\ Append(p, a) \in Places(l1)
      BY <1>4, <2>1, <2>3
    <3> QED BY <2>1, <3>1, GetChildIs
  <2>12. GetChild(r1, At(r1, p), a) = At(r1, q)
    <3>1. p \in Places(r1) /\ Append(p, a) \in Places(r1)
      BY <1>4, <2>1, <2>3
    <3> QED BY <2>1, <3>1, GetChildIs
  <2> QED BY <2>5, <2>7, <2>9, <2>10, <2>11, <2>12 DEF LockStep
<1>7. \A p \in PlaceSet : p \in X
  <2> HIDE DEF X
  <2>1. \A s \in Seq(Alternatives), e \in Alternatives : s \in X => Append(s, e) \in X
    BY <1>6 DEF PlaceSet
  <2> QED BY <1>5, <2>1, SeqInduction DEF PlaceSet
<1> QED BY <1>1, <1>4, <1>7 DEF InHand

\* At a pentagon it has those of the trees that have a node there.
LEMMA WalkDisputed ==
  ASSUME NEW l, Source(l), NEW r, Source(r), NEW t, Grown(t), Compare(l, r) \subseteq Places(t),
         NEW l1, Grown(l1), Keeps(l, l1), NEW r1, Grown(r1), Keeps(r, r1),
         NEW d \in Disputed(l, r), NEW B, B = Lockstep(t, l1, r1)
  PROVE  /\ d \in Places(l) => d \in Places(l1) /\ B[At(t, d)][1] = At(l1, d)
         /\ d \in Places(r) => d \in Places(r1) /\ B[At(t, d)][2] = At(r1, d)
<1>1. /\ d \in Compare(l, r) /\ d \in PlaceSet /\ d # <<>>
  BY CompareIs DEF Compare
<1>2. PICK f, a : f = Front(d) /\ a = Last(d)
  OBVIOUS
<1>3. f \in PlaceSet /\ a \in Alternatives /\ Append(f, a) = d
  BY <1>1, <1>2, FrontIs
<1>4. f \in Agreed(l, r)
  BY <1>1, <1>3, CompareIs
<1>5. /\ f \in Places(l1) /\ f \in Places(r1) /\ B[At(t, f)] = <<At(l1, f), At(r1, f)>>
  <2>1. InHand(t, l, r, l1, r1)
    BY WalkAgreed
  <2> QED BY <1>4, <2>1 DEF InHand
<1>6. PICK n : n = At(t, d)
  OBVIOUS
<1>7. n \in NodesOf(t) /\ t.place[n] = d /\ n # Root
  <2>1. t.place[Root] = <<>>
    <3>1. <<>> \in Places(t) /\ At(t, <<>>) = Root
      BY NodesAndPlaces
    <3> QED BY <3>1, NodesAndPlaces
  <2> QED BY <1>1, <1>6, <2>1, NodesAndPlaces
<1>8. ParentIn(t, n) = At(t, f) /\ AlternativeIn(t, n) = a
  BY <1>2, <1>7 DEF ParentIn, AlternativeIn
<1>9. PICK up : up = <<At(l1, f), At(r1, f)>>
  OBVIOUS
<1>10. B[n] = LockStep(t, l1, r1, n, up)
  <2>1. B[n] = LockStep(t, l1, r1, n, B[ParentIn(t, n)])
    BY <1>7, LockstepIs
  <2> QED BY <1>5, <1>8, <1>9, <2>1
<1>11. B[n][1] = GetChild(l1, At(l1, f), a) /\ B[n][2] = GetChild(r1, At(r1, f), a)
  BY <1>8, <1>9, <1>10 DEF LockStep
<1>12. Grown(l) /\ Grown(r)
  BY DEF Source
<1>13. ASSUME d \in Places(l) PROVE d \in Places(l1) /\ B[n][1] = At(l1, d)
  <2>1. d \in Places(l1)
    BY <1>12, <1>13, KeptPlaces
  <2> QED BY <1>3, <1>5, <1>11, <2>1, GetChildIs
<1>14. ASSUME d \in Places(r) PROVE d \in Places(r1) /\ B[n][2] = At(r1, d)
  <2>1. d \in Places(r1)
    BY <1>12, <1>14, KeptPlaces
  <2> QED BY <1>3, <1>5, <1>11, <2>1, GetChildIs
<1> QED BY <1>6, <1>13, <1>14

\* What Origin says of the trees of a merger.
OriginIn(t, l, r, n) == LET src == IF OnRight(t, n) THEN r ELSE l IN At(src, PlaceOf(t, n))

LEMMA OriginAbove ==
  ASSUME NEW t, NEW n, ~UnderAPentagon(t, n), NEW l, NEW r
  PROVE  OriginIn(t, l, r, n) = At(l, t.place[n])
<1>1. PentagonsAbove(t, n) = {}
  BY DEF PentagonsAbove, UnderAPentagon
<1> QED BY <1>1 DEF OriginIn, OnRight, PlaceOf

\* The child at side s of a pentagon at d.
SideChild(t, d, s, n) ==
  /\ n \in NodesOf(t) /\ t.place[n] = Append(d, s) /\ n # Root
  /\ UnderAPentagon(t, n) /\ ParentIn(t, n) = At(t, d) /\ AlternativeIn(t, n) = s
  /\ t.status[ParentIn(t, n)] = "MERGED"
  /\ \A l, r : OriginIn(t, l, r, n) = At(IF s = 2 THEN r ELSE l, d)

LEMMA SideChildIs ==
  ASSUME NEW l, Source(l), NEW r, Source(r), NEW res, NEW list, Finished(l, r, res, list),
         NEW t, t = res.tree, NEW d \in Disputed(l, r), NEW s \in {1, 2},
         NEW n \in NodesOf(t), t.place[n] = Append(d, s)
  PROVE  SideChild(t, d, s, n)
<1>1. Grown(t) /\ \A k \in NodesOf(t) : t.status[k] = "MERGED" <=> t.place[k] \in Disputed(l, r)
  BY PentagonNodes
<1>2. d \in PlaceSet /\ d \in Places(t) /\ s \in Alternatives
  <2>1. d \in Compare(l, r)
    BY DEF Compare
  <2>2. d \in Places(t)
    BY <2>1 DEF Finished, Overlays
  <2> QED BY <2>1, <2>2, CompareIs, OneAndTwo
<1>3. PICK q, k : q = Append(d, s) /\ k = At(t, d)
  OBVIOUS
<1>4. /\ q \in PlaceSet /\ q # <<>> /\ q # d /\ Front(q) = d /\ Last(q) = s
      /\ Len(q) = Len(d) + 1 /\ q[Len(d) + 1] = s /\ IsPrefix(d, q)
      /\ \A v \in PlaceSet : IsPrefix(v, q) <=> v = q \/ IsPrefix(v, d)
  BY <1>2, <1>3, AppendIs
<1>5. k \in NodesOf(t) /\ t.place[k] = d /\ t.status[k] = "MERGED" /\ At(t, d) = k
  BY <1>1, <1>2, <1>3, NodesAndPlaces
<1>6. n # Root
  <2>1. <<>> \in Places(t) /\ At(t, <<>>) = Root
    BY <1>1, NodesAndPlaces
  <2>2. t.place[Root] = <<>>
    BY <1>1, <2>1, NodesAndPlaces
  <2> QED BY <1>3, <1>4, <2>2
<1>7. ParentIn(t, n) = k /\ AlternativeIn(t, n) = s
  BY <1>3, <1>4, <1>6 DEF ParentIn, AlternativeIn
<1>8. PentagonsAbove(t, n) = {k}
  <2>1. k \in PentagonsAbove(t, n)
    <3>1. k # n
      BY <1>3, <1>4, <1>5
    <3>2. k \in AncestorsIn(t, n)
      BY <1>3, <1>4, <1>5 DEF AncestorsIn
    <3> QED BY <1>5, <3>1, <3>2 DEF PentagonsAbove
  <2>2. ASSUME NEW a \in PentagonsAbove(t, n) PROVE a = k
    <3>1. a \in NodesOf(t) /\ a # n /\ IsPrefix(t.place[a], t.place[n]) /\ t.status[a] = "MERGED"
      BY DEF PentagonsAbove, AncestorsIn
    <3>2. PICK v : v = t.place[a]
      OBVIOUS
    <3>3. v \in PlaceSet /\ At(t, v) = a /\ v \in Disputed(l, r)
      BY <1>1, <3>1, <3>2, NodesAndPlaces
    <3>4. v # q
      <4>1. At(t, q) = n
        <5>1. t.place[n] = q
          BY <1>3
        <5> QED BY <1>1, <5>1, NodesAndPlaces
      <4> QED BY <3>1, <3>3, <4>1
    <3>5. IsPrefix(v, d)
      BY <1>3, <1>4, <3>1, <3>2, <3>3, <3>4
    <3>6. v = d
      BY <3>3, <3>5, PentagonsApart
    <3> QED BY <1>3, <3>3, <3>6
  <2> QED BY <2>1, <2>2
<1>9. DepthOfPentagon(t, n) = Len(d)
  <2>1. (CHOOSE a \in PentagonsAbove(t, n) : TRUE) = k
    BY <1>8
  <2> QED BY <1>5, <2>1 DEF DepthOfPentagon
<1>10. OnRight(t, n) <=> s = 2
  BY <1>3, <1>4, <1>8, <1>9 DEF OnRight
<1>11. PlaceOf(t, n) = d
  <2>1. PICK i : i = Len(d) + 1
    OBVIOUS
  <2>2. PlaceOf(t, n) = RemoveAt(q, i)
    BY <1>3, <1>8, <1>9, <2>1 DEF PlaceOf
  <2>3. Len(d) \in Nat
    BY <1>2, LenProperties DEF PlaceSet
  <2>4. SubSeq(q, 1, i - 1) = d
    <3>1. i - 1 = Len(q) - 1
      BY <1>4, <2>1, <2>3
    <3> QED BY <1>4, <3>1 DEF Front
  <2>5. SubSeq(q, i + 1, Len(q)) = <<>>
    BY <1>4, <2>1, <2>3
  <2>6. d \o <<>> = d
    BY <1>2, ConcatEmptySeq DEF PlaceSet
  <2>7. RemoveAt(q, i) = SubSeq(q, 1, i - 1) \o SubSeq(q, i + 1, Len(q))
    BY Zenon DEF RemoveAt
  <2> QED BY <2>2, <2>4, <2>5, <2>6, <2>7
<1>12. \A l2, r2 : OriginIn(t, l2, r2, n) = At(IF s = 2 THEN r2 ELSE l2, d)
  BY <1>10, <1>11 DEF OriginIn
<1>13. UnderAPentagon(t, n)
  BY <1>8 DEF UnderAPentagon, PentagonsAbove
<1> QED BY <1>3, <1>5, <1>6, <1>7, <1>12, <1>13 DEF SideChild

\* The tree of side s has a node at d.
HasSide(l, r, d, s) == d \in Places(IF s = 2 THEN r ELSE l)

\* The tree was l when it was merged, l1 when the window opened and is l2 now.
Since(l, l1, l2) == Grown(l1) /\ Later(l, l1) /\ Grown(l2) /\ Later(l1, l2)

\* An explored node below a pentagon and next to it is a side.
IsSide(t, l, r, n) ==
  \E d \in Disputed(l, r), s \in {1, 2} :
    t.place[n] = Append(d, s) /\ HasSide(l, r, d, s)

\* The window has linked a node to where it comes from.
Linked(t, l1, r1, l2, r2, n) == OriginalLocations(t, l1, r1)[n] = OriginIn(t, l2, r2, n)

\* It has linked a side of a pentagon to the node that is there.
LEMMA SideLinked ==
  ASSUME NEW l, Source(l), NEW r, Source(r), NEW res, NEW list, Finished(l, r, res, list),
         NEW t, t = res.tree, NEW l1, NEW l2, Since(l, l1, l2), NEW r1, NEW r2, Since(r, r1, r2),
         NEW n \in NodesOf(t), IsSide(t, l, r, n), t.status[n] # "MERGED"
  PROVE  Linked(t, l1, r1, l2, r2, n)
<1>0d. PICK d \in Disputed(l, r), s \in {1, 2} :
         t.place[n] = Append(d, s) /\ HasSide(l, r, d, s)
  BY DEF IsSide
<1>1. /\ Grown(t) /\ Compare(l, r) \subseteq Places(t)
      /\ Grown(l1) /\ Keeps(l, l1) /\ Grown(l2) /\ Keeps(l1, l2)
      /\ Grown(r1) /\ Keeps(r, r1) /\ Grown(r2) /\ Keeps(r1, r2)
  BY DEF Finished, Overlays, Since, Later
<1>2. SideChild(t, d, s, n)
  BY <1>0d, SideChildIs
<1>3. PICK B : B = Lockstep(t, l1, r1)
  OBVIOUS
<1>4. OriginalLocations(t, l1, r1)[n] = B[At(t, d)][s]
  BY <1>0d, <1>2, <1>3 DEF OriginalLocations, SideChild
<1>5. /\ d \in Places(l) => d \in Places(l1) /\ B[At(t, d)][1] = At(l1, d)
      /\ d \in Places(r) => d \in Places(r1) /\ B[At(t, d)][2] = At(r1, d)
  BY <1>1, <1>3, WalkDisputed
<1>6. OriginIn(t, l2, r2, n) = At(IF s = 2 THEN r2 ELSE l2, d)
  BY <1>2 DEF SideChild
<1>6a. s = 1 \/ s = 2
  BY <1>0d
<1>7. CASE s = 1
  <2>1. d \in Places(l1) /\ B[At(t, d)][1] = At(l1, d)
    BY <1>0d, <1>5, <1>7 DEF HasSide
  <2>2. At(l2, d) = At(l1, d)
    BY <1>1, <2>1, KeptPlaces
  <2>3. OriginIn(t, l2, r2, n) = At(l2, d)
    BY <1>6, <1>7
  <2>4. OriginalLocations(t, l1, r1)[n] = B[At(t, d)][1]
    BY <1>4, <1>7
  <2> QED BY <2>1, <2>2, <2>3, <2>4 DEF Linked
<1>8. CASE s = 2
  <2>1. d \in Places(r1) /\ B[At(t, d)][2] = At(r1, d)
    BY <1>0d, <1>5, <1>8 DEF HasSide
  <2>2. At(r2, d) = At(r1, d)
    BY <1>1, <2>1, KeptPlaces
  <2>3. OriginIn(t, l2, r2, n) = At(r2, d)
    BY <1>6, <1>8
  <2>4. OriginalLocations(t, l1, r1)[n] = B[At(t, d)][2]
    BY <1>4, <1>8
  <2> QED BY <2>1, <2>2, <2>3, <2>4 DEF Linked
<1> QED BY <1>6a, <1>7, <1>8

\* An explored node below a pentagon and next to it is a side.
LEMMA ExploredSide ==
  ASSUME NEW l, Source(l), NEW r, Source(r), NEW res, NEW list, Finished(l, r, res, list),
         NEW t, t = res.tree, NEW n \in NodesOf(t), n # Root,
         t.status[ParentIn(t, n)] = "MERGED", t.status[n] # "UNDETERMINED"
  PROVE  IsSide(t, l, r, n)
<1>1. /\ Grown(t) /\ \A k \in NodesOf(t) : t.status[k] = "MERGED" <=> t.place[k] \in Disputed(l, r)
  BY PentagonNodes
<1>2. PICK k, a : k = ParentIn(t, n) /\ a = AlternativeIn(t, n)
  OBVIOUS
<1>3. k \in NodesOf(t) /\ a \in Alternatives /\ t.place[n] = Append(t.place[k], a)
  BY <1>1, <1>2, ParentIs
<1>4. PICK d, q : d = t.place[k] /\ q = Append(d, a)
  OBVIOUS
<1>5. d \in Disputed(l, r) /\ d \in PlaceSet /\ t.place[n] = q
  BY <1>1, <1>2, <1>3, <1>4, NodesAndPlaces
<1>6. /\ q \in PlaceSet /\ q # d /\ q # <<>> /\ IsPrefix(d, q) /\ Len(q) = Len(d) + 1
      /\ q[Len(d) + 1] = a
      /\ \A x \in PlaceSet : IsPrefix(x, q) <=> x = q \/ IsPrefix(x, d)
  <2>1. a \in Alternatives /\ d \in PlaceSet /\ q = Append(d, a)
    BY <1>3, <1>4, <1>5
  <2> QED BY <2>1, AppendIs
<1>7. q \notin Compare(l, r)
  BY <1>5, <1>6, BelowPentagon
<1>8. q \in Places(t) /\ StatusAt(t, q) # "UNDETERMINED"
  BY <1>1, <1>5, NodesAndPlaces
<1>9. q \in UnderPens(l, r, {})
  <2>1. ~Fresh(t, q)
    BY <1>6, <1>8 DEF Fresh
  <2>2. \A p \in Places(t) \ (Compare(l, r) \cup UnderPens(l, r, {})) : Fresh(t, p)
    BY DEF Finished, Overlays
  <2> QED BY <1>7, <1>8, <2>1, <2>2
<1>10. PICK e \in Disputed(l, r) : q \in Side(l, e, 1) \/ q \in Side(r, e, 2)
  BY <1>9 DEF UnderPens, Finished
<1>11. PICK s, src : /\ s \in {1, 2} /\ src = (IF s = 2 THEN r ELSE l)
                     /\ q \in Side(src, e, s)
  <2>1. CASE q \in Side(l, e, 1)
    BY <2>1
  <2>2. CASE q \in Side(r, e, 2)
    BY <2>2
  <2> QED BY <1>10, <2>1, <2>2
<1>12. Grown(src)
  BY <1>11 DEF Source
<1>13. PICK v \in PlacesBelow(src, e) : q = UnderPentagon(e, s, v)
  BY <1>11 DEF Side
<1>14. v \in Places(src) /\ v \in PlaceSet /\ IsPrefix(e, v) /\ e \in PlaceSet /\ s \in Alternatives
  <2>1. e \in PlaceSet
    BY CompareIs DEF Compare
  <2>2. v \in Places(src) /\ IsPrefix(e, v)
    BY <1>13 DEF PlacesBelow
  <2>3. v \in PlaceSet
    BY <1>12, <2>2, NodesAndPlaces
  <2> QED BY <1>11, <2>1, <2>2, <2>3, OneAndTwo
<1>15. PICK es : es = Append(e, s)
  OBVIOUS
<1>16. /\ es \in PlaceSet /\ Len(es) = Len(e) + 1 /\ es[Len(e) + 1] = s /\ IsPrefix(e, es)
  BY <1>14, <1>15, AppendIs
<1>17. IsPrefix(es, q) /\ IsPrefix(e, q) /\ e # q
  BY <1>13, <1>14, <1>15, UnderIs
<1>18. e = d
  <2>1. IsPrefix(e, d)
    BY <1>6, <1>14, <1>17
  <2> QED BY <1>5, <2>1, PentagonsApart
<1>19. es = q
  <2>1. \A i \in 1 .. Len(es) : es[i] = q[i]
    BY <1>6, <1>16, <1>17, PrefixIs
  <2> QED BY <1>6, <1>16, <1>18, <2>1, SamePlace
<1>20. e \in Places(src)
  BY <1>12, <1>14, PlacesAbove
<1> QED BY <1>5, <1>11, <1>15, <1>18, <1>19, <1>20 DEF IsSide, HasSide

\* What LocationsExact says of the locations of a window.
LocationsOf(t, l, r, locs) ==
  \A n \in NodesOf(t) :
    t.status[n] \notin {"MERGED", "UNDETERMINED"}
      /\ (~UnderAPentagon(t, n) \/ t.status[ParentIn(t, n)] = "MERGED")
    => locs[n] = OriginIn(t, l, r, n)

LEMMA LocationsAre ==
  ASSUME NEW l, Source(l), NEW r, Source(r), NEW res, NEW list, Finished(l, r, res, list),
         NEW t, t = res.tree, NEW l1, NEW l2, Since(l, l1, l2), NEW r1, NEW r2, Since(r, r1, r2)
  PROVE  LocationsOf(t, l2, r2, OriginalLocations(t, l1, r1))
<1>0. /\ Grown(l1) /\ Keeps(l, l1) /\ Grown(l2) /\ Keeps(l1, l2)
      /\ Grown(r1) /\ Keeps(r, r1) /\ Grown(r2) /\ Keeps(r1, r2)
  BY DEF Since, Later
<1>1. /\ Grown(t) /\ Compare(l, r) \subseteq Places(t)
      /\ \A p \in Places(t) : StatusAt(t, p) = "MERGED" <=> p \in Disputed(l, r)
      /\ \A p \in Places(t) \ (Compare(l, r) \cup UnderPens(l, r, {})) : Fresh(t, p)
  BY DEF Finished, Overlays
<1>2. SUFFICES ASSUME NEW n \in NodesOf(t), t.status[n] \notin {"MERGED", "UNDETERMINED"},
                      ~UnderAPentagon(t, n) \/ t.status[ParentIn(t, n)] = "MERGED"
               PROVE  Linked(t, l1, r1, l2, r2, n)
  BY DEF LocationsOf, Linked
<1>3. PICK p : p = t.place[n]
  OBVIOUS
<1>4. p \in PlaceSet /\ p \in Places(t) /\ At(t, p) = n /\ StatusAt(t, p) = t.status[n]
  BY <1>1, <1>3, NodesAndPlaces
<1>5. CASE ~UnderAPentagon(t, n)
  <2>1. p \notin UnderPens(l, r, {})
    <3> SUFFICES ASSUME p \in UnderPens(l, r, {}) PROVE FALSE
      OBVIOUS
    <3>1. PICK e \in Disputed(l, r) : p \in Side(l, e, 1) \/ p \in Side(r, e, 2)
      BY DEF UnderPens, Finished
    <3>2. e \in PlaceSet /\ e \in Places(t)
      BY <1>1, CompareIs DEF Compare
    <3>3. IsPrefix(e, p) /\ e # p
      <4>1. \A src, s, v : Source(src) /\ s \in {1, 2} /\ v \in PlacesBelow(src, e) =>
              IsPrefix(e, UnderPentagon(e, s, v)) /\ UnderPentagon(e, s, v) # e
        <5> SUFFICES ASSUME NEW src, NEW s \in {1, 2}, NEW v \in PlacesBelow(src, e), Source(src)
                     PROVE  IsPrefix(e, UnderPentagon(e, s, v)) /\ UnderPentagon(e, s, v) # e
          OBVIOUS
        <5>1. v \in Places(src) /\ IsPrefix(e, v)
          BY DEF PlacesBelow
        <5>2. v \in PlaceSet /\ s \in Alternatives
          BY <5>1, SourceIs, OneAndTwo
        <5> QED BY <3>2, <5>1, <5>2, UnderIs
      <4>2. 1 \in {1, 2} /\ 2 \in {1, 2}
        OBVIOUS
      <4> QED BY <3>1, <4>1, <4>2 DEF Side
    <3>4. At(t, e) \in NodesOf(t) /\ t.place[At(t, e)] = e /\ t.status[At(t, e)] = "MERGED"
      BY <1>1, <3>2, NodesAndPlaces
    <3>5. At(t, e) \in AncestorsIn(t, n) /\ At(t, e) # n
      BY <1>3, <3>3, <3>4 DEF AncestorsIn
    <3> QED BY <1>5, <3>4, <3>5 DEF UnderAPentagon
  <2>2. p \in Agreed(l, r)
    <3>1. p \in Compare(l, r)
      <4>1. CASE p = <<>>
        BY <4>1, CompareIs
      <4>2. CASE p # <<>>
        BY <1>1, <1>2, <1>4, <2>1, <4>2 DEF Fresh
      <4> QED BY <4>1, <4>2
    <3> QED BY <1>1, <1>2, <1>4, <3>1 DEF Compare
  <2>3. p \in Places(l1) /\ Lockstep(t, l1, r1)[n] = <<At(l1, p), At(r1, p)>>
    <3>1. InHand(t, l, r, l1, r1)
      BY <1>0, <1>1, WalkAgreed
    <3> QED BY <1>4, <2>2, <3>1 DEF InHand
  <2>4. OriginalLocations(t, l1, r1)[n] = At(l1, p)
    BY <1>2, <1>5, <2>3 DEF OriginalLocations
  <2>5. OriginIn(t, l2, r2, n) = At(l2, p)
    BY <1>3, <1>5, OriginAbove
  <2>6. At(l2, p) = At(l1, p)
    BY <1>0, <2>3, KeptPlaces
  <2> QED BY <2>4, <2>5, <2>6 DEF Linked
<1>6. CASE UnderAPentagon(t, n)
  <2>1. t.status[ParentIn(t, n)] = "MERGED"
    BY <1>2, <1>6
  <2>2. n # Root
    <3>1. p # <<>>
      <4> SUFFICES ASSUME p = <<>> PROVE FALSE
        OBVIOUS
      <4>1. PICK a \in AncestorsIn(t, n) \ {n} : t.status[a] = "MERGED"
        BY <1>6 DEF UnderAPentagon
      <4>2. a \in NodesOf(t) /\ IsPrefix(t.place[a], p)
        BY <1>3, <4>1 DEF AncestorsIn
      <4>3. t.place[a] \in PlaceSet /\ At(t, t.place[a]) = a
        BY <1>1, <4>2, NodesAndPlaces
      <4>4. IsPrefix(p, t.place[a])
        BY <4>3, PrefixOrder
      <4>5. t.place[a] = p
        BY <1>4, <4>2, <4>3, <4>4, PrefixOrder
      <4> QED BY <1>4, <4>1, <4>3, <4>5
    <3>2. At(t, <<>>) = Root /\ <<>> \in Places(t)
      BY <1>1, NodesAndPlaces
    <3>3. t.place[Root] = <<>>
      BY <1>1, <3>2, NodesAndPlaces
    <3> QED BY <1>3, <3>1, <3>3
  <2>3. IsSide(t, l, r, n)
    <3>1. t.status[n] # "UNDETERMINED"
      BY <1>2
    <3> QED BY <2>1, <2>2, <3>1, ExploredSide
  <2>4. t.status[n] # "MERGED"
    BY <1>2
  <2> QED BY <2>3, <2>4, SideLinked
<1> QED BY <1>5, <1>6

-----------------------------------------------------------------------------
(* The walk goes on or throws *)

\* What has a child is not undetermined.
LEMMA AboveExplored ==
  ASSUME NEW t, Grown(t), NEW p \in Places(t), NEW q \in Places(t), IsPrefix(q, p), q # p
  PROVE  StatusAt(t, q) # "UNDETERMINED"
<1>1. PICK n : n = At(t, q)
  OBVIOUS
<1>2. n \in NodesOf(t) /\ t.place[n] = q /\ StatusAt(t, q) = t.status[n]
  BY <1>1, NodesAndPlaces
<1>3. Has(t, q, ChildrenCount(t, n))
  BY <1>2, Children
<1>4. ChildrenCount(t, n) # 0
  BY <1>3, NothingBelow
<1>5. t.status[n] \in {"BRANCH", "MERGED"}
  BY <1>2, <1>4, ChildThere
<1> QED BY <1>2, <1>5

\* Where two trees agree on an explored node they go on to do so.
LEMMA StillAgreed ==
  ASSUME NEW l, Source(l), NEW r, Source(r), NEW p \in Agreed(l, r),
         StatusAt(l, p) # "UNDETERMINED",
         NEW l1, Grown(l1), Later(l, l1), NEW r1, Grown(r1), Later(r, r1)
  PROVE  p \in Agreed(l1, r1)
<1>1. Grown(l) /\ Grown(r)
  BY DEF Source
<1>2. p \in PlaceSet /\ p \in Places(l) /\ p \in Places(r) /\ StatusAt(l, p) = StatusAt(r, p)
  BY AgreedBelow
<1>3. ASSUME NEW t, Grown(t), NEW t1, Grown(t1), Later(t, t1), NEW q \in Places(t),
             StatusAt(t, q) # "UNDETERMINED"
      PROVE  q \in Places(t1) /\ StatusAt(t1, q) = StatusAt(t, q)
  <2>1. q \in Places(t1) /\ At(t1, q) = At(t, q)
    BY <1>3, KeptPlaces DEF Later
  <2>2. At(t, q) \in NodesOf(t) /\ StatusAt(t, q) = t.status[At(t, q)]
    BY <1>3, NodesAndPlaces
  <2>3. StatusAt(t1, q) = t1.status[At(t, q)]
    BY <2>1 DEF StatusAt
  <2> QED BY <1>3, <2>1, <2>2, <2>3 DEF Later
<1>4. p \in Places(l1) /\ p \in Places(r1)
  BY <1>1, <1>2, <1>3
<1>5. ASSUME NEW q \in PlaceSet, IsPrefix(q, p) PROVE StatusAt(l1, q) = StatusAt(r1, q)
  <2>1. q \in Agreed(l, r)
    BY <1>5, AgreedBelow
  <2>2. q \in Places(l) /\ q \in Places(r) /\ StatusAt(l, q) = StatusAt(r, q)
    BY <2>1, AgreedBelow
  <2>3. StatusAt(l, q) # "UNDETERMINED"
    BY <1>1, <1>2, <1>5, <2>2, AboveExplored
  <2>4. StatusAt(l1, q) = StatusAt(l, q)
    BY <1>1, <1>3, <2>2, <2>3
  <2>5. StatusAt(r1, q) = StatusAt(r, q)
    BY <1>1, <1>3, <2>2, <2>3
  <2> QED BY <2>2, <2>4, <2>5
<1> QED BY <1>2, <1>4, <1>5, AgreedIs

\* Nodes without children stay apart from those that have some.
LEMMA BarrenIs ==
  ASSUME NEW l, Grown(l), NEW p \in Places(l)
  PROVE  /\ (\E a \in Alternatives : Append(p, a) \in Places(l)) <=> ChildrenCount(l, At(l, p)) # 0
         /\ \A l1 : Grown(l1) /\ Keeps(l, l1) =>
              /\ p \in Places(l1)
              /\ ChildrenCount(l, At(l, p)) # 0 => ChildrenCount(l1, At(l1, p)) # 0
<1>1. ASSUME NEW t, Grown(t), p \in Places(t)
      PROVE  (\E a \in Alternatives : Append(p, a) \in Places(t)) <=> ChildrenCount(t, At(t, p)) # 0
  <2>1. PICK n, k : n = At(t, p) /\ k = ChildrenCount(t, n)
    OBVIOUS
  <2>2. n \in NodesOf(t) /\ t.place[n] = p
    BY <1>1, <2>1, NodesAndPlaces
  <2>3. k \in Nat /\ \A a \in Alternatives : a <= k <=> Append(p, a) \in Places(t)
    BY <1>1, <2>1, <2>2, ChildThere
  <2>4. k # 0 => 1 \in Alternatives /\ 1 <= k
    BY <2>3 DEF Alternatives
  <2>5. \A a \in Alternatives : a <= k => k # 0
    BY DEF Alternatives
  <2> QED BY <2>1, <2>3, <2>4, <2>5
<1>2. ASSUME NEW l1, Grown(l1), Keeps(l, l1)
      PROVE  /\ p \in Places(l1)
             /\ ChildrenCount(l, At(l, p)) # 0 => ChildrenCount(l1, At(l1, p)) # 0
  <2>1. Places(l) \subseteq Places(l1)
    BY <1>2, KeptPlaces
  <2>2. p \in Places(l1)
    BY <2>1
  <2> QED BY <1>1, <1>2, <2>1, <2>2
<1> QED BY <1>1, <1>2

\* A node the walk goes on from stands for two branches, and one of them had a
\* child when they were merged.
Branching(l, r, p) ==
  /\ p \in Agreed(l, r) /\ StatusAt(l, p) # "UNDETERMINED"
  /\ \E a \in Alternatives : Append(p, a) \in Places(l) \cup Places(r)

LEMMA WalkedIs ==
  ASSUME NEW l, Source(l), NEW r, Source(r), NEW res, NEW list, Finished(l, r, res, list),
         NEW t, t = res.tree, NEW n \in WalksOn(t)
  PROVE  Branching(l, r, t.place[n])
<1>1. /\ Grown(t) /\ Compare(l, r) \subseteq Places(t)
      /\ \A p \in Places(t) : StatusAt(t, p) = "MERGED" <=> p \in Disputed(l, r)
      /\ \A p \in Places(t) \ (Compare(l, r) \cup UnderPens(l, r, {})) : Fresh(t, p)
      /\ Founded(l, r, t)
  BY DEF Finished, Overlays
<1>2. n \in NodesOf(t) /\ t.status[n] # "MERGED" /\ ~UnderAPentagon(t, n) /\ ChildrenCount(t, n) > 0
  BY DEF WalksOn
<1>3. PICK p : p = t.place[n]
  OBVIOUS
<1>4. p \in PlaceSet /\ p \in Places(t) /\ At(t, p) = n /\ StatusAt(t, p) = t.status[n]
  BY <1>1, <1>2, <1>3, NodesAndPlaces
<1>5. PICK a \in Alternatives : Append(p, a) \in Places(t)
  <2>1. ChildrenCount(t, n) # 0
    BY <1>1, <1>2, ChildThere
  <2> QED BY <1>1, <1>4, <2>1, BarrenIs
<1>6. ASSUME NEW e \in Places(t), StatusAt(t, e) = "MERGED" PROVE ~IsPrefix(e, p)
  <2> SUFFICES ASSUME IsPrefix(e, p) PROVE FALSE
    OBVIOUS
  <2>1. At(t, e) \in NodesOf(t) /\ t.place[At(t, e)] = e /\ t.status[At(t, e)] = "MERGED"
    BY <1>1, <1>6, NodesAndPlaces
  <2>2. At(t, e) # n
    BY <1>2, <2>1
  <2>3. At(t, e) \in AncestorsIn(t, n)
    BY <1>3, <2>1 DEF AncestorsIn
  <2> QED BY <1>2, <2>1, <2>2, <2>3 DEF UnderAPentagon
<1>7. Append(p, a) \in Places(l) \cup Places(r)
  <2> SUFFICES ASSUME BelowMerged(t, Append(p, a)) PROVE FALSE
    BY <1>1, <1>5 DEF Founded
  <2>1. PICK e \in Places(t) : IsPrefix(e, Append(p, a)) /\ e # Append(p, a) /\ StatusAt(t, e) = "MERGED"
    BY DEF BelowMerged
  <2>2. e \in PlaceSet
    BY <1>1, <2>1, NodesAndPlaces
  <2>3. IsPrefix(e, p)
    BY <1>4, <2>1, <2>2, AppendIs
  <2> QED BY <1>6, <2>1, <2>3
<1>8. p \notin UnderPens(l, r, {})
  <2> SUFFICES ASSUME p \in UnderPens(l, r, {}) PROVE FALSE
    OBVIOUS
  <2>1. PICK e \in Disputed(l, r) : p \in Side(l, e, 1) \/ p \in Side(r, e, 2)
    BY DEF UnderPens, Finished
  <2>2. e \in PlaceSet /\ e \in Places(t) /\ StatusAt(t, e) = "MERGED"
    BY <1>1, CompareIs DEF Compare
  <2>3. ASSUME NEW src, Source(src), NEW s \in Alternatives, p \in Side(src, e, s)
        PROVE  IsPrefix(e, p)
    <3>1. PICK v \in PlacesBelow(src, e) : p = UnderPentagon(e, s, v)
      BY <2>3 DEF Side
    <3>2. v \in Places(src) /\ IsPrefix(e, v)
      BY DEF PlacesBelow
    <3>3. v \in PlaceSet
      BY <2>3, <3>2, SourceIs
    <3> QED BY <2>2, <3>1, <3>2, <3>3, UnderIs
  <2>4. IsPrefix(e, p)
    BY <2>1, <2>3, OneAndTwo
  <2> QED BY <1>6, <2>2, <2>4
<1>9. p \in Agreed(l, r)
  <2>1. ~Fresh(t, p)
    BY <1>5 DEF Fresh, Has, Alternatives
  <2>2. p \in Compare(l, r)
    BY <1>1, <1>4, <1>8, <2>1
  <2>3. p \notin Disputed(l, r)
    BY <1>1, <1>2, <1>4
  <2> QED BY <2>2, <2>3 DEF Compare
<1>10. StatusAt(l, p) # "UNDETERMINED"
  <2>1. p \in Places(l) /\ p \in Places(r) /\ StatusAt(l, p) = StatusAt(r, p)
    BY <1>9, AgreedBelow
  <2>2. PICK q : q = Append(p, a)
    OBVIOUS
  <2>3. IsPrefix(p, q) /\ q # p
    BY <1>4, <2>2, AppendIs
  <2>4. q \in Places(l) \/ q \in Places(r)
    BY <1>7, <2>2
  <2> QED BY <2>1, <2>3, <2>4, AboveExplored DEF Source
<1> QED BY <1>3, <1>7, <1>9, <1>10 DEF Branching

\* The two trees in step at p: both have children there, or one has none.
InStep(l, r, p) == p \in Agreed(l, r) /\ ~Barren(l, r, p)
OutOfStep(l, r, p) == p \in Agreed(l, r) /\ Barren(l, r, p)

\* The walk throws exactly where one of two equal branches is without children.
LEMMA WalkThrowsIs ==
  ASSUME NEW l, Source(l), NEW r, Source(r), NEW res, NEW list, Finished(l, r, res, list),
         NEW t, t = res.tree, NEW l1, Grown(l1), Later(l, l1), NEW r1, Grown(r1), Later(r, r1)
  PROVE  /\ WalkThrows(t, l1, r1) => \E p : OutOfStep(l1, r1, p)
         /\ ~WalkThrows(t, l1, r1) =>
              \A n \in WalksOn(t) : /\ ChildrenCount(l1, At(l1, t.place[n])) # 0
                                    /\ ChildrenCount(r1, At(r1, t.place[n])) # 0
<1>1. /\ Grown(t) /\ Compare(l, r) \subseteq Places(t) /\ Keeps(l, l1) /\ Keeps(r, r1)
      /\ Grown(l) /\ Grown(r)
  BY DEF Finished, Overlays, Later, Source
<1>2. ASSUME NEW n \in WalksOn(t), NEW p, p = t.place[n]
      PROVE  /\ Lockstep(t, l1, r1)[n] = <<At(l1, p), At(r1, p)>>
             /\ p \in Agreed(l1, r1)
             /\ ChildrenCount(l1, At(l1, p)) # 0 \/ ChildrenCount(r1, At(r1, p)) # 0
  <2>1. p \in Agreed(l, r) /\ StatusAt(l, p) # "UNDETERMINED"
    BY <1>2, WalkedIs DEF Branching
  <2>2. PICK a \in Alternatives : Append(p, a) \in Places(l) \cup Places(r)
    BY <1>2, WalkedIs DEF Branching
  <2>3. n \in NodesOf(t) /\ At(t, p) = n
    BY <1>1, <1>2, NodesAndPlaces DEF WalksOn
  <2>4. Lockstep(t, l1, r1)[n] = <<At(l1, p), At(r1, p)>>
    <3>1. InHand(t, l, r, l1, r1)
      BY <1>1, WalkAgreed
    <3> QED BY <2>1, <2>3, <3>1 DEF InHand
  <2>5. p \in Agreed(l1, r1)
    BY <2>1, StillAgreed
  <2>6. p \in Places(l) /\ p \in Places(r)
    BY <2>1, AgreedBelow
  <2>7. Append(p, a) \in Places(l) => ChildrenCount(l1, At(l1, p)) # 0
    BY <1>1, <2>6, BarrenIs
  <2>8. Append(p, a) \in Places(r) => ChildrenCount(r1, At(r1, p)) # 0
    BY <1>1, <2>6, BarrenIs
  <2> QED BY <2>2, <2>4, <2>5, <2>7, <2>8
<1>3. ASSUME WalkThrows(t, l1, r1) PROVE \E p : OutOfStep(l1, r1, p)
  <2>1. PICK n \in WalksOn(t) :
          \/ ChildrenCount(l1, Lockstep(t, l1, r1)[n][1]) = 0
          \/ ChildrenCount(r1, Lockstep(t, l1, r1)[n][2]) = 0
    BY <1>3 DEF WalkThrows
  <2>2. PICK p, b, c : p = t.place[n] /\ b = At(l1, p) /\ c = At(r1, p)
    OBVIOUS
  <2>3. Lockstep(t, l1, r1)[n] = <<b, c>> /\ p \in Agreed(l1, r1)
        /\ (ChildrenCount(l1, b) # 0 \/ ChildrenCount(r1, c) # 0)
    BY <1>2, <2>2
  <2>4. ChildrenCount(l1, b) = 0 \/ ChildrenCount(r1, c) = 0
    BY <2>1, <2>3
  <2>5. Barren(l1, r1, p)
    BY <2>2, <2>3, <2>4 DEF Barren
  <2> QED BY <2>3, <2>5 DEF OutOfStep
<1>4. ASSUME ~WalkThrows(t, l1, r1), NEW n \in WalksOn(t)
      PROVE  /\ ChildrenCount(l1, At(l1, t.place[n])) # 0
             /\ ChildrenCount(r1, At(r1, t.place[n])) # 0
  <2>1. PICK p, b, c : p = t.place[n] /\ b = At(l1, p) /\ c = At(r1, p)
    OBVIOUS
  <2>2. Lockstep(t, l1, r1)[n] = <<b, c>>
    BY <1>2, <2>1
  <2>3. ~(\/ ChildrenCount(l1, Lockstep(t, l1, r1)[n][1]) = 0
          \/ ChildrenCount(r1, Lockstep(t, l1, r1)[n][2]) = 0)
    BY <1>4 DEF WalkThrows
  <2> QED BY <2>1, <2>2, <2>3
<1> QED BY <1>3, <1>4

\* What the walk found in step stays so.
LEMMA WalkedInStep ==
  ASSUME NEW l, Source(l), NEW r, Source(r), NEW res, NEW list, Finished(l, r, res, list),
         NEW t, t = res.tree, NEW l1, NEW l2, Since(l, l1, l2), NEW r1, NEW r2, Since(r, r1, r2),
         ~WalkThrows(t, l1, r1), NEW n \in WalksOn(t)
  PROVE  InStep(l2, r2, t.place[n])
<1>1. /\ Grown(l1) /\ Later(l, l1) /\ Grown(l2) /\ Later(l1, l2) /\ Keeps(l, l1) /\ Keeps(l1, l2)
      /\ Grown(r1) /\ Later(r, r1) /\ Grown(r2) /\ Later(r1, r2) /\ Keeps(r, r1) /\ Keeps(r1, r2)
  BY DEF Since, Later
<1>2. Later(l, l2) /\ Later(r, r2)
  BY <1>1, LaterOn
<1>3. PICK p : p = t.place[n]
  OBVIOUS
<1>4. p \in Agreed(l, r) /\ StatusAt(l, p) # "UNDETERMINED"
  BY <1>3, WalkedIs DEF Branching
<1>5. p \in Agreed(l2, r2)
  BY <1>1, <1>2, <1>4, StillAgreed
<1>6. ChildrenCount(l1, At(l1, p)) # 0 /\ ChildrenCount(r1, At(r1, p)) # 0
  BY <1>1, <1>3, WalkThrowsIs
<1>7. p \in Places(l1) /\ p \in Places(r1)
  <2>1. p \in Places(l) /\ p \in Places(r) /\ Grown(l) /\ Grown(r)
    BY <1>4, AgreedBelow DEF Source
  <2> QED BY <1>1, <2>1, KeptPlaces
<1>8. ChildrenCount(l2, At(l2, p)) # 0
  BY <1>1, <1>6, <1>7, BarrenIs
<1>9. ChildrenCount(r2, At(r2, p)) # 0
  BY <1>1, <1>6, <1>7, BarrenIs
<1> QED BY <1>3, <1>5, <1>8, <1>9 DEF InStep, Barren

-----------------------------------------------------------------------------
(* The invariant of the windows *)

HidesBelow(t, hidden) == \A n \in hidden : n \in NodesOf(t) /\ UnderAPentagon(t, n)

\* The merger let go of the trees l and r, and the window opened when they had
\* grown to l1 and r1.
Shown(m, l, r, l1, r1) ==
  /\ Source(l) /\ Source(r) /\ Since(l, l1, TreeL(m)) /\ Since(r, r1, TreeR(m))
  /\ Finished(l, r, merged[m], pentagons[m])
  /\ ~WalkThrows(merged[m].tree, l1, r1)
  /\ window[m].locs = OriginalLocations(merged[m].tree, l1, r1)
  /\ HidesBelow(merged[m].tree, window[m].hidden)

Opened(m) == \E l, r, l1, r1 : Shown(m, l, r, l1, r1)

\* The window of a merger cannot open.
Failing(m) ==
  /\ thread[m] = "finished" /\ ~window[m].open
  /\ \E p : OutOfStep(TreeL(m), TreeR(m), p)

WindowInv ==
  /\ DOMAIN window = Mergers
  /\ fault \in BOOLEAN /\ (fault => \E m \in Watched : Failing(m))
  /\ \A m \in Mergers :
       /\ DOMAIN window[m] = {"open", "locs", "hidden", "analysis"}
       /\ window[m].open => thread[m] = "finished" /\ Opened(m)
       /\ ~window[m].open => window[m] = NoWindow

\* The trees only grow.
TreesGrow == \A e \in Executions : Source(trees'[e]) /\ Later(trees[e], trees'[e])

LEMMA TreesGrowNext ==
  ASSUME MergeInv, [Next]_vars
  PROVE  TreesGrow
<1>1. \A e \in Executions : Source(trees[e])
  BY DEF MergeInv
<1>2. \A t : Later(t, t)
  BY LaterSelf
<1>3. CASE trees' = trees
  BY <1>1, <1>2, <1>3 DEF TreesGrow
<1>4. CASE Build
  <2>1. PICK e \in Executions :
          \E n \in NodesOf(trees[e]), k \in 0 .. MaxKids, st \in Reported : Grow(e, n, k, st)
    BY <1>4 DEF Build
  <2>2. PICK n \in NodesOf(trees[e]), k \in 0 .. MaxKids, st \in Reported : Grow(e, n, k, st)
    BY <2>1
  <2> QED BY <2>2, GrowKeeps DEF TreesGrow
<1>5. trees' = trees \/ Build
  <2>1. \A m : RunMerger(m) => trees' = trees
    BY DEF RunMerger, LockLeft, LockRight, MergeNode, Return
  <2>2. MergerNext => trees' = trees \/ Build
    BY <2>1 DEF MergerNext
  <2>3. (\E m \in Watched : \/ OpenWindow(m) \/ RunNogoodAnalysis(m)
                           \/ \E cur \in NodesOf(merged[m].tree) : HideFailed(m, cur))
          => trees' = trees
    BY DEF OpenWindow, RunNogoodAnalysis, HideFailed, mergerVars
  <2>4. UNCHANGED vars => trees' = trees
    BY DEF vars, mergerVars, windowVars
  <2> QED BY <2>2, <2>3, <2>4 DEF Next
<1> QED BY <1>3, <1>4, <1>5

LEMMA TreesOf ==
  ASSUME NEW m \in Mergers, TreesGrow
  PROVE  /\ Source(TreeL(m)') /\ Source(TreeR(m)')
         /\ Later(TreeL(m), TreeL(m)') /\ Later(TreeR(m), TreeR(m)')
<1>1. LeftOf[m] \in Executions /\ RightOf[m] \in Executions
  BY MergersAssumption
<1>2. TreeL(m)' = trees'[LeftOf[m]] /\ TreeR(m)' = trees'[RightOf[m]]
  BY DEF TreeL, TreeR
<1> QED BY <1>1, <1>2 DEF TreesGrow, TreeL, TreeR

LEMMA SinceOn ==
  ASSUME NEW l, NEW l1, NEW l2, NEW l3, Since(l, l1, l2), Source(l3), Later(l2, l3)
  PROVE  Since(l, l1, l3)
<1>1. Later(l1, l3)
  BY LaterOn DEF Since
<1> QED BY <1>1 DEF Since, Source

\* An open window stays true to its merger while the trees grow.
LEMMA ShowsOn ==
  ASSUME NEW m \in Mergers, TreesGrow, Opened(m),
         merged'[m] = merged[m], pentagons'[m] = pentagons[m],
         window'[m].locs = window[m].locs,
         HidesBelow(merged[m].tree, window'[m].hidden)
  PROVE  Opened(m)'
<1>1. PICK l, r, l1, r1 : Shown(m, l, r, l1, r1)
  BY DEF Opened
<1>2. PICK l2, r2, l3, r3 : l2 = TreeL(m) /\ r2 = TreeR(m) /\ l3 = TreeL(m)' /\ r3 = TreeR(m)'
  OBVIOUS
<1>3. Source(l3) /\ Source(r3) /\ Later(l2, l3) /\ Later(r2, r3)
  BY <1>2, TreesOf
<1>4. Since(l, l1, l3) /\ Since(r, r1, r3)
  <2>1. Since(l, l1, l2) /\ Since(r, r1, r2)
    BY <1>1, <1>2 DEF Shown
  <2> QED BY <1>3, <2>1, SinceOn
<1>5. Shown(m, l, r, l1, r1)'
  BY <1>1, <1>2, <1>4 DEF Shown
<1> QED BY <1>5 DEF Opened

LEMMA WindowInvInit ==
  ASSUME Init
  PROVE  WindowInv
<1>1. window = [m \in Mergers |-> NoWindow] /\ fault = FALSE
  BY DEF Init
<1>2. DOMAIN NoWindow = {"open", "locs", "hidden", "analysis"} /\ ~NoWindow.open
  BY DEF NoWindow
<1> QED BY <1>1, <1>2 DEF WindowInv

\* A step of the mergers or of the builders.
LEMMA MergersStep ==
  ASSUME MergeInv, WindowInv, MergerNext, ~fault, UNCHANGED windowVars, TreesGrow
  PROVE  WindowInv'
<1>1. Fields
  BY DEF MergeInv
<1>1a. window' = window /\ fault' = FALSE
  BY DEF windowVars, WindowInv
<1>2. ASSUME NEW k \in Mergers, thread[k] = "finished"
      PROVE  thread'[k] = "finished" /\ merged'[k] = merged[k] /\ pentagons'[k] = pentagons[k]
  <2>1. CASE Build
    BY <1>2, <2>1 DEF Build, Grow
  <2>2. ASSUME NEW m \in Mergers, RunMerger(m)
        PROVE  thread'[k] = "finished" /\ merged'[k] = merged[k] /\ pentagons'[k] = pentagons[k]
    <3>1. CASE LockLeft(m)
      BY <1>1, <1>2, <3>1 DEF LockLeft, Fields
    <3>2. CASE LockRight(m)
      <4>1. thread[m] = "hasLeft" /\ thread' = [thread EXCEPT ![m] = "merging"] /\ pentagons' = pentagons
        BY <3>2 DEF LockRight
      <4>2. \E v : merged' = [merged EXCEPT ![m] = v]
        BY <3>2 DEF LockRight
      <4> QED BY <1>1, <1>2, <4>1, <4>2 DEF Fields
    <3>3. CASE MergeNode(m)
      <4>1. thread[m] = "merging" /\ thread' = thread
        BY <3>3 DEF MergeNode
      <4>2. \E v : merged' = [merged EXCEPT ![m] = v]
        BY <3>3 DEF MergeNode
      <4>3. pentagons' = pentagons \/ \E v : pentagons' = [pentagons EXCEPT ![m] = v]
        BY <3>3 DEF MergeNode
      <4> QED BY <1>1, <1>2, <4>1, <4>2, <4>3 DEF Fields
    <3>4. CASE Return(m)
      BY <1>1, <1>2, <3>4 DEF Return, Fields
    <3> QED BY <2>2, <3>1, <3>2, <3>3, <3>4 DEF RunMerger
  <2> QED BY <2>1, <2>2 DEF MergerNext
<1>3. ASSUME NEW k \in Mergers, window[k].open PROVE thread'[k] = "finished" /\ Opened(k)'
  <2>1. thread[k] = "finished" /\ Opened(k)
    BY <1>3 DEF WindowInv
  <2>2. thread'[k] = "finished" /\ merged'[k] = merged[k] /\ pentagons'[k] = pentagons[k]
    BY <1>2, <2>1
  <2>3. HidesBelow(merged[k].tree, window'[k].hidden) /\ window'[k].locs = window[k].locs
    BY <1>1a, <2>1 DEF Opened, Shown
  <2> QED BY <2>1, <2>2, <2>3, ShowsOn
<1> QED BY <1>1a, <1>3 DEF WindowInv

\* The window of a merger does not open.
LEMMA OpenWindowThrows ==
  ASSUME MergeInv, WindowInv, NEW m \in Watched, OpenWindow(m), fault', TreesGrow
  PROVE  WindowInv'
<1>1. /\ thread[m] = "finished" /\ ~window[m].open /\ UNCHANGED mergerVars /\ window' = window
      /\ fault' = WalkThrows(merged[m].tree, TreeL(m), TreeR(m))
  BY Zenon DEF OpenWindow
<1>2. m \in Mergers
  BY WatchedAssumption
<1>3. UNCHANGED <<trees, thread, merged, pentagons>>
  BY <1>1 DEF mergerVars
<1>4. Failing(m)'
  <2>1. PICK l, r : /\ Source(l) /\ Source(r) /\ Later(l, TreeL(m)) /\ Later(r, TreeR(m))
                    /\ Finished(l, r, merged[m], pentagons[m])
    BY <1>1, <1>2 DEF MergeInv, Work, Kept
  <2>2. PICK l1, r1, res, list, t : /\ l1 = TreeL(m) /\ r1 = TreeR(m) /\ res = merged[m]
                                    /\ list = pentagons[m] /\ t = res.tree
    OBVIOUS
  <2>3. Grown(l1) /\ Grown(r1)
    BY <1>2, <2>2, MergedTrees DEF Source
  <2>4. WalkThrows(t, l1, r1)
    BY <1>1, <2>2
  <2>5. \E p : OutOfStep(l1, r1, p)
    BY <2>1, <2>2, <2>3, <2>4, WalkThrowsIs
  <2>6. TreeL(m)' = l1 /\ TreeR(m)' = r1
    BY <1>3, <2>2 DEF TreeL, TreeR
  <2>7. thread'[m] = "finished" /\ ~window'[m].open
    BY <1>1, <1>3
  <2> QED BY <2>5, <2>6, <2>7 DEF Failing
<1>5. ASSUME NEW k \in Mergers, window[k].open PROVE Opened(k)'
  <2>1. Opened(k) /\ window'[k] = window[k]
    BY <1>1, <1>5 DEF WindowInv
  <2>2. HidesBelow(merged[k].tree, window'[k].hidden) /\ window'[k].locs = window[k].locs
    BY <2>1 DEF Opened, Shown
  <2>3. merged'[k] = merged[k] /\ pentagons'[k] = pentagons[k]
    BY <1>3
  <2> QED BY <2>1, <2>2, <2>3, ShowsOn
<1>6. \A k \in Mergers :
        /\ DOMAIN window'[k] = {"open", "locs", "hidden", "analysis"}
        /\ window'[k].open => thread'[k] = "finished" /\ Opened(k)'
        /\ ~window'[k].open => window'[k] = NoWindow
  BY <1>1, <1>3, <1>5 DEF WindowInv
<1>7. DOMAIN window' = Mergers /\ fault' \in BOOLEAN
  BY <1>1 DEF WindowInv, WalkThrows
<1> QED BY <1>4, <1>6, <1>7 DEF WindowInv

\* The window of a merger opens.
LEMMA OpenWindowNext ==
  ASSUME MergeInv, WindowInv, NEW m \in Mergers, OpenWindow(m), ~fault', TreesGrow
  PROVE  WindowInv'
<1>0. fault' = WalkThrows(merged[m].tree, TreeL(m), TreeR(m))
  BY Zenon DEF OpenWindow
<1>0a. ~WalkThrows(merged[m].tree, TreeL(m), TreeR(m)) /\ fault' = FALSE
  BY <1>0 DEF WalkThrows
<1>1. /\ thread[m] = "finished" /\ ~window[m].open /\ UNCHANGED mergerVars
      /\ window' = [window EXCEPT ![m] =
           [NoWindow EXCEPT !.open = TRUE,
                            !.locs = OriginalLocations(merged[m].tree, TreeL(m), TreeR(m))]]
  BY Zenon DEF OpenWindow
<1>2. PICK locs : locs = OriginalLocations(merged[m].tree, TreeL(m), TreeR(m))
  OBVIOUS
<1>3. /\ window'[m] = [NoWindow EXCEPT !.open = TRUE, !.locs = locs]
      /\ \A k \in Mergers : k # m => window'[k] = window[k]
      /\ DOMAIN window' = Mergers
  BY <1>1, <1>2 DEF WindowInv
<1>4. /\ DOMAIN window'[m] = {"open", "locs", "hidden", "analysis"}
      /\ window'[m].open /\ window'[m].locs = locs /\ window'[m].hidden = {}
  BY <1>3 DEF NoWindow
<1>5. UNCHANGED <<trees, thread, merged, pentagons>>
  BY <1>1 DEF mergerVars
<1>6. TreeL(m)' = TreeL(m) /\ TreeR(m)' = TreeR(m)
  BY <1>5 DEF TreeL, TreeR
<1>7. Opened(m)'
  <2>1. PICK l, r : /\ Source(l) /\ Source(r) /\ Later(l, TreeL(m)) /\ Later(r, TreeR(m))
                    /\ Finished(l, r, merged[m], pentagons[m])
    BY <1>1 DEF MergeInv, Work, Kept
  <2>2. PICK l1, r1 : l1 = TreeL(m) /\ r1 = TreeR(m)
    OBVIOUS
  <2>3. Source(l1) /\ Source(r1)
    BY <2>2, MergedTrees
  <2>4. Since(l, l1, l1) /\ Since(r, r1, r1)
    BY <2>1, <2>2, <2>3, LaterSelf DEF Since, Source
  <2>5. Since(l, l1, TreeL(m)') /\ Since(r, r1, TreeR(m)')
    BY <1>6, <2>2, <2>4
  <2>6. window'[m].locs = OriginalLocations(merged'[m].tree, l1, r1)
    BY <1>2, <1>4, <1>5, <2>2
  <2>7. HidesBelow(merged'[m].tree, window'[m].hidden)
    BY <1>4 DEF HidesBelow
  <2>8. Finished(l, r, merged'[m], pentagons'[m])
    BY <1>5, <2>1
  <2>8a. ~WalkThrows(merged'[m].tree, l1, r1)
    BY <1>0a, <1>5, <2>2
  <2>9. Shown(m, l, r, l1, r1)'
    BY <2>1, <2>5, <2>6, <2>7, <2>8, <2>8a DEF Shown
  <2> QED BY <2>9 DEF Opened
<1>8. ASSUME NEW k \in Mergers, k # m, window[k].open PROVE Opened(k)'
  <2>1. Opened(k) /\ window'[k] = window[k]
    BY <1>3, <1>8 DEF WindowInv
  <2>2. HidesBelow(merged[k].tree, window'[k].hidden) /\ window'[k].locs = window[k].locs
    BY <2>1 DEF Opened, Shown
  <2>3. merged'[k] = merged[k] /\ pentagons'[k] = pentagons[k]
    BY <1>5
  <2> QED BY <2>1, <2>2, <2>3, ShowsOn
<1>9. ASSUME NEW k \in Mergers
      PROVE  /\ DOMAIN window'[k] = {"open", "locs", "hidden", "analysis"}
             /\ window'[k].open => thread'[k] = "finished" /\ Opened(k)'
             /\ ~window'[k].open => window'[k] = NoWindow
  <2>1. CASE k = m
    BY <1>1, <1>4, <1>5, <1>7, <2>1
  <2>2. CASE k # m
    <3>1. window'[k] = window[k]
      BY <1>3, <2>2
    <3> QED BY <1>5, <1>8, <2>2, <3>1 DEF WindowInv
  <2> QED BY <2>1, <2>2
<1> QED BY <1>0a, <1>3, <1>9 DEF WindowInv

\* What an open window shows changes, but not where its nodes come from.
LEMMA WindowChanges ==
  ASSUME MergeInv, WindowInv, NEW m \in Mergers, TreesGrow, window[m].open,
         ~fault, UNCHANGED <<mergerVars, fault>>, NEW w, window' = [window EXCEPT ![m] = w],
         DOMAIN w = {"open", "locs", "hidden", "analysis"}, w.open, w.locs = window[m].locs,
         HidesBelow(merged[m].tree, w.hidden)
  PROVE  WindowInv'
<1>1. /\ window'[m] = w /\ \A k \in Mergers : k # m => window'[k] = window[k]
      /\ DOMAIN window' = Mergers
  BY DEF WindowInv
<1>2. UNCHANGED <<trees, thread, merged, pentagons>>
  BY DEF mergerVars
<1>3. ASSUME NEW k \in Mergers, window[k].open
      PROVE  window'[k].open /\ thread'[k] = "finished" /\ Opened(k)'
  <2>1. Opened(k) /\ thread[k] = "finished"
    BY <1>3 DEF WindowInv
  <2>2. HidesBelow(merged[k].tree, window[k].hidden)
    BY <2>1 DEF Opened, Shown
  <2>3. /\ HidesBelow(merged[k].tree, window'[k].hidden)
        /\ window'[k].locs = window[k].locs /\ window'[k].open
    <3>1. CASE k = m
      BY <1>1, <3>1
    <3>2. CASE k # m
      BY <1>1, <1>3, <2>2, <3>2
    <3> QED BY <3>1, <3>2
  <2>4. merged'[k] = merged[k] /\ pentagons'[k] = pentagons[k]
    BY <1>2
  <2>5. Opened(k)'
    BY <2>1, <2>3, <2>4, ShowsOn
  <2> QED BY <1>2, <2>1, <2>3, <2>5
<1>4. ASSUME NEW k \in Mergers
      PROVE  /\ DOMAIN window'[k] = {"open", "locs", "hidden", "analysis"}
             /\ window'[k].open => thread'[k] = "finished" /\ Opened(k)'
             /\ ~window'[k].open => window'[k] = NoWindow
  <2>1. CASE k = m
    BY <1>1, <1>3, <2>1
  <2>2. CASE k # m
    <3>1. window'[k] = window[k]
      BY <1>1, <2>2
    <3> QED BY <1>3, <3>1 DEF WindowInv
  <2> QED BY <2>1, <2>2
<1>5. fault' \in BOOLEAN /\ ~fault'
  BY DEF WindowInv
<1> QED BY <1>1, <1>4, <1>5 DEF WindowInv

LEMMA HideFailedNext ==
  ASSUME MergeInv, WindowInv, NEW m \in Mergers, TreesGrow,
         NEW cur \in NodesOf(merged[m].tree), HideFailed(m, cur)
  PROVE  WindowInv'
<1>1. PICK H : H = window[m].hidden \cup ToHide(merged[m].tree, PentagonsOf(m), window[m].hidden, cur)
  OBVIOUS
<1>2. /\ window[m].open /\ ~fault /\ UNCHANGED <<mergerVars, fault>>
      /\ window' = [window EXCEPT ![m] = [window[m] EXCEPT !.hidden = H]]
  BY <1>1 DEF HideFailed
<1>3. Opened(m) /\ DOMAIN window[m] = {"open", "locs", "hidden", "analysis"}
  BY <1>2 DEF WindowInv
<1>4. PICK w : w = [window[m] EXCEPT !.hidden = H]
  OBVIOUS
<1>5. /\ DOMAIN w = {"open", "locs", "hidden", "analysis"} /\ w.open
      /\ w.locs = window[m].locs /\ w.hidden = H
  BY <1>2, <1>3, <1>4
<1>6. HidesBelow(merged[m].tree, H)
  <2>1. PICK l, r, l1, r1 : Shown(m, l, r, l1, r1)
    BY <1>3 DEF Opened
  <2>2. PICK res, list, t, pens :
          res = merged[m] /\ list = pentagons[m] /\ t = res.tree /\ pens = PentagonsOf(m)
    OBVIOUS
  <2>3. Source(l) /\ Source(r) /\ Finished(l, r, res, list) /\ HidesBelow(t, window[m].hidden)
    BY <2>1, <2>2 DEF Shown
  <2>4. /\ Grown(t)
        /\ \A i \in DOMAIN list : list[i].pen \in NodesOf(t) /\ t.status[list[i].pen] = "MERGED"
    BY <2>2, <2>3, PentagonNodes
  <2>5. \A p \in pens : p \in NodesOf(t) /\ t.status[p] = "MERGED"
    BY <2>2, <2>4 DEF PentagonsOf
  <2>6. PICK hidden : hidden = window[m].hidden
    OBVIOUS
  <2>7. \A n \in ToHide(t, pens, hidden, cur) : n \in NodesOf(t) /\ UnderAPentagon(t, n)
    BY <2>2, <2>4, <2>5, HiddenUnder
  <2> QED BY <1>1, <2>2, <2>3, <2>6, <2>7 DEF HidesBelow
<1> QED BY <1>2, <1>4, <1>5, <1>6, WindowChanges

LEMMA NogoodsNext ==
  ASSUME MergeInv, WindowInv, NEW m \in Mergers, TreesGrow, RunNogoodAnalysis(m)
  PROVE  WindowInv'
<1>1. PICK A : A = Analysis(m)
  OBVIOUS
<1>2. /\ window[m].open /\ ~fault /\ UNCHANGED <<mergerVars, fault>>
      /\ window' = [window EXCEPT ![m] = [window[m] EXCEPT !.analysis = A]]
  BY <1>1 DEF RunNogoodAnalysis
<1>3. Opened(m) /\ DOMAIN window[m] = {"open", "locs", "hidden", "analysis"}
  BY <1>2 DEF WindowInv
<1>4. PICK w : w = [window[m] EXCEPT !.analysis = A]
  OBVIOUS
<1>5. /\ DOMAIN w = {"open", "locs", "hidden", "analysis"} /\ w.open
      /\ w.locs = window[m].locs /\ w.hidden = window[m].hidden
  BY <1>2, <1>3, <1>4
<1>6. HidesBelow(merged[m].tree, w.hidden)
  BY <1>3, <1>5 DEF Opened, Shown
<1> QED BY <1>2, <1>4, <1>5, <1>6, WindowChanges

LEMMA WindowInvNext ==
  ASSUME MergeInv, WindowInv, [Next]_vars
  PROVE  WindowInv'
<1>1. TreesGrow
  BY TreesGrowNext
<1>2. CASE MergerNext /\ ~fault /\ UNCHANGED windowVars
  BY <1>1, <1>2, MergersStep
<1>3. ASSUME NEW m \in Watched,
             \/ OpenWindow(m) \/ RunNogoodAnalysis(m)
             \/ \E cur \in NodesOf(merged[m].tree) : HideFailed(m, cur)
      PROVE  WindowInv'
  <2>1. m \in Mergers
    BY WatchedAssumption
  <2>2. CASE OpenWindow(m) /\ fault'
    BY <1>1, <2>2, OpenWindowThrows
  <2>3. CASE OpenWindow(m) /\ ~fault'
    BY <1>1, <2>1, <2>3, OpenWindowNext
  <2> QED BY <1>1, <1>3, <2>1, <2>2, <2>3, NogoodsNext, HideFailedNext
<1>4. CASE UNCHANGED vars
  <2>1. UNCHANGED <<trees, thread, merged, pentagons, window, fault>>
    BY <1>4 DEF vars, mergerVars, windowVars
  <2>2. ASSUME NEW k \in Mergers, Opened(k) PROVE Opened(k)'
    <3>1. HidesBelow(merged[k].tree, window'[k].hidden)
      BY <2>1, <2>2 DEF Opened, Shown
    <3> QED BY <1>1, <2>1, <2>2, <3>1, ShowsOn
  <2>3. ASSUME NEW k \in Watched, Failing(k) PROVE Failing(k)'
    BY <2>1, <2>3 DEF Failing, TreeL, TreeR
  <2> QED BY <2>1, <2>2, <2>3 DEF WindowInv
<1> QED BY <1>2, <1>3, <1>4 DEF Next

\* Whatever happens to the trees, an open window belongs to a merger that has
\* finished, and shows where its nodes were in the two trees.
THEOREM WindowInvHolds == Spec => []WindowInv
<1>1. Init => WindowInv
  BY WindowInvInit
<1>2. MergeInv /\ WindowInv /\ [Next]_vars => WindowInv'
  BY WindowInvNext
<1> QED BY <1>1, <1>2, MergeInvHolds, PTL DEF Spec

\* Whatever the user hides, and from wherever, no pentagon is hidden or below a
\* hidden node (merge_window.cpp:415).
THEOREM PentagonsVisible == Spec => []PentagonsStayVisible
<1>1. ASSUME WindowInv PROVE PentagonsStayVisible
  <2>1. SUFFICES ASSUME NEW m \in Mergers, NEW p \in PentagonsOf(m),
                        NEW a \in AncestorsIn(merged[m].tree, p), a \in window[m].hidden
                 PROVE  FALSE
    BY DEF PentagonsStayVisible
  <2>2. window[m].open
    BY <1>1, <2>1 DEF WindowInv, NoWindow
  <2>3. PICK l, r, l1, r1 : Shown(m, l, r, l1, r1)
    BY <1>1, <2>2 DEF WindowInv, Opened
  <2>4. PICK res, list, t : res = merged[m] /\ list = pentagons[m] /\ t = res.tree
    OBVIOUS
  <2>5. PICK i \in DOMAIN list : p = list[i].pen
    BY <2>4 DEF PentagonsOf
  <2>6. UnderAPentagon(t, a) /\ Source(l) /\ Source(r) /\ Finished(l, r, res, list)
    BY <2>1, <2>3, <2>4 DEF Shown, HidesBelow
  <2>7. a \in AncestorsIn(t, list[i].pen)
    BY <2>1, <2>4, <2>5
  <2> QED BY <2>4, <2>6, <2>7, PentagonsSeen
<1> QED BY <1>1, WindowInvHolds, PTL

LEMMA MergerTypes ==
  ASSUME MergeInv
  PROVE  MergerTypeOK
<1>1. ASSUME NEW e \in Executions, NEW n \in NodesOf(trees[e]) \ {Root}
      PROVE  Front(trees[e].place[n]) \in Places(trees[e])
  <2>1. PICK t : t = trees[e]
    OBVIOUS
  <2>2. Grown(t) /\ n \in NodesOf(t) /\ n # Root
    BY <1>1, <2>1 DEF MergeInv, Source
  <2>3. PICK k, a : k = ParentIn(t, n) /\ a = AlternativeIn(t, n)
    OBVIOUS
  <2>4. k \in NodesOf(t) /\ a \in Alternatives /\ t.place[n] = Append(t.place[k], a)
    BY <2>2, <2>3, ParentIs
  <2>5. PICK q : q = t.place[k]
    OBVIOUS
  <2>6. q \in PlaceSet /\ q \in Places(t)
    BY <2>2, <2>4, <2>5, NodesAndPlaces
  <2>7. Front(Append(q, a)) = q
    BY <2>4, <2>6, AppendIs
  <2> QED BY <2>1, <2>4, <2>5, <2>6, <2>7
<1>2. ASSUME NEW e \in Executions, mutex[e] # Free
      PROVE  LeftOf[mutex[e]] = e \/ RightOf[mutex[e]] = e
  BY <1>2 DEF MergeInv, Locks
<1>3. ASSUME NEW m \in Mergers
      PROVE  thread[m] \in {"started", "hasLeft", "merging", "finished"}
  BY DEF MergeInv, Locks
<1>4. ASSUME NEW m \in Mergers, NEW i \in DOMAIN stack[m]
      PROVE  /\ stack[m][i][1] \in NodesOf(TreeL(m)) \cup {NoNode}
             /\ stack[m][i][2] \in NodesOf(TreeR(m)) \cup {NoNode}
             /\ stack[m][i][3] \in NodesOf(merged[m].tree)
  <2>1. Work(m)
    BY DEF MergeInv
  <2>2. thread[m] = "merging"
    <3>1. stack[m] # <<>>
      BY <1>4
    <3> QED BY <2>1, <3>1 DEF Work
  <2>3. PICK l, r, t, s : l = TreeL(m) /\ r = TreeR(m) /\ t = merged[m].tree /\ s = stack[m]
    OBVIOUS
  <2>4. Grown(l) /\ Grown(r) /\ StackFits(l, r, t, s)
    <3>1. Source(l) /\ Source(r)
      BY <2>3, MergedTrees
    <3>2. Overlay(l, r, merged[m], s, pentagons[m])
      BY <2>1, <2>2, <2>3 DEF Work
    <3> QED BY <2>3, <3>1, <3>2 DEF Source, Overlay
  <2>5. PICK h, p : h = s[i] /\ p = t.place[h[3]]
    OBVIOUS
  <2>6. h[3] \in NodesOf(t) /\ h[1] = NodeAt(l, p) /\ h[2] = NodeAt(r, p)
    BY <1>4, <2>3, <2>4, <2>5 DEF StackFits
  <2>7. NodeAt(l, p) \in NodesOf(l) \cup {NoNode} /\ NodeAt(r, p) \in NodesOf(r) \cup {NoNode}
    BY <2>4, NodeAtIs
  <2> QED BY <2>3, <2>5, <2>6, <2>7
<1> QED BY <1>1, <1>2, <1>3, <1>4 DEF MergerTypeOK

LEMMA WindowTypes ==
  ASSUME WindowInv, NEW m \in Mergers
  PROVE  /\ window[m].open => thread[m] = "finished"
         /\ window[m].hidden \subseteq NodesOf(merged[m].tree)
<1>1. CASE window[m].open
  <2>1. thread[m] = "finished" /\ Opened(m)
    BY <1>1 DEF WindowInv
  <2>2. HidesBelow(merged[m].tree, window[m].hidden)
    BY <2>1 DEF Opened, Shown
  <2> QED BY <2>1, <2>2 DEF HidesBelow
<1>2. CASE ~window[m].open
  <2>1. window[m].hidden = {}
    BY <1>2 DEF WindowInv, NoWindow
  <2> QED BY <1>2, <2>1
<1> QED BY <1>1, <1>2

\* The program ends in front of a window only where one of two equal branches has
\* no children yet, and otherwise the walk that opened it went through the trees in
\* step (merge_window.cpp:230-237).
LEMMA OpensRight ==
  ASSUME MergeInv, WindowInv
  PROVE  OpensInStep
<1>1. ASSUME fault
      PROVE  \E m \in Watched :
               /\ thread[m] = "finished" /\ ~window[m].open
               /\ \E p \in Agreed(TreeL(m), TreeR(m)) : Barren(TreeL(m), TreeR(m), p)
  BY <1>1 DEF WindowInv, Failing, OutOfStep
<1>2. ASSUME NEW m \in Mergers, window[m].open, NEW n \in WalksOn(merged[m].tree)
      PROVE  InStep(TreeL(m), TreeR(m), merged[m].tree.place[n])
  <2>1. PICK l, r, l1, r1 : Shown(m, l, r, l1, r1)
    BY <1>2 DEF WindowInv, Opened
  <2>2. PICK res, list, t, l2, r2 : /\ res = merged[m] /\ list = pentagons[m] /\ t = res.tree
                                    /\ l2 = TreeL(m) /\ r2 = TreeR(m)
    OBVIOUS
  <2>3. /\ Source(l) /\ Source(r) /\ Finished(l, r, res, list)
        /\ Since(l, l1, l2) /\ Since(r, r1, r2) /\ ~WalkThrows(t, l1, r1)
    BY <2>1, <2>2 DEF Shown
  <2>4. n \in WalksOn(t)
    BY <1>2, <2>2
  <2>5. InStep(l2, r2, t.place[n])
    BY <2>2, <2>3, <2>4, WalkedInStep
  <2> QED BY <2>2, <2>5
<1> QED BY <1>1, <1>2 DEF OpensInStep, InStep

\* A window opens unless one of two branches that were merged as equal has no
\* children: the walk throws there, and nowhere else.  In an open window an
\* explored node above the pentagons, and each of the two below one, is linked to
\* the node it stands for, also when the trees have grown since the merger let go
\* of them (merge_window.cpp:162-239, node.cpp:126-151).
THEOREM LocationsRight == Spec => []LocationsSound
<1>1. ASSUME MergeInv, WindowInv PROVE LocationsSound
  <2>1. TypeOK
    <3>1. fault \in BOOLEAN
      BY <1>1 DEF WindowInv
    <3> QED BY <1>1, <3>1, MergerTypes, WindowTypes DEF TypeOK
  <2>2. ASSUME NEW m \in Mergers, window[m].open
        PROVE  LocationsOf(merged[m].tree, TreeL(m), TreeR(m), window[m].locs)
    <3>1. PICK l, r, l1, r1 : Shown(m, l, r, l1, r1)
      BY <1>1, <2>2 DEF WindowInv, Opened
    <3>2. PICK res, list, t, l2, r2 : /\ res = merged[m] /\ list = pentagons[m] /\ t = res.tree
                                      /\ l2 = TreeL(m) /\ r2 = TreeR(m)
      OBVIOUS
    <3>3. /\ Source(l) /\ Source(r) /\ Finished(l, r, res, list)
          /\ Since(l, l1, l2) /\ Since(r, r1, r2)
          /\ window[m].locs = OriginalLocations(t, l1, r1)
      BY <3>1, <3>2 DEF Shown
    <3>4. LocationsOf(t, l2, r2, OriginalLocations(t, l1, r1))
      BY <3>2, <3>3, LocationsAre
    <3> QED BY <3>2, <3>3, <3>4
  <2>3. \A m \in Mergers : \A n : Origin(m, n) = OriginIn(merged[m].tree, TreeL(m), TreeR(m), n)
    BY DEF Origin, OriginIn
  <2>4. LocationsExact
    <3>1. ASSUME NEW m \in Mergers, window[m].open, NEW n \in NodesOf(merged[m].tree),
                 merged[m].tree.status[n] \notin {"MERGED", "UNDETERMINED"},
                 \/ ~UnderAPentagon(merged[m].tree, n)
                 \/ merged[m].tree.status[ParentIn(merged[m].tree, n)] = "MERGED"
          PROVE  window[m].locs[n] = Origin(m, n)
      BY <2>2, <2>3, <3>1 DEF LocationsOf
    <3> QED BY <3>1 DEF LocationsExact
  <2>5. OpensInStep
    BY <1>1, OpensRight
  <2> QED BY <2>1, <2>4, <2>5 DEF LocationsSound
<1> QED BY <1>1, MergeInvHolds, WindowInvHolds, PTL

=============================================================================
