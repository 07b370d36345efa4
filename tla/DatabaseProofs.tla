---------------------------- MODULE DatabaseProofs ----------------------------
(***************************************************************************)
(* Building, saving and loading, for trees of every size: the tree stays   *)
(* what tree::Structure promises, no node is saved twice, and a load fails *)
(* exactly when there are gaps in what was saved; what is loaded is what   *)
(* was saved, and the search log replays the tree.                         *)
(*                                                                         *)
(* First the packed nodes and the lists of children they stand for, alone; *)
(* then what pre_order lists, in terms of any tree whose nodes come after  *)
(* their parents; then the invariant of saving and loading, and of the log *)
(* as what is left of a pre-order; last the copy as a tree of its own that *)
(* grows by one leaf after the other.                                      *)
(***************************************************************************)
EXTENDS Database, Induction

-----------------------------------------------------------------------------
(* One node *)

NodeData == [parent : Int, tag : 0 .. 3, first : Int, count : Int, array : Seq(Int)]

\* What a node can be: with three children or more it has an array of as many places.
Packed(d) ==
  /\ d \in NodeData
  /\ d.tag = 3 => d.count = Len(d.array) /\ d.count >= 3

LEMMA FieldTypes ==
  ASSUME NEW d \in NodeData
  PROVE  d.parent \in Int /\ d.tag \in 0 .. 3 /\ d.first \in Int /\ d.count \in Int /\ d.array \in Seq(Int)
BY DEF NodeData

LEMMA TagChanged ==
  ASSUME NEW d \in NodeData, NEW t \in 0 .. 3, NEW e, e = [d EXCEPT !.tag = t]
  PROVE  /\ e \in NodeData
         /\ e.tag = t /\ e.parent = d.parent /\ e.first = d.first /\ e.count = d.count /\ e.array = d.array
<1>1. e \in NodeData
  BY SMT DEF NodeData
<1>2. e.tag = t /\ e.parent = d.parent /\ e.first = d.first /\ e.count = d.count /\ e.array = d.array
  BY SMT DEF NodeData
<1> QED BY <1>1, <1>2

LEMMA FirstChanged ==
  ASSUME NEW d \in NodeData, NEW f \in Int, NEW e, e = [d EXCEPT !.first = f]
  PROVE  /\ e \in NodeData
         /\ e.first = f /\ e.parent = d.parent /\ e.tag = d.tag /\ e.count = d.count /\ e.array = d.array
<1>1. e \in NodeData
  BY SMT DEF NodeData
<1>2. e.first = f /\ e.parent = d.parent /\ e.tag = d.tag /\ e.count = d.count /\ e.array = d.array
  BY SMT DEF NodeData
<1> QED BY <1>1, <1>2

LEMMA CountChanged ==
  ASSUME NEW d \in NodeData, NEW c \in Int, NEW e, e = [d EXCEPT !.count = c]
  PROVE  /\ e \in NodeData
         /\ e.count = c /\ e.parent = d.parent /\ e.tag = d.tag /\ e.first = d.first /\ e.array = d.array
<1>1. e \in NodeData
  BY SMT DEF NodeData
<1>2. e.count = c /\ e.parent = d.parent /\ e.tag = d.tag /\ e.first = d.first /\ e.array = d.array
  BY SMT DEF NodeData
<1> QED BY <1>1, <1>2

LEMMA ArrayChanged ==
  ASSUME NEW d \in NodeData, NEW k \in Seq(Int), NEW e, e = [d EXCEPT !.array = k]
  PROVE  /\ e \in NodeData
         /\ e.array = k /\ e.parent = d.parent /\ e.tag = d.tag /\ e.first = d.first /\ e.count = d.count
<1>1. e \in NodeData
  BY Zenon DEF NodeData
<1>2. e.array = k /\ e.parent = d.parent /\ e.tag = d.tag /\ e.first = d.first /\ e.count = d.count
  BY SMT DEF NodeData
<1> QED BY <1>1, <1>2

LEMMA CountOfPacked ==
  ASSUME NEW d, Packed(d)
  PROVE  /\ ChildrenCount(d) \in Nat
         /\ d.tag = 3 => ChildrenCount(d) = Len(d.array)
         /\ d.tag # 3 => ChildrenCount(d) = d.tag
         /\ \A a \in 0 .. ChildrenCount(d) - 1 : GetChild(d, a) \in Int
<1>1. CASE d.tag = 3
  <2>1. ChildrenCount(d) = Len(d.array) /\ d.array \in Seq(Int) /\ Len(d.array) \in Nat
    BY <1>1, LenProperties, FieldTypes DEF Packed, ChildrenCount, Tag
  <2>2. ASSUME NEW a \in 0 .. Len(d.array) - 1 PROVE GetChild(d, a) \in Int
    <3>1. a + 1 \in 1 .. Len(d.array) /\ GetChild(d, a) = d.array[a + 1]
      BY <1>1, <2>1 DEF GetChild, Tag
    <3> QED BY <2>1, <3>1, ElementOfSeq
  <2> QED BY <1>1, <2>1, <2>2
<1>2. CASE d.tag # 3
  <2>1. ChildrenCount(d) = d.tag /\ d.tag \in 0 .. 2
    BY <1>2, FieldTypes DEF Packed, ChildrenCount, Tag
  <2>2. \A a : GetChild(d, a) = IF a = 0 THEN d.first ELSE -d.count
    BY <1>2 DEF GetChild, Tag
  <2>3. d.first \in Int /\ -d.count \in Int
    BY FieldTypes DEF Packed
  <2> QED BY <1>2, <2>1, <2>2, <2>3
<1> QED BY <1>1, <1>2

LEMMA SetNumberPacked ==
  ASSUME NEW d, Packed(d), ChildrenCount(d) = 0, NEW n \in Nat
  PROVE  /\ Packed(SetNumberOfChildren(d, n))
         /\ ChildrenCount(SetNumberOfChildren(d, n)) = n
         /\ SetNumberOfChildren(d, n).parent = d.parent
<1> DEFINE e == SetNumberOfChildren(d, n)
           places == [i \in 1 .. n |-> Garbage]
<1>1. d \in NodeData
  BY DEF Packed
<1>2. CASE n <= 2
  <2>1. e = [d EXCEPT !.tag = n] /\ n \in 0 .. 3 /\ n # 3
    BY <1>2 DEF SetNumberOfChildren
  <2> HIDE DEF e
  <2>2. e \in NodeData /\ e.tag = n /\ e.parent = d.parent
    BY <1>1, <2>1, TagChanged
  <2> QED BY <2>1, <2>2 DEF Packed, ChildrenCount, Tag, e
<1>3. CASE n > 2
  <2>1. e = [d EXCEPT !.tag = 3, !.count = n, !.array = places]
    BY <1>3 DEF SetNumberOfChildren, Tag
  <2>2. places \in Seq(Int) /\ Len(places) = n
    BY DEF Garbage
  <2> HIDE DEF places, e
  <2>3. /\ e \in NodeData
        /\ e.tag = 3 /\ e.count = n /\ e.array = places /\ e.parent = d.parent
    <3>1. n \in Int /\ 3 \in 0 .. 3
      OBVIOUS
    <3>2. e \in NodeData
      BY <1>1, <2>1, <2>2, <3>1, Zenon DEF NodeData
    <3> QED BY <1>1, <2>1, <2>2, <3>1, <3>2, SMT DEF NodeData
  <2> QED BY <1>3, <2>2, <2>3 DEF Packed, ChildrenCount, Tag, e
<1> QED BY <1>2, <1>3

LEMMA NewNodePacked ==
  ASSUME NEW pid \in Int, NEW n \in Nat
  PROVE  /\ Packed(NewNode(pid, n)) /\ ChildrenCount(NewNode(pid, n)) = n
         /\ NewNode(pid, n).parent = pid
<1> DEFINE d == [parent |-> pid, tag |-> Tag.leaf, first |-> Garbage,
                 count |-> -Garbage, array |-> <<>>]
<1>1. Packed(d) /\ ChildrenCount(d) = 0 /\ d.parent = pid
  <2>1. <<>> \in Seq(Int)
    BY EmptySeq
  <2> QED BY <2>1 DEF Packed, NodeData, ChildrenCount, Tag, Garbage
<1>2. NewNode(pid, n) = SetNumberOfChildren(d, n)
  BY DEF NewNode
<1> HIDE DEF d
<1> QED BY <1>1, <1>2, SetNumberPacked

\* A child goes to its place and nowhere else.
LEMMA SetChildPacked ==
  ASSUME NEW d, Packed(d), NEW nid \in Int, NEW alt \in 0 .. ChildrenCount(d) - 1
  PROVE  /\ Packed(SetChild(d, nid, alt))
         /\ ChildrenCount(SetChild(d, nid, alt)) = ChildrenCount(d)
         /\ SetChild(d, nid, alt).parent = d.parent
         /\ \A a \in 0 .. ChildrenCount(d) - 1 :
              GetChild(SetChild(d, nid, alt), a) = IF a = alt THEN nid ELSE GetChild(d, a)
<1> DEFINE e == SetChild(d, nid, alt)
<1>1. /\ d \in NodeData
      /\ d.tag = 3 => d.count = Len(d.array) /\ d.count >= 3
  BY DEF Packed
<1>2. CASE d.tag = 3
  <2> DEFINE kids == [d.array EXCEPT ![alt + 1] = nid]
  <2>1. e = [d EXCEPT !.array = kids]
    BY <1>2 DEF SetChild, Tag
  <2>2. /\ kids \in Seq(Int) /\ Len(kids) = Len(d.array) /\ Len(d.array) \in Nat
        /\ \A a \in 1 .. Len(d.array) : kids[a] = IF a = alt + 1 THEN nid ELSE d.array[a]
    <3>1. d.array \in Seq(Int) /\ alt + 1 \in 1 .. Len(d.array)
      <4>1. ChildrenCount(d) = Len(d.array) /\ d.array \in Seq(Int)
        BY <1>1, <1>2, FieldTypes DEF ChildrenCount, Tag
      <4>2. Len(d.array) \in Nat
        BY <4>1, LenProperties
      <4> QED BY <4>1, <4>2
    <3>2. kids \in Seq(Int) /\ Len(kids) = Len(d.array) /\ Len(d.array) \in Nat
      BY <3>1, ExceptSeq, LenProperties
    <3>3. DOMAIN d.array = 1 .. Len(d.array)
      BY <3>1, LenProperties
    <3> QED BY <3>2, <3>3
  <2> HIDE DEF kids, e
  <2>3. /\ e \in NodeData
        /\ e.tag = 3 /\ e.count = d.count /\ e.array = kids /\ e.parent = d.parent
    BY <1>1, <1>2, <2>1, <2>2, ArrayChanged
  <2>4. ASSUME NEW a \in 0 .. ChildrenCount(d) - 1
        PROVE  GetChild(e, a) = IF a = alt THEN nid ELSE GetChild(d, a)
    <3>1. a + 1 \in 1 .. Len(d.array) /\ (a + 1 = alt + 1 <=> a = alt)
      <4>1. ChildrenCount(d) = Len(d.array)
        BY <1>1, <1>2, FieldTypes DEF ChildrenCount, Tag
      <4>2. a \in Int /\ alt \in Int /\ a >= 0 /\ a <= Len(d.array) - 1 /\ Len(d.array) \in Nat
        BY <1>1, <2>2, <4>1
      <4> QED BY <4>2
    <3>2. GetChild(e, a) = kids[a + 1] /\ GetChild(d, a) = d.array[a + 1]
      BY <1>2, <2>3 DEF GetChild, Tag
    <3> QED BY <2>2, <3>1, <3>2
  <2> QED BY <1>1, <1>2, <2>2, <2>3, <2>4 DEF Packed, ChildrenCount, Tag, e
<1>3. CASE d.tag # 3
  <2>1. ChildrenCount(d) = d.tag /\ d.tag \in 0 .. 2
    BY <1>1, <1>3, FieldTypes DEF ChildrenCount, Tag
  <2>2. e = IF alt = 0 THEN [d EXCEPT !.first = nid] ELSE [d EXCEPT !.count = -nid]
    BY <1>3 DEF SetChild, Tag
  <2> HIDE DEF e
  <2>3. /\ e \in NodeData
        /\ e.tag = d.tag /\ e.parent = d.parent
        /\ e.first = IF alt = 0 THEN nid ELSE d.first
        /\ e.count = IF alt = 0 THEN d.count ELSE -nid
    <3>1. CASE alt = 0
      BY <1>1, <2>2, <3>1, FirstChanged
    <3>2. CASE alt # 0
      <4>1. -nid \in Int
        OBVIOUS
      <4> QED BY <1>1, <2>2, <3>2, <4>1, CountChanged
    <3> QED BY <3>1, <3>2
  <2>4. \A a : /\ GetChild(d, a) = IF a = 0 THEN d.first ELSE -d.count
               /\ GetChild(e, a) = IF a = 0 THEN e.first ELSE -e.count
    BY <1>3, <2>3 DEF GetChild, Tag
  <2>5. ASSUME NEW a \in 0 .. ChildrenCount(d) - 1
        PROVE  GetChild(e, a) = IF a = alt THEN nid ELSE GetChild(d, a)
    <3>1. a \in 0 .. 1 /\ alt \in 0 .. 1
      BY <2>1
    <3>2. -(-nid) = nid
      OBVIOUS
    <3> QED BY <2>3, <2>4, <3>1, <3>2
  <2>6. Packed(e) /\ ChildrenCount(e) = ChildrenCount(d) /\ e.parent = d.parent
    BY <1>3, <2>1, <2>3 DEF Packed, ChildrenCount, Tag
  <2> QED BY <2>5, <2>6 DEF e
<1> QED BY <1>2, <1>3

\* One more place leaves the children where they are.
LEMMA AddChildPacked ==
  ASSUME NEW d, Packed(d)
  PROVE  /\ Packed(AddChild(d)) /\ ChildrenCount(AddChild(d)) = ChildrenCount(d) + 1
         /\ AddChild(d).parent = d.parent
         /\ \A a \in 0 .. ChildrenCount(d) - 1 : GetChild(AddChild(d), a) = GetChild(d, a)
<1> DEFINE e == AddChild(d)
<1>1. /\ d \in NodeData
      /\ d.tag = 3 => d.count = Len(d.array) /\ d.count >= 3
  BY DEF Packed
<1>2. CASE d.tag = 3
  <2> DEFINE kids == Append(d.array, Garbage)
  <2>1. e = [d EXCEPT !.count = d.count + 1, !.array = kids]
    BY <1>2 DEF AddChild, Tag
  <2>2. /\ kids \in Seq(Int) /\ Len(kids) = Len(d.array) + 1 /\ Len(d.array) \in Nat
        /\ \A a \in 1 .. Len(d.array) : kids[a] = d.array[a]
    <3>1. Garbage \in Int
      BY DEF Garbage
    <3>2. d.array \in Seq(Int)
      BY <1>1, FieldTypes
    <3> QED BY <3>1, <3>2, AppendProperties, LenProperties
  <2> HIDE DEF kids, e
  <2>3. /\ e \in NodeData
        /\ e.tag = 3 /\ e.count = d.count + 1 /\ e.array = kids /\ e.parent = d.parent
    <3>1. d.count + 1 \in Int
      BY <1>1, FieldTypes
    <3>2. e \in NodeData
      BY <1>1, <1>2, <2>1, <2>2, <3>1, Zenon DEF NodeData
    <3> QED BY <1>1, <1>2, <2>1, <2>2, <3>1, <3>2, SMT DEF NodeData
  <2>4. ASSUME NEW a \in 0 .. ChildrenCount(d) - 1
        PROVE  GetChild(e, a) = GetChild(d, a)
    <3>1. a + 1 \in 1 .. Len(d.array)
      BY <1>1, <1>2, <2>2 DEF ChildrenCount, Tag
    <3>2. GetChild(e, a) = kids[a + 1] /\ GetChild(d, a) = d.array[a + 1]
      BY <1>2, <2>3 DEF GetChild, Tag
    <3> QED BY <2>2, <3>1, <3>2
  <2> QED BY <1>1, <1>2, <2>2, <2>3, <2>4 DEF Packed, ChildrenCount, Tag, e
<1>3. CASE d.tag = 2
  <2> DEFINE kids == <<GetChild(d, 0), GetChild(d, 1), Garbage>>
  <2>1. e = [d EXCEPT !.tag = 3, !.count = 3, !.array = kids]
    BY <1>3 DEF AddChild, Tag
  <2>2. GetChild(d, 0) \in Int /\ GetChild(d, 1) \in Int /\ Garbage \in Int
    <3>1. GetChild(d, 0) = d.first /\ GetChild(d, 1) = -d.count
      BY <1>3 DEF GetChild, Tag
    <3>2. d.first \in Int /\ d.count \in Int
      BY <1>1, FieldTypes
    <3> QED BY <3>1, <3>2 DEF Garbage
  <2>3. /\ kids \in Seq(Int) /\ Len(kids) = 3
        /\ kids[1] = GetChild(d, 0) /\ kids[2] = GetChild(d, 1)
    BY <2>2
  <2> HIDE DEF kids, e
  <2>4. /\ e \in NodeData
        /\ e.tag = 3 /\ e.count = 3 /\ e.array = kids /\ e.parent = d.parent
    <3>1. 3 \in 0 .. 3 /\ 3 \in Int
      OBVIOUS
    <3>2. e \in NodeData
      BY <1>1, <2>1, <2>3, <3>1, Zenon DEF NodeData
    <3> QED BY <1>1, <2>1, <2>3, <3>1, <3>2, SMT DEF NodeData
  <2>5. GetChild(e, 0) = GetChild(d, 0) /\ GetChild(e, 1) = GetChild(d, 1)
    <3>1. GetChild(e, 0) = kids[0 + 1] /\ GetChild(e, 1) = kids[1 + 1]
      BY <2>4 DEF GetChild, Tag
    <3> QED BY <2>3, <3>1
  <2>6. Packed(e) /\ ChildrenCount(e) = 3 /\ ChildrenCount(d) = 2
    BY <1>3, <2>3, <2>4 DEF Packed, ChildrenCount, Tag
  <2>7. \A a \in 0 .. ChildrenCount(d) - 1 : a = 0 \/ a = 1
    BY <2>6
  <2> QED BY <2>4, <2>5, <2>6, <2>7 DEF e
<1>4. CASE d.tag # 3 /\ d.tag # 2
  <2>1. e = [d EXCEPT !.tag = d.tag + 1] /\ d.tag \in 0 .. 1
    BY <1>1, <1>4, FieldTypes DEF AddChild, Tag
  <2> HIDE DEF e
  <2>2. /\ e \in NodeData
        /\ e.tag = d.tag + 1 /\ e.tag # 3 /\ e.first = d.first /\ e.count = d.count
        /\ e.parent = d.parent
    <3>1. d.tag + 1 \in 0 .. 3 /\ d.tag + 1 # 3
      BY <2>1
    <3> QED BY <1>1, <2>1, <3>1, TagChanged
  <2>3. \A a : GetChild(e, a) = GetChild(d, a)
    BY <1>4, <2>2 DEF GetChild, Tag
  <2> QED BY <1>4, <2>1, <2>2, <2>3 DEF Packed, ChildrenCount, Tag, e
<1> QED BY <1>2, <1>3, <1>4

\* Of two children the other one stays; other nodes stay as they are.
LEMMA RemoveChildPacked ==
  ASSUME NEW d, Packed(d), NEW alt \in 0 .. ChildrenCount(d) - 1
  PROVE  /\ ChildrenCount(d) # 2 => RemoveChild(d, alt) = d
         /\ ChildrenCount(d) = 2 =>
              /\ Packed(RemoveChild(d, alt)) /\ ChildrenCount(RemoveChild(d, alt)) = 1
              /\ RemoveChild(d, alt).parent = d.parent
              /\ GetChild(RemoveChild(d, alt), 0) = GetChild(d, 1 - alt)
<1>1. /\ d \in NodeData
      /\ d.tag = 3 => d.count = Len(d.array) /\ d.count >= 3
  BY DEF Packed
<1>2. CASE d.tag # 2
  <2>1. ChildrenCount(d) # 2 /\ RemoveChild(d, alt) = d
    BY <1>1, <1>2 DEF ChildrenCount, RemoveChild, Tag
  <2> QED BY <2>1
<1>3. CASE d.tag = 2
  <2>1. ChildrenCount(d) = 2 /\ alt \in 0 .. 1
    BY <1>3 DEF ChildrenCount, Tag
  <2>2. GetChild(d, 0) = d.first /\ GetChild(d, 1) = -d.count
    BY <1>3 DEF GetChild, Tag
  <2> DEFINE e == RemoveChild(d, alt)
  <2> DEFINE moved == IF alt = 0 THEN [d EXCEPT !.first = -d.count] ELSE d
  <2>3. e = [moved EXCEPT !.tag = 1]
    <3>1. SetChild(d, GetChild(d, 1), 0) = [d EXCEPT !.first = -d.count]
      BY <1>3, <2>2 DEF SetChild, Tag
    <3>2. Tag.two = 2 /\ Tag.one = 1
      BY DEF Tag
    <3> QED BY <1>3, <3>1, <3>2 DEF RemoveChild
  <2>8. /\ moved \in NodeData /\ moved.parent = d.parent
        /\ moved.first = IF alt = 0 THEN -d.count ELSE d.first
    <3>1. -d.count \in Int
      BY <1>1, FieldTypes
    <3>2. CASE alt = 0
      BY <1>1, <3>1, <3>2, FirstChanged
    <3>3. CASE alt # 0
      BY <1>1, <3>3
    <3> QED BY <3>2, <3>3
  <2> HIDE DEF e, moved
  <2>4. /\ e \in NodeData
        /\ e.tag = 1 /\ e.parent = d.parent
        /\ e.first = IF alt = 0 THEN -d.count ELSE d.first
    BY <2>3, <2>8, TagChanged
  <2>5. GetChild(e, 0) = e.first
    BY <2>4 DEF GetChild, Tag
  <2>6. e.first = GetChild(d, 1 - alt)
    BY <2>1, <2>2, <2>4
  <2>7. Packed(e) /\ ChildrenCount(e) = 1
    BY <2>4 DEF Packed, ChildrenCount, Tag
  <2> QED BY <2>1, <2>4, <2>5, <2>6, <2>7 DEF e
<1> QED BY <1>2, <1>3

\* The children of a node, those of the places not filled yet included.
KidSeq(d) == [a \in 1 .. ChildrenCount(d) |-> GetChild(d, a - 1)]

LEMMA KidSeqIs ==
  ASSUME NEW d, Packed(d)
  PROVE  /\ KidSeq(d) \in Seq(Int) /\ Len(KidSeq(d)) = ChildrenCount(d)
         /\ ChildrenCount(d) \in Nat
         /\ \A a \in 1 .. ChildrenCount(d) : KidSeq(d)[a] = GetChild(d, a - 1)
<1>1. ChildrenCount(d) \in Nat /\ \A a \in 0 .. ChildrenCount(d) - 1 : GetChild(d, a) \in Int
  BY CountOfPacked
<1>2. \A a \in 1 .. ChildrenCount(d) : GetChild(d, a - 1) \in Int
  <2>1. \A a \in 1 .. ChildrenCount(d) : a - 1 \in 0 .. ChildrenCount(d) - 1
    BY <1>1
  <2> QED BY <1>1, <2>1
<1> QED BY <1>1, <1>2 DEF KidSeq

LEMMA KidSeqNumber ==
  ASSUME NEW d, Packed(d), ChildrenCount(d) = 0, NEW n \in Nat
  PROVE  /\ KidSeq(SetNumberOfChildren(d, n)) \in Seq(Int)
         /\ Len(KidSeq(SetNumberOfChildren(d, n))) = n
BY SetNumberPacked, KidSeqIs

LEMMA KidSeqNew ==
  ASSUME NEW pid \in Int, NEW n \in Nat
  PROVE  KidSeq(NewNode(pid, n)) \in Seq(Int) /\ Len(KidSeq(NewNode(pid, n))) = n
BY NewNodePacked, KidSeqIs

LEMMA KidSeqSet ==
  ASSUME NEW d, Packed(d), NEW nid \in Int, NEW alt \in 0 .. ChildrenCount(d) - 1
  PROVE  KidSeq(SetChild(d, nid, alt)) = [KidSeq(d) EXCEPT ![alt + 1] = nid]
<1> DEFINE e == SetChild(d, nid, alt)
<1>1. /\ Packed(e) /\ ChildrenCount(e) = ChildrenCount(d)
      /\ \A a \in 0 .. ChildrenCount(d) - 1 :
           GetChild(e, a) = IF a = alt THEN nid ELSE GetChild(d, a)
  BY SetChildPacked
<1>2. ChildrenCount(d) \in Nat
  BY CountOfPacked
<1> HIDE DEF e
<1>3. ASSUME NEW a \in 1 .. ChildrenCount(d)
      PROVE  GetChild(e, a - 1) = IF a = alt + 1 THEN nid ELSE GetChild(d, a - 1)
  <2>1. a - 1 \in 0 .. ChildrenCount(d) - 1 /\ (a - 1 = alt <=> a = alt + 1)
    BY <1>2
  <2> QED BY <1>1, <2>1
<1>4. KidSeq(e) = [a \in 1 .. ChildrenCount(d) |-> IF a = alt + 1 THEN nid ELSE GetChild(d, a - 1)]
  BY <1>1, <1>3 DEF KidSeq
<1> QED BY <1>4 DEF KidSeq, e

LEMMA KidSeqAdd ==
  ASSUME NEW d, Packed(d)
  PROVE  /\ KidSeq(AddChild(d)) \in Seq(Int) /\ Len(KidSeq(AddChild(d))) = Len(KidSeq(d)) + 1
         /\ \A a \in 1 .. Len(KidSeq(d)) : KidSeq(AddChild(d))[a] = KidSeq(d)[a]
<1> DEFINE e == AddChild(d)
<1>1. /\ Packed(e) /\ ChildrenCount(e) = ChildrenCount(d) + 1
      /\ \A a \in 0 .. ChildrenCount(d) - 1 : GetChild(e, a) = GetChild(d, a)
  BY AddChildPacked
<1> HIDE DEF e
<1>2. /\ KidSeq(e) \in Seq(Int) /\ Len(KidSeq(e)) = ChildrenCount(e)
      /\ Len(KidSeq(d)) = ChildrenCount(d) /\ ChildrenCount(d) \in Nat
      /\ \A a \in 1 .. ChildrenCount(e) : KidSeq(e)[a] = GetChild(e, a - 1)
      /\ \A a \in 1 .. ChildrenCount(d) : KidSeq(d)[a] = GetChild(d, a - 1)
  BY <1>1, KidSeqIs
<1>3. ASSUME NEW a \in 1 .. ChildrenCount(d) PROVE KidSeq(e)[a] = KidSeq(d)[a]
  <2>1. a \in 1 .. ChildrenCount(e) /\ a - 1 \in 0 .. ChildrenCount(d) - 1
    BY <1>1, <1>2
  <2> QED BY <1>1, <1>2, <2>1
<1> QED BY <1>1, <1>2, <1>3 DEF e

LEMMA KidSeqRemove ==
  ASSUME NEW d, Packed(d), NEW alt \in 0 .. ChildrenCount(d) - 1, ChildrenCount(d) = 2
  PROVE  KidSeq(RemoveChild(d, alt)) = <<KidSeq(d)[2 - alt]>>
<1> DEFINE e == RemoveChild(d, alt)
<1>1. ChildrenCount(e) = 1 /\ GetChild(e, 0) = GetChild(d, 1 - alt)
  BY RemoveChildPacked
<1>2. KidSeq(d)[2 - alt] = GetChild(d, 1 - alt)
  <2>1. 2 - alt \in 1 .. ChildrenCount(d) /\ 2 - alt - 1 = 1 - alt
    OBVIOUS
  <2> QED BY <2>1, KidSeqIs
<1> HIDE DEF e
<1>3. KidSeq(e) = [a \in 1 .. 1 |-> GetChild(e, a - 1)]
  BY <1>1 DEF KidSeq
<1>4. \A a \in 1 .. 1 : GetChild(e, a - 1) = GetChild(d, 1 - alt)
  BY <1>1
<1>5. KidSeq(e) = [a \in 1 .. 1 |-> GetChild(d, 1 - alt)]
  BY <1>3, <1>4
<1> QED BY <1>2, <1>5 DEF e

-----------------------------------------------------------------------------
(* All nodes *)

AllPacked == \A n \in NodeIDs : Packed(NodeAt(n))
Kids == [n \in NodeIDs |-> KidSeq(NodeAt(n))]
Parents == [n \in NodeIDs |-> ParentOf(n)]

\* Has place a of node n got its child?
Held(kids, fill, n, a) == a \in 1 .. Len(kids[n]) /\ (fill.pid = n => a <= fill.alt)

\* Of c nodes: the kids are a tree, where every node comes after its parent; a
\* node in whose places children are being created has room for the next.
Sound(kids, parents, fill, c) ==
  /\ c \in Nat
  /\ kids \in [0 .. c - 1 -> Seq(Int)] /\ parents \in [0 .. c - 1 -> Int]
  /\ fill \in [pid : Int, alt : Nat]
  /\ fill.pid = NoNode \/ (fill.pid \in 0 .. c - 1 /\ fill.alt < Len(kids[fill.pid]))
  /\ \A n \in 0 .. c - 1 : IF n = Root THEN parents[n] = NoNode
                                       ELSE parents[n] \in 0 .. c - 1 /\ parents[n] < n
  /\ \A n \in 0 .. c - 1 : \A a : Held(kids, fill, n, a) =>
       kids[n][a] \in 1 .. c - 1 /\ parents[kids[n][a]] = n
  /\ \A n \in 0 .. c - 1 : \A a, b :
       Held(kids, fill, n, a) /\ Held(kids, fill, n, b) /\ kids[n][a] = kids[n][b] => a = b

StructureInv ==
  /\ nodes \in Seq(NodeData)
  /\ AllPacked
  /\ Sound(Kids, Parents, filling, NodeCount)

LEMMA Facts ==
  ASSUME StructureInv
  PROVE  /\ NodeCount \in Nat /\ nodes \in Seq(NodeData) /\ DOMAIN nodes = 1 .. NodeCount
         /\ NodeIDs = 0 .. NodeCount - 1
         /\ \A n \in NodeIDs :
              /\ n \in Nat /\ n + 1 \in 1 .. NodeCount
              /\ Packed(nodes[n + 1]) /\ nodes[n + 1] \in NodeData
              /\ Kids[n] = KidSeq(nodes[n + 1]) /\ Parents[n] = nodes[n + 1].parent
              /\ Len(Kids[n]) = ChildrenCount(nodes[n + 1]) /\ Len(Kids[n]) \in Nat
<1>1. /\ NodeCount \in Nat /\ nodes \in Seq(NodeData) /\ DOMAIN nodes = 1 .. NodeCount
      /\ NodeIDs = 0 .. NodeCount - 1
  BY LenProperties DEF StructureInv, NodeCount, NodeIDs
<1>2. ASSUME NEW n \in NodeIDs
      PROVE  /\ n \in Nat /\ n + 1 \in 1 .. NodeCount
             /\ Packed(nodes[n + 1]) /\ nodes[n + 1] \in NodeData
             /\ Kids[n] = KidSeq(nodes[n + 1]) /\ Parents[n] = nodes[n + 1].parent
             /\ Len(Kids[n]) = ChildrenCount(nodes[n + 1]) /\ Len(Kids[n]) \in Nat
  <2>1. n \in Nat /\ n + 1 \in 1 .. NodeCount
    BY <1>1
  <2>2. Packed(nodes[n + 1]) /\ nodes[n + 1] \in NodeData
    BY DEF StructureInv, AllPacked, NodeAt, Packed
  <2>3. Kids[n] = KidSeq(nodes[n + 1]) /\ Parents[n] = nodes[n + 1].parent
    BY DEF Kids, Parents, NodeAt, ParentOf
  <2> QED BY <2>1, <2>2, <2>3, KidSeqIs
<1> QED BY <1>1, <1>2

\* One node changes, its parent does not.
LEMMA OneChanged ==
  ASSUME StructureInv, NEW p \in NodeIDs, NEW d, Packed(d), d.parent = nodes[p + 1].parent,
         nodes' = [nodes EXCEPT ![p + 1] = d]
  PROVE  /\ nodes' \in Seq(NodeData) /\ AllPacked' /\ NodeCount' = NodeCount
         /\ Kids' = [Kids EXCEPT ![p] = KidSeq(d)]
         /\ Parents' = Parents
<1>1. /\ nodes \in Seq(NodeData) /\ NodeCount \in Nat /\ p \in Nat /\ p + 1 \in 1 .. Len(nodes)
      /\ \A n \in NodeIDs : n \in Nat /\ n + 1 \in 1 .. Len(nodes) /\ Packed(nodes[n + 1])
  BY Facts DEF NodeCount
<1>2. d \in NodeData
  BY DEF Packed
<1>3. nodes' \in Seq(NodeData) /\ Len(nodes') = Len(nodes)
  BY <1>1, <1>2, ExceptSeq, LenProperties
<1>4. NodeCount' = NodeCount /\ NodeIDs' = NodeIDs
  BY <1>3 DEF NodeCount, NodeIDs
<1>5. \A n \in NodeIDs : nodes'[n + 1] = IF n = p THEN d ELSE nodes[n + 1]
  <2>1. ASSUME NEW n \in NodeIDs PROVE nodes'[n + 1] = IF n = p THEN d ELSE nodes[n + 1]
    <3>1. n + 1 \in DOMAIN nodes /\ (n + 1 = p + 1 <=> n = p)
      BY <1>1, LenProperties
    <3> QED BY <3>1
  <2> QED BY <2>1
<1>6. AllPacked'
  <2>1. \A n \in NodeIDs' : Packed(nodes'[n + 1])
    BY <1>1, <1>4, <1>5
  <2> QED BY <2>1 DEF AllPacked, NodeAt
<1>7. Kids' = [Kids EXCEPT ![p] = KidSeq(d)]
  <2>1. Kids' = [n \in NodeIDs |-> KidSeq(nodes'[n + 1])]
    BY <1>4 DEF Kids, NodeAt
  <2>2. Kids = [n \in NodeIDs |-> KidSeq(nodes[n + 1])]
    BY DEF Kids, NodeAt
  <2>3. \A n \in NodeIDs : KidSeq(nodes'[n + 1]) = IF n = p THEN KidSeq(d) ELSE KidSeq(nodes[n + 1])
    BY <1>5
  <2> QED BY <2>1, <2>2, <2>3
<1>8. Parents' = Parents
  <2>1. Parents' = [n \in NodeIDs |-> nodes'[n + 1].parent]
    BY <1>4 DEF Parents, ParentOf, NodeAt
  <2>2. Parents = [n \in NodeIDs |-> nodes[n + 1].parent]
    BY DEF Parents, ParentOf, NodeAt
  <2>3. \A n \in NodeIDs : nodes'[n + 1].parent = nodes[n + 1].parent
    BY <1>5
  <2> QED BY <2>1, <2>2, <2>3
<1> QED BY <1>3, <1>4, <1>6, <1>7, <1>8

\* Nothing is put into the places of node p that was not in one of them before.
Replaced(kids, fill, kids2, fill2, c, p, q) ==
  /\ p \in 0 .. c - 1 /\ q \in Seq(Int) /\ kids2 = [kids EXCEPT ![p] = q]
  /\ fill2 \in [pid : Int, alt : Nat] /\ fill.pid = NoNode
  /\ fill2.pid = NoNode \/ (fill2.pid = p /\ fill2.alt < Len(q))
  /\ \A a : Held(kids2, fill2, p, a) => \E b \in 1 .. Len(kids[p]) : q[a] = kids[p][b]
  /\ \A a, b : Held(kids2, fill2, p, a) /\ Held(kids2, fill2, p, b) /\ q[a] = q[b] => a = b

LEMMA SoundOne ==
  ASSUME NEW kids, NEW parents, NEW fill, NEW c, Sound(kids, parents, fill, c),
         NEW p, NEW q, NEW kids2, NEW fill2, Replaced(kids, fill, kids2, fill2, c, p, q)
  PROVE  Sound(kids2, parents, fill2, c)
<1>9. p \in 0 .. c - 1 /\ q \in Seq(Int) /\ kids2 = [kids EXCEPT ![p] = q]
  BY DEF Replaced
<1>10. /\ fill2 \in [pid : Int, alt : Nat] /\ fill.pid = NoNode
       /\ fill2.pid = NoNode \/ (fill2.pid = p /\ fill2.alt < Len(q))
  BY DEF Replaced
<1>11. \A a : Held(kids2, fill2, p, a) => \E b \in 1 .. Len(kids[p]) : q[a] = kids[p][b]
  BY DEF Replaced
<1>12. \A a, b : Held(kids2, fill2, p, a) /\ Held(kids2, fill2, p, b) /\ q[a] = q[b] => a = b
  BY DEF Replaced
<1>1. /\ c \in Nat /\ kids \in [0 .. c - 1 -> Seq(Int)] /\ parents \in [0 .. c - 1 -> Int]
      /\ \A n \in 0 .. c - 1 : \A a : Held(kids, fill, n, a) =>
           kids[n][a] \in 1 .. c - 1 /\ parents[kids[n][a]] = n
      /\ \A n \in 0 .. c - 1 : \A a, b :
           Held(kids, fill, n, a) /\ Held(kids, fill, n, b) /\ kids[n][a] = kids[n][b] => a = b
  BY DEF Sound
<1>2. /\ kids2 \in [0 .. c - 1 -> Seq(Int)] /\ kids2[p] = q
      /\ \A n \in 0 .. c - 1 : n # p => kids2[n] = kids[n]
  BY <1>1, <1>9
<1>3. \A n \in 0 .. c - 1 : \A a : Held(kids, fill, n, a) <=> a \in 1 .. Len(kids[n])
  BY <1>1, <1>10 DEF Held, NoNode
<1>4. \A n \in 0 .. c - 1 : n # p => \A a : Held(kids2, fill2, n, a) <=> Held(kids, fill, n, a)
  BY <1>1, <1>2, <1>10 DEF Held, NoNode
<1>5. ASSUME NEW n \in 0 .. c - 1, NEW a, Held(kids2, fill2, n, a)
      PROVE  kids2[n][a] \in 1 .. c - 1 /\ parents[kids2[n][a]] = n
  <2>1. CASE n # p
    BY <1>1, <1>2, <1>4, <1>5, <2>1
  <2>2. CASE n = p
    <3>1. PICK b \in 1 .. Len(kids[p]) : q[a] = kids[p][b]
      BY <1>5, <1>11, <2>2
    <3>2. Held(kids, fill, p, b)
      BY <1>3, <1>9
    <3>3. kids[p][b] \in 1 .. c - 1 /\ parents[kids[p][b]] = p
      BY <1>1, <1>9, <3>2
    <3>4. kids2[n][a] = kids[p][b]
      BY <1>2, <2>2, <3>1
    <3> QED BY <2>2, <3>3, <3>4
  <2> QED BY <2>1, <2>2
<1>6. ASSUME NEW n \in 0 .. c - 1, NEW a, NEW b, Held(kids2, fill2, n, a),
             Held(kids2, fill2, n, b), kids2[n][a] = kids2[n][b]
      PROVE  a = b
  <2>1. CASE n # p
    BY <1>1, <1>2, <1>4, <1>6, <2>1
  <2>2. CASE n = p
    BY <1>2, <1>6, <1>12, <2>2
  <2> QED BY <2>1, <2>2
<1>7. fill2.pid = NoNode \/ (fill2.pid \in 0 .. c - 1 /\ fill2.alt < Len(kids2[fill2.pid]))
  BY <1>2, <1>9, <1>10
<1>8. \A n \in 0 .. c - 1 : IF n = Root THEN parents[n] = NoNode
                                        ELSE parents[n] \in 0 .. c - 1 /\ parents[n] < n
  BY DEF Sound
<1> QED BY <1>1, <1>2, <1>5, <1>6, <1>7, <1>8, <1>10 DEF Sound

\* The next place of the node being filled gets a new child.
Grown(kids, parents, kids2, parents2, fill2, c, p, l, size) ==
  /\ c \in Nat /\ p \in 0 .. c - 1 /\ l \in Nat /\ size \in Nat /\ l + 1 <= size
  /\ kids2 \in [0 .. c -> Seq(Int)] /\ parents2 \in [0 .. c -> Int]
  /\ fill2 \in [pid : Int, alt : Nat]
  /\ Len(kids[p]) = size /\ Len(kids2[p]) = size /\ Len(kids2[c]) = 0 /\ parents2[c] = p
  /\ \A n \in 0 .. c - 1 : parents2[n] = parents[n] /\ (n # p => kids2[n] = kids[n])
  /\ \A a \in 1 .. size : kids2[p][a] = IF a = l + 1 THEN c ELSE kids[p][a]
  /\ IF l + 1 < size THEN fill2.pid = p /\ fill2.alt = l + 1 ELSE fill2.pid = NoNode

LEMMA SoundGrown ==
  ASSUME NEW kids, NEW parents, NEW fill, NEW c, Sound(kids, parents, fill, c),
         NEW kids2, NEW parents2, NEW fill2, NEW size,
         Grown(kids, parents, kids2, parents2, fill2, c, fill.pid, fill.alt, size)
  PROVE  Sound(kids2, parents2, fill2, c + 1)
<1> DEFINE p == fill.pid
           l == fill.alt
<1>21. /\ c \in Nat /\ p \in 0 .. c - 1 /\ l \in Nat /\ size \in Nat /\ l + 1 <= size
  BY DEF Grown
<1>22. Len(kids[p]) = size /\ Len(kids2[p]) = size /\ Len(kids2[c]) = 0
  BY DEF Grown
<1>23. \A n \in 0 .. c - 1 : parents2[n] = parents[n] /\ (n # p => kids2[n] = kids[n])
  BY DEF Grown
<1>24. \A a \in 1 .. size : kids2[p][a] = IF a = l + 1 THEN c ELSE kids[p][a]
  BY DEF Grown
<1>25. IF l + 1 < size THEN fill2.pid = p /\ fill2.alt = l + 1 ELSE fill2.pid = NoNode
  BY DEF Grown
<1>26. parents2[c] = p
  BY DEF Grown
<1>27. p = fill.pid /\ l = fill.alt
  OBVIOUS
<1> HIDE DEF p, l
<1>1. /\ \A n \in 0 .. c - 1 : parents[n] \in Int
      /\ \A n \in 0 .. c - 1 : IF n = Root THEN parents[n] = NoNode
                                           ELSE parents[n] \in 0 .. c - 1 /\ parents[n] < n
  BY DEF Sound
<1>2. \A n \in 0 .. c - 1 : \A a : Held(kids, fill, n, a) =>
           kids[n][a] \in 1 .. c - 1 /\ parents[kids[n][a]] = n
  BY DEF Sound
<1>3. \A n \in 0 .. c - 1 : \A a, b :
           Held(kids, fill, n, a) /\ Held(kids, fill, n, b) /\ kids[n][a] = kids[n][b] => a = b
  BY DEF Sound
<1>4. p # NoNode /\ p # c /\ p \in Nat /\ l + 1 \in Nat
  BY <1>21 DEF NoNode
<1>5. fill2.pid = p => fill2.alt = l + 1
  BY <1>4, <1>25
<1>6. fill2.pid # p => size = l + 1 /\ fill2.pid = NoNode
  BY <1>21, <1>25
<1>7. \A a : Held(kids2, fill2, p, a) <=> a \in 1 .. l + 1
  <2>1. \A a : Held(kids2, fill2, p, a) <=> a \in 1 .. size /\ (fill2.pid = p => a <= l + 1)
    BY <1>5, <1>22 DEF Held
  <2> QED BY <1>6, <1>21, <2>1
<1>8. \A a : Held(kids, fill, p, a) <=> a \in 1 .. l
  <2>1. \A a : Held(kids, fill, p, a) <=> a \in 1 .. size /\ a <= l
    BY <1>22, <1>27 DEF Held
  <2> QED BY <1>21, <2>1
<1>9. ASSUME NEW n \in 0 .. c - 1, n # p, NEW a
      PROVE  Held(kids2, fill2, n, a) <=> Held(kids, fill, n, a)
  <2>1. n # NoNode /\ fill2.pid # n /\ fill.pid # n
    BY <1>6, <1>9, <1>27 DEF NoNode
  <2>2. kids2[n] = kids[n]
    BY <1>9, <1>23
  <2> QED BY <2>1, <2>2 DEF Held
<1>10. \A a : ~ Held(kids2, fill2, c, a)
  BY <1>22 DEF Held
<1>11. ASSUME NEW a, a \in 1 .. l + 1, a # l + 1
       PROVE  /\ Held(kids, fill, p, a) /\ kids2[p][a] = kids[p][a]
              /\ kids[p][a] \in 1 .. c - 1 /\ parents[kids[p][a]] = p
  <2>1. a \in 1 .. l /\ a \in 1 .. size
    BY <1>11, <1>21
  <2> QED BY <1>2, <1>8, <1>11, <1>21, <1>24, <2>1
<1>12. kids2[p][l + 1] = c
  BY <1>21, <1>24
<1>13. ASSUME NEW n \in 0 .. c, NEW a, Held(kids2, fill2, n, a)
       PROVE  kids2[n][a] \in 1 .. c /\ parents2[kids2[n][a]] = n
  <2>1. CASE n = p /\ a = l + 1
    <3>1. c \in 1 .. c
      BY <1>21
    <3> QED BY <1>12, <1>26, <2>1, <3>1
  <2>2. CASE n = p /\ a # l + 1
    <3>1. kids2[n][a] = kids[p][a] /\ kids[p][a] \in 1 .. c - 1 /\ parents[kids[p][a]] = p
      BY <1>7, <1>11, <1>13, <2>2
    <3>2. kids[p][a] \in 0 .. c - 1 /\ kids[p][a] \in 1 .. c
      BY <1>21, <3>1
    <3> QED BY <1>23, <2>2, <3>1, <3>2
  <2>3. CASE n # p
    <3>1. n # c
      BY <1>10, <1>13
    <3>2. n \in 0 .. c - 1
      BY <1>21, <3>1
    <3>3. Held(kids, fill, n, a) /\ kids2[n][a] = kids[n][a]
      BY <1>9, <1>13, <1>23, <2>3, <3>2
    <3>4. kids[n][a] \in 1 .. c - 1 /\ parents[kids[n][a]] = n
      BY <1>2, <3>2, <3>3
    <3>5. kids[n][a] \in 0 .. c - 1 /\ kids[n][a] \in 1 .. c
      BY <1>21, <3>4
    <3> QED BY <1>23, <3>3, <3>4, <3>5
  <2> QED BY <2>1, <2>2, <2>3
<1>14. ASSUME NEW n \in 0 .. c, NEW a, NEW b, Held(kids2, fill2, n, a),
              Held(kids2, fill2, n, b), kids2[n][a] = kids2[n][b]
       PROVE  a = b
  <2>1. CASE n = p
    <3>1. a \in 1 .. l + 1 /\ b \in 1 .. l + 1
      BY <1>7, <1>14, <2>1
    <3>2. \A i \in 1 .. l + 1 : i # l + 1 => kids2[p][i] # c
      <4>1. \A i \in 1 .. l + 1 : i # l + 1 => kids2[p][i] \in 1 .. c - 1
        BY <1>11
      <4>2. c \notin 1 .. c - 1
        BY <1>21
      <4> QED BY <4>1, <4>2
    <3>3. CASE a = l + 1 \/ b = l + 1
      BY <1>12, <1>14, <2>1, <3>1, <3>2, <3>3
    <3>4. CASE a # l + 1 /\ b # l + 1
      <4>1. Held(kids, fill, p, a) /\ Held(kids, fill, p, b) /\ kids[p][a] = kids[p][b]
        BY <1>11, <1>14, <2>1, <3>1, <3>4
      <4> QED BY <1>3, <1>21, <4>1
    <3> QED BY <3>3, <3>4
  <2>2. CASE n # p
    <3>1. n # c
      BY <1>10, <1>14
    <3>2. n \in 0 .. c - 1
      BY <1>21, <3>1
    <3>3. Held(kids, fill, n, a) /\ Held(kids, fill, n, b) /\ kids2[n] = kids[n]
      BY <1>9, <1>14, <1>23, <2>2, <3>2
    <3> QED BY <1>3, <1>14, <3>2, <3>3
  <2> QED BY <2>1, <2>2
<1>15. fill2.pid = NoNode \/ (fill2.pid \in 0 .. c /\ fill2.alt < Len(kids2[fill2.pid]))
  <2>1. p \in 0 .. c
    BY <1>21
  <2> QED BY <1>22, <1>25, <2>1
<1>16. ASSUME NEW n \in 0 .. c
       PROVE  IF n = Root THEN parents2[n] = NoNode
                          ELSE parents2[n] \in 0 .. c /\ parents2[n] < n
  <2>1. CASE n = c
    <3>1. p \in 0 .. c /\ p < c /\ c # Root
      BY <1>21 DEF Root
    <3> QED BY <1>26, <2>1, <3>1
  <2>2. CASE n # c
    <3>1. n \in 0 .. c - 1
      BY <1>21, <2>2
    <3>2. parents2[n] = parents[n] /\ parents[n] \in Int
      BY <1>1, <1>23, <3>1
    <3>3. parents[n] \in 0 .. c - 1 => parents[n] \in 0 .. c
      BY <1>21
    <3> QED BY <1>1, <3>1, <3>2, <3>3
  <2> QED BY <2>1, <2>2
<1>18. /\ kids2 \in [0 .. c -> Seq(Int)] /\ parents2 \in [0 .. c -> Int]
       /\ fill2 \in [pid : Int, alt : Nat]
  BY DEF Grown
<1> DEFINE d == c + 1
<1>19. d \in Nat /\ d - 1 = c
  BY <1>21
<1> HIDE DEF d
<1>20. Sound(kids2, parents2, fill2, d)
  BY <1>13, <1>14, <1>15, <1>16, <1>18, <1>19, Zenon DEF Sound
<1> QED BY <1>20 DEF d

LEMMA SoundChild ==
  ASSUME NEW kids, NEW parents, NEW fill, NEW c \in Nat, Sound(kids, parents, fill, c),
         NEW p, p = fill.pid, p # NoNode, NEW kids2, NEW parents2,
         kids2 = [n \in 0 .. c |-> IF n = c THEN <<>>
                                   ELSE IF n = p
                                        THEN [kids[n] EXCEPT ![fill.alt + 1] = c] ELSE kids[n]],
         parents2 = [n \in 0 .. c |-> IF n = c THEN p ELSE parents[n]],
         NEW fill2, fill2 = Fill(p, fill.alt + 1, Len(kids[p]))
  PROVE  Sound(kids2, parents2, fill2, c + 1)
<1> DEFINE l == fill.alt
           q == [kids[p] EXCEPT ![l + 1] = c]
<1>1. /\ p \in 0 .. c - 1 /\ l \in Nat /\ l < Len(kids[p])
      /\ kids \in [0 .. c - 1 -> Seq(Int)] /\ parents \in [0 .. c - 1 -> Int]
  BY DEF Sound
<1>2. kids[p] \in Seq(Int) /\ Len(kids[p]) \in Nat
  <2>1. kids[p] \in Seq(Int)
    BY <1>1
  <2> QED BY <2>1, LenProperties
<1> HIDE DEF l
<1>3. c \in Int /\ DOMAIN kids[p] = 1 .. Len(kids[p]) /\ l + 1 \in 1 .. Len(kids[p])
  BY <1>1, <1>2, LenProperties
<1>4. /\ q \in Seq(Int) /\ Len(q) = Len(kids[p])
      /\ \A a \in 1 .. Len(kids[p]) : q[a] = IF a = l + 1 THEN c ELSE kids[p][a]
  BY <1>2, <1>3, ExceptSeq
<1>5. kids2 = [n \in 0 .. c |-> IF n = c THEN <<>> ELSE IF n = p THEN q ELSE kids[n]]
  BY DEF l
<1> HIDE DEF q
<1>6. /\ p \in 0 .. c /\ p # c /\ c \in 0 .. c
      /\ \A n \in 0 .. c - 1 : n \in 0 .. c /\ n # c
      /\ \A n \in 0 .. c : n # c => n \in 0 .. c - 1
  BY <1>1
<1>7. /\ kids2[c] = <<>> /\ kids2[p] = q /\ parents2[c] = p
      /\ \A n \in 0 .. c - 1 : parents2[n] = parents[n] /\ (n # p => kids2[n] = kids[n])
  BY <1>5, <1>6, Zenon
<1>8. kids2 \in [0 .. c -> Seq(Int)]
  <2>1. <<>> \in Seq(Int)
    BY EmptySeq
  <2>2. \A n \in 0 .. c : kids2[n] \in Seq(Int)
    BY <1>1, <1>4, <1>5, <1>6, <2>1, Zenon
  <2> QED BY <1>5, <2>2, Zenon
<1>9. parents2 \in [0 .. c -> Int]
  <2>1. p \in Int
    BY <1>1
  <2> QED BY <1>1, <1>6, <2>1
<1>10. Len(kids2[c]) = 0
  BY <1>7, EmptySeq
<1>11. /\ fill2 \in [pid : Int, alt : Nat]
       /\ IF l + 1 < Len(kids[p]) THEN fill2.pid = p /\ fill2.alt = l + 1 ELSE fill2.pid = NoNode
  <2>1. fill2 = IF l + 1 < Len(kids[p]) THEN [pid |-> p, alt |-> l + 1]
                                        ELSE [pid |-> NoNode, alt |-> 0]
    BY DEF Fill, Nothing, l
  <2>2. p \in Int /\ l + 1 \in Nat /\ NoNode \in Int
    BY <1>1 DEF NoNode
  <2> QED BY <2>1, <2>2
<1>12. l + 1 <= Len(kids[p])
  BY <1>1, <1>2
<1>13. l = fill.alt
  BY DEF l
<1>14. Len(kids2[p]) = Len(kids[p])
       /\ \A a \in 1 .. Len(kids[p]) : kids2[p][a] = IF a = l + 1 THEN c ELSE kids[p][a]
  BY <1>4, <1>7
<1>15. Grown(kids, parents, kids2, parents2, fill2, c, p, l, Len(kids[p]))
  BY <1>1, <1>2, <1>7, <1>8, <1>9, <1>10, <1>11, <1>12, <1>14, Zenon DEF Grown
<1> QED BY <1>13, <1>15, SoundGrown

-----------------------------------------------------------------------------
(* The lists of children *)

OneList(q, fill, n) ==
  [a \in 1 .. Len(q) |-> IF fill.pid = n => a <= fill.alt THEN q[a] ELSE Garbage]

ListsIn(kids, fill, c) == [i \in 1 .. c |-> OneList(kids[i - 1], fill, i - 1)]

\* How Lists depends on the nodes.
LEMMA ListsAre ==
  ASSUME StructureInv
  PROVE  Lists = ListsIn(Kids, filling, NodeCount)
<1>1. ASSUME NEW i \in 1 .. NodeCount
      PROVE  [a \in 1 .. ChildrenCount(nodes[i]) |->
                IF a - 1 \in Filled(i - 1) THEN GetChild(nodes[i], a - 1) ELSE Garbage]
             = OneList(Kids[i - 1], filling, i - 1)
  <2> DEFINE n == i - 1
             d == nodes[i]
  <2>1. n \in NodeIDs /\ i = n + 1 /\ NodeCount \in Nat /\ n \in Nat
    BY Facts
  <2>2. /\ Kids[n] = KidSeq(d) /\ Len(Kids[n]) = ChildrenCount(d) /\ ChildrenCount(d) \in Nat
        /\ Packed(d)
    BY <2>1, Facts
  <2>3. \A a \in 1 .. ChildrenCount(d) : KidSeq(d)[a] = GetChild(d, a - 1)
    BY <2>2, KidSeqIs
  <2>4. filling \in [pid : Int, alt : Nat]
    BY DEF StructureInv, Sound
  <2>5. filling.alt \in Nat
    BY <2>4
  <2>6. Filled(n) = IF filling.pid = n THEN 0 .. filling.alt - 1 ELSE 0 .. ChildrenCount(d) - 1
    BY <2>1 DEF Filled, KidsOf, NodeAt
  <2> HIDE DEF n, d
  <2>7. ASSUME NEW a \in 1 .. ChildrenCount(d)
        PROVE  a - 1 \in Filled(n) <=> (filling.pid = n => a <= filling.alt)
    BY <2>2, <2>5, <2>6
  <2>8. \A a \in 1 .. ChildrenCount(d) :
          (IF a - 1 \in Filled(n) THEN GetChild(d, a - 1) ELSE Garbage)
          = (IF filling.pid = n => a <= filling.alt THEN Kids[n][a] ELSE Garbage)
    BY <2>2, <2>3, <2>7
  <2>9. [a \in 1 .. ChildrenCount(d) |->
           IF a - 1 \in Filled(n) THEN GetChild(d, a - 1) ELSE Garbage]
        = [a \in 1 .. Len(Kids[n]) |->
             IF filling.pid = n => a <= filling.alt THEN Kids[n][a] ELSE Garbage]
    BY <2>2, <2>8
  <2> QED BY <2>9 DEF OneList, n, d
<1> QED BY <1>1 DEF Lists, ListsIn

LEMMA ListsInIs ==
  ASSUME NEW kids, NEW fill, NEW c \in Nat
  PROVE  /\ Len(ListsIn(kids, fill, c)) = c /\ DOMAIN ListsIn(kids, fill, c) = 1 .. c
         /\ \A n \in 0 .. c - 1 : n + 1 \in 1 .. c
         /\ \A n \in 0 .. c - 1 : ListsIn(kids, fill, c)[n + 1] = OneList(kids[n], fill, n)
<1>1. /\ DOMAIN ListsIn(kids, fill, c) = 1 .. c
      /\ \A i \in 1 .. c : ListsIn(kids, fill, c)[i] = OneList(kids[i - 1], fill, i - 1)
  BY DEF ListsIn
<1>2. Len(ListsIn(kids, fill, c)) = c
  BY <1>1 DEF ListsIn
<1>3. \A n \in 0 .. c - 1 : n + 1 \in 1 .. c /\ n + 1 - 1 = n
  OBVIOUS
<1>4. ASSUME NEW n \in 0 .. c - 1 PROVE ListsIn(kids, fill, c)[n + 1] = OneList(kids[n], fill, n)
  <2>1. ListsIn(kids, fill, c)[n + 1] = OneList(kids[n + 1 - 1], fill, n + 1 - 1)
    BY <1>1, <1>3
  <2> QED BY <1>3, <2>1
<1> QED BY <1>1, <1>2, <1>3, <1>4

LEMMA OneListIs ==
  ASSUME NEW q \in Seq(Int), NEW fill, NEW n
  PROVE  /\ OneList(q, fill, n) \in Seq(Int) /\ Len(OneList(q, fill, n)) = Len(q)
         /\ DOMAIN OneList(q, fill, n) = 1 .. Len(q)
         /\ \A a \in 1 .. Len(q) : OneList(q, fill, n)[a] =
              IF fill.pid = n => a <= fill.alt THEN q[a] ELSE Garbage
         /\ Len(q) \in Nat
<1>1. Len(q) \in Nat /\ \A a \in 1 .. Len(q) : q[a] \in Int
  BY LenProperties, ElementOfSeq
<1>2. \A a \in 1 .. Len(q) : (IF fill.pid = n => a <= fill.alt THEN q[a] ELSE Garbage) \in Int
  BY <1>1 DEF Garbage
<1> QED BY <1>1, <1>2 DEF OneList

OneChange(kids, fill, kids2, fill2, c, p, q) ==
  /\ c \in Nat /\ p \in 0 .. c - 1 /\ kids \in [0 .. c - 1 -> Seq(Int)]
  /\ fill.pid \in {NoNode, p} /\ fill2.pid \in {NoNode, p}
  /\ kids2 = [kids EXCEPT ![p] = q]

\* A change of the kids of node p is a change of its list.
LEMMA ListsOneChanged ==
  ASSUME NEW kids, NEW fill, NEW c, NEW p, NEW q, NEW fill2, NEW kids2,
         OneChange(kids, fill, kids2, fill2, c, p, q)
  PROVE  ListsIn(kids2, fill2, c)
           = [ListsIn(kids, fill, c) EXCEPT ![p + 1] = OneList(q, fill2, p)]
<1> DEFINE old == ListsIn(kids, fill, c)
           new == [old EXCEPT ![p + 1] = OneList(q, fill2, p)]
<1>1. kids2[p] = q /\ \A n \in 0 .. c - 1 : n # p => kids2[n] = kids[n]
  BY DEF OneChange
<1>6. c \in Nat /\ p \in 0 .. c - 1 /\ fill.pid \in {NoNode, p} /\ fill2.pid \in {NoNode, p}
  BY DEF OneChange
<1>2. ASSUME NEW i \in 1 .. c
      PROVE  OneList(kids2[i - 1], fill2, i - 1)
               = IF i = p + 1 THEN OneList(q, fill2, p) ELSE OneList(kids[i - 1], fill, i - 1)
  <2>1. i - 1 \in 0 .. c - 1 /\ (i - 1 = p <=> i = p + 1)
    BY <1>6
  <2>2. CASE i - 1 = p
    BY <1>1, <2>1, <2>2
  <2>3. CASE i - 1 # p
    <3>1. kids2[i - 1] = kids[i - 1]
      BY <1>1, <2>1, <2>3
    <3>2. fill.pid # i - 1 /\ fill2.pid # i - 1
      BY <1>6, <2>1, <2>3 DEF NoNode
    <3> QED BY <2>1, <2>3, <3>1, <3>2 DEF OneList
  <2> QED BY <2>2, <2>3
<1>3. new = [i \in 1 .. c |-> IF i = p + 1 THEN OneList(q, fill2, p) ELSE OneList(kids[i - 1], fill, i - 1)]
  BY DEF ListsIn
<1>4. ListsIn(kids2, fill2, c) = [i \in 1 .. c |-> OneList(kids2[i - 1], fill2, i - 1)]
  BY DEF ListsIn
<1> HIDE DEF new
<1>5. ListsIn(kids2, fill2, c) = new
  BY <1>2, <1>3, <1>4
<1> QED BY <1>5 DEF new

\* Places at the end of a list.
LEMMA PlacesAdded ==
  ASSUME NEW one \in Seq(Int), NEW two \in Seq(Int), Len(one) <= Len(two),
         \A a \in 1 .. Len(one) : two[a] = one[a],
         \A a \in 1 .. Len(two) : ~ a <= Len(one) => two[a] = Garbage
  PROVE  two = one \o Abstract!Places(Len(two) - Len(one))
<1> DEFINE k == Len(two) - Len(one)
           more == Abstract!Places(k)
<1>1. Len(one) \in Nat /\ Len(two) \in Nat /\ k \in Nat /\ Len(two) = Len(one) + k
  BY LenProperties
<1> HIDE DEF k
<1>2. /\ more \in Seq(Int) /\ Len(more) = k
      /\ \A a \in 1 .. k : more[a] = Garbage
  BY <1>1 DEF Abstract!Places, Garbage
<1> HIDE DEF more
<1>3. /\ one \o more \in Seq(Int) /\ Len(one \o more) = Len(two)
      /\ \A a \in 1 .. Len(one) + Len(more) :
           (one \o more)[a] = IF a <= Len(one) THEN one[a] ELSE more[a - Len(one)]
  BY <1>1, <1>2, ConcatProperties
<1>4. ASSUME NEW a \in 1 .. Len(two) PROVE (one \o more)[a] = two[a]
  <2>1. CASE a <= Len(one)
    <3>1. a \in 1 .. Len(one) /\ a \in 1 .. Len(one) + Len(more)
      BY <1>1, <1>2, <2>1
    <3> QED BY <1>3, <2>1, <3>1
  <2>2. CASE ~ a <= Len(one)
    <3>1. a - Len(one) \in 1 .. k /\ a \in 1 .. Len(one) + Len(more)
      BY <1>1, <1>2, <2>2
    <3>2. two[a] = Garbage
      BY <2>2
    <3> QED BY <1>2, <1>3, <2>2, <3>1, <3>2
  <2> QED BY <2>1, <2>2
<1>5. one \o more = two
  BY <1>3, <1>4, SeqEqual
<1> QED BY <1>5 DEF more, k

LEMMA ListsAreThen ==
  StructureInv' => Lists' = ListsIn(Kids', filling', NodeCount')
<1>1. StructureInv => Lists = ListsIn(Kids, filling, NodeCount)
  BY ListsAre
<1>2. (StructureInv => Lists = ListsIn(Kids, filling, NodeCount))'
  BY <1>1, PTL
<1> QED BY <1>2

-----------------------------------------------------------------------------
(* What each operation does to the nodes and to their lists *)

Steps == StructureInv' /\ (Abstract!Next \/ UNCHANGED Lists)

\* Every node but the root is in a place of its parent.
Placed(n) == \E a : Held(Kids, filling, Parents[n], a) /\ Kids[Parents[n]][a] = n
AllPlaced == \A n \in NodeIDs \ {Root} : Placed(n)

\* The children of a node are in its places in the order they were created.
Ascending ==
  \A n \in NodeIDs : \A a, b :
    Held(Kids, filling, n, a) /\ Held(Kids, filling, n, b) /\ a < b => Kids[n][a] < Kids[n][b]

\* Nodes stay with their parents, and what is in a place stays there.
KidsStay ==
  \A n \in NodeIDs :
    /\ n \in NodeIDs' /\ Parents'[n] = Parents[n]
    /\ \A a : Held(Kids, filling, n, a) => Held(Kids', filling', n, a) /\ Kids'[n][a] = Kids[n][a]

\* A place got its child before, or now and after all others of the node.
KidsCome ==
  \A n \in NodeIDs' : \A a : Held(Kids', filling', n, a) =>
    \/ n \in NodeIDs /\ Held(Kids, filling, n, a) /\ Kids'[n][a] = Kids[n][a]
    \/ Kids'[n][a] = NodeCount /\ \A b : Held(Kids', filling', n, b) => b <= a

\* What is true of every operation but removeChild.
Grows ==
  /\ Steps /\ KidsStay /\ KidsCome
  /\ (AllPlaced => AllPlaced') /\ (Ascending => Ascending')

LEMMA KidsFollow ==
  ASSUME StructureInv, StructureInv', KidsStay, KidsCome,
         \A n \in NodeIDs' \ {Root} : n \in NodeIDs \/ Placed(n)'
  PROVE  (AllPlaced => AllPlaced') /\ (Ascending => Ascending')
<1>1. ASSUME AllPlaced, NEW n \in NodeIDs', n # Root, n \in NodeIDs PROVE Placed(n)'
  <2>1. PICK a : Held(Kids, filling, Parents[n], a) /\ Kids[Parents[n]][a] = n
    BY <1>1 DEF AllPlaced, Placed
  <2>2. Parents[n] \in NodeIDs
    BY <1>1 DEF StructureInv, Sound, NodeIDs
  <2>3. Held(Kids', filling', Parents[n], a) /\ Kids'[Parents[n]][a] = n /\ Parents'[n] = Parents[n]
    BY <1>1, <2>1, <2>2 DEF KidsStay
  <2> QED BY <2>3 DEF Placed
<1>2. ASSUME Ascending, NEW n \in NodeIDs', NEW a, NEW b,
             Held(Kids', filling', n, a), Held(Kids', filling', n, b), a < b
      PROVE  Kids'[n][a] < Kids'[n][b]
  <2>1. a \in Int /\ b \in Int
    BY <1>2 DEF Held
  <2>2. n \in NodeIDs /\ Held(Kids, filling, n, a) /\ Kids'[n][a] = Kids[n][a]
    <3>1. ~(b <= a)
      BY <1>2, <2>1
    <3> QED BY <1>2, <3>1 DEF KidsCome
  <2>3. Kids[n][a] \in 1 .. NodeCount - 1 /\ NodeCount \in Nat
    BY <2>2 DEF StructureInv, Sound, NodeIDs
  <2>4. CASE Held(Kids, filling, n, b) /\ Kids'[n][b] = Kids[n][b]
    BY <1>2, <2>2, <2>4 DEF Ascending
  <2>5. CASE Kids'[n][b] = NodeCount
    BY <2>2, <2>3, <2>5
  <2> QED BY <1>2, <2>4, <2>5 DEF KidsCome
<1> QED BY <1>1, <1>2 DEF AllPlaced, Ascending

LEMMA RootStep ==
  ASSUME StructureInv, NEW k \in Nat, CreateRoot(k)
  PROVE  Grows /\ NodeIDs' = {Root}
<1> DEFINE d == NewNode(NoNode, k)
           q == KidSeq(d)
<1>1. nodes = <<>> /\ nodes' = <<d>> /\ filling' = Fill(Root, 0, k)
  BY DEF CreateRoot
<1>2. Packed(d) /\ d.parent = NoNode /\ q \in Seq(Int) /\ Len(q) = k
  <2>1. NoNode \in Int
    BY DEF NoNode
  <2> QED BY <2>1, NewNodePacked, KidSeqNew
<1> HIDE DEF q, d
<1>3. d \in NodeData
  BY <1>2 DEF Packed
<1>4. nodes' \in Seq(NodeData) /\ NodeCount' = 1 /\ nodes'[1] = d /\ NodeIDs' = {0}
  <2>1. nodes' \in Seq(NodeData) /\ Len(nodes') = 1 /\ nodes'[1] = d
    BY <1>1, <1>3
  <2>2. 0 .. 1 - 1 = {0}
    OBVIOUS
  <2> QED BY <2>1, <2>2 DEF NodeCount, NodeIDs
<1>5. AllPacked'
  <2>1. \A n \in NodeIDs' : Packed(nodes'[n + 1])
    BY <1>2, <1>4
  <2> QED BY <2>1 DEF AllPacked, NodeAt
<1>6. Kids' = [n \in {0} |-> q]
  <2>1. Kids' = [n \in NodeIDs' |-> KidSeq(nodes'[n + 1])]
    BY DEF Kids, NodeAt
  <2>2. \A n \in {0} : KidSeq(nodes'[n + 1]) = q
    BY <1>4 DEF q
  <2> QED BY <1>4, <2>1, <2>2
<1>7. Parents' = [n \in {0} |-> NoNode]
  <2>1. Parents' = [n \in NodeIDs' |-> nodes'[n + 1].parent]
    BY DEF Parents, ParentOf, NodeAt
  <2>2. \A n \in {0} : nodes'[n + 1].parent = NoNode
    BY <1>2, <1>4
  <2> QED BY <1>4, <2>1, <2>2
<1>8. /\ filling' \in [pid : Int, alt : Nat]
      /\ IF 0 < k THEN filling'.pid = 0 /\ filling'.alt = 0 ELSE filling'.pid = NoNode
  BY <1>1 DEF Fill, Nothing, NoNode, Root
<1>9. \A a : ~ Held(Kids', filling', 0, a)
  <2>1. Len(Kids'[0]) = k
    BY <1>2, <1>6
  <2> QED BY <1>8, <2>1 DEF Held
<1>10. Sound(Kids', Parents', filling', 1)
  <2>1. 0 .. 1 - 1 = {0} /\ 1 \in Nat
    OBVIOUS
  <2>2. Kids' \in [{0} -> Seq(Int)] /\ Parents' \in [{0} -> Int] /\ Parents'[0] = NoNode
    BY <1>2, <1>6, <1>7 DEF NoNode
  <2>3. filling'.pid = NoNode \/ (filling'.pid \in {0} /\ filling'.alt < Len(Kids'[filling'.pid]))
    BY <1>2, <1>6, <1>8
  <2> QED BY <1>8, <1>9, <2>1, <2>2, <2>3, Zenon DEF Sound, Root
<1>11. StructureInv'
  BY <1>4, <1>5, <1>10 DEF StructureInv
<1>12. Lists = <<>>
  <2>1. NodeCount = 0
    BY <1>1, EmptySeq DEF NodeCount
  <2> QED BY <2>1, ListsAre DEF ListsIn
<1>13. Len(Lists') = 1 /\ Lists'[1] = OneList(q, filling', 0)
  <2>1. Lists' = ListsIn(Kids', filling', 1)
    BY <1>4, <1>11, ListsAreThen
  <2>2. 0 \in 0 .. 1 - 1 /\ 0 + 1 = 1 /\ 1 \in Nat
    OBVIOUS
  <2>3. Len(Lists') = 1 /\ Lists'[0 + 1] = OneList(Kids'[0], filling', 0)
    BY <2>1, <2>2, ListsInIs
  <2> QED BY <1>6, <2>2, <2>3
<1>14. OneList(q, filling', 0) = Abstract!Places(k)
  <2>1. \A a \in 1 .. k : (IF filling'.pid = 0 => a <= filling'.alt THEN q[a] ELSE Garbage) = Garbage
    BY <1>8
  <2> QED BY <1>2, <2>1 DEF OneList, Abstract!Places
<1>15. Len(OneList(q, filling', 0)) = k
  BY <1>2, OneListIs
<1>16. Abstract!NewRoot
  BY <1>12, <1>13, <1>14, <1>15 DEF Abstract!NewRoot
<1>17. NodeIDs = {} /\ NodeIDs' = {Root}
  <2>1. Len(nodes) = 0 /\ 0 .. 0 - 1 = {}
    BY <1>1, EmptySeq
  <2> QED BY <1>4, <2>1 DEF NodeIDs, NodeCount, Root
<1>18. KidsStay /\ KidsCome /\ \A n \in NodeIDs' \ {Root} : n \in NodeIDs \/ Placed(n)'
  BY <1>4, <1>9, <1>17 DEF KidsStay, KidsCome
<1> QED BY <1>11, <1>16, <1>17, <1>18, KidsFollow DEF Grows, Steps, Abstract!Next

LEMMA ListsChange ==
  ASSUME StructureInv, StructureInv', NodeCount' = NodeCount, NEW p, NEW q,
         OneChange(Kids, filling, Kids', filling', NodeCount, p, q)
  PROVE  /\ Lists' = [Lists EXCEPT ![p + 1] = OneList(q, filling', p)]
         /\ p + 1 \in DOMAIN Lists /\ Lists[p + 1] = OneList(Kids[p], filling, p)
<1>1. Lists = ListsIn(Kids, filling, NodeCount) /\ Lists' = ListsIn(Kids', filling', NodeCount)
  BY ListsAre, ListsAreThen
<1>2. NodeCount \in Nat /\ p \in 0 .. NodeCount - 1
  BY DEF OneChange
<1>3. /\ DOMAIN Lists = 1 .. NodeCount /\ p + 1 \in 1 .. NodeCount
      /\ Lists[p + 1] = OneList(Kids[p], filling, p)
  BY <1>1, <1>2, ListsInIs, Zenon
<1>4. ListsIn(Kids', filling', NodeCount)
        = [ListsIn(Kids, filling, NodeCount) EXCEPT ![p + 1] = OneList(q, filling', p)]
  BY ListsOneChanged
<1> QED BY <1>1, <1>3, <1>4, Zenon

LEMMA ChildrenStep ==
  ASSUME StructureInv, NEW p, NEW k \in Nat, AddChildren(p, k)
  PROVE  Grows /\ NodeCount' = NodeCount /\ \E q : Kids' = [Kids EXCEPT ![p] = q]
<1> DEFINE d == SetNumberOfChildren(nodes[p + 1], k)
           q == KidSeq(d)
<1>1. /\ filling.pid = NoNode /\ p \in NodeIDs /\ ChildrenCount(nodes[p + 1]) = 0
      /\ nodes' = [nodes EXCEPT ![p + 1] = d] /\ filling' = Fill(p, 0, k)
  BY DEF AddChildren, AtRest, KidsOf, NodeAt
<1>2. Packed(nodes[p + 1]) /\ Kids[p] = KidSeq(nodes[p + 1]) /\ Len(Kids[p]) = 0
  BY <1>1, Facts
<1>3. Packed(d) /\ d.parent = nodes[p + 1].parent /\ q \in Seq(Int) /\ Len(q) = k
  BY <1>1, <1>2, SetNumberPacked, KidSeqNumber
<1> HIDE DEF d
<1>4. /\ nodes' \in Seq(NodeData) /\ AllPacked' /\ NodeCount' = NodeCount
      /\ Kids' = [Kids EXCEPT ![p] = q] /\ Parents' = Parents
  BY <1>1, <1>3, OneChanged
<1> HIDE DEF q
<1>5. Sound(Kids, Parents, filling, NodeCount)
  BY DEF StructureInv
<1>6. /\ NodeCount \in Nat /\ p \in 0 .. NodeCount - 1 /\ p \in Int
      /\ Kids \in [0 .. NodeCount - 1 -> Seq(Int)]
  BY <1>1, <1>5, Facts DEF Sound
<1>7. /\ filling' \in [pid : Int, alt : Nat]
      /\ IF 0 < k THEN filling'.pid = p /\ filling'.alt = 0 ELSE filling'.pid = NoNode
  BY <1>1, <1>6 DEF Fill, Nothing, NoNode
<1>8. Kids'[p] = q
  BY <1>4, <1>6
<1>9. \A a : ~ Held(Kids', filling', p, a)
  BY <1>3, <1>7, <1>8 DEF Held
<1>10. filling'.pid = NoNode \/ (filling'.pid = p /\ filling'.alt < Len(q))
  BY <1>3, <1>7
<1>11. Sound(Kids', Parents, filling', NodeCount)
  <2>1. Replaced(Kids, filling, Kids', filling', NodeCount, p, q)
    BY <1>1, <1>3, <1>4, <1>6, <1>7, <1>9, <1>10 DEF Replaced
  <2> QED BY <1>5, <2>1, SoundOne
<1>12. StructureInv'
  BY <1>4, <1>11 DEF StructureInv
<1>13. OneChange(Kids, filling, Kids', filling', NodeCount, p, q)
  BY <1>1, <1>4, <1>6, <1>7 DEF OneChange
<1>14. Lists' = [Lists EXCEPT ![p + 1] = OneList(q, filling', p)]
  BY <1>4, <1>12, <1>13, ListsChange
<1>15. p + 1 \in DOMAIN Lists /\ Lists[p + 1] = OneList(Kids[p], filling, p)
  BY <1>4, <1>12, <1>13, ListsChange
<1>16. Lists'[p + 1] = OneList(q, filling', p)
  BY <1>14, <1>15
<1>17. OneList(q, filling', p)
         = OneList(Kids[p], filling, p) \o Abstract!Places(Len(OneList(q, filling', p))
                                                            - Len(OneList(Kids[p], filling, p)))
  <2>1. Kids[p] \in Seq(Int)
    BY <1>6
  <2>2. /\ OneList(q, filling', p) \in Seq(Int) /\ OneList(Kids[p], filling, p) \in Seq(Int)
        /\ Len(OneList(q, filling', p)) = k /\ Len(OneList(Kids[p], filling, p)) = 0
    BY <1>2, <1>3, <2>1, OneListIs
  <2>3. \A a \in 1 .. k : OneList(q, filling', p)[a] = Garbage
    <3>1. \A a \in 1 .. k : ~ (filling'.pid = p => a <= filling'.alt)
      BY <1>7
    <3> QED BY <1>3, <3>1, OneListIs
  <2> DEFINE one == OneList(Kids[p], filling, p)
             two == OneList(q, filling', p)
  <2> HIDE DEF one, two
  <2>4. /\ one \in Seq(Int) /\ two \in Seq(Int) /\ Len(one) <= Len(two)
        /\ \A a \in 1 .. Len(one) : two[a] = one[a]
        /\ \A a \in 1 .. Len(two) : ~ a <= Len(one) => two[a] = Garbage
    BY <2>2, <2>3 DEF one, two
  <2>5. two = one \o Abstract!Places(Len(two) - Len(one))
    BY <2>4, PlacesAdded
  <2> QED BY <2>5 DEF one, two
<1>18. Abstract!AddPlaces
  BY <1>14, <1>15, <1>16, <1>17 DEF Abstract!AddPlaces
<1>19. NodeIDs' = NodeIDs /\ \A n \in NodeIDs : n \in 0 .. NodeCount - 1
  BY <1>4 DEF NodeIDs
<1>20. ASSUME NEW n \in NodeIDs, NEW a
       PROVE  /\ Held(Kids', filling', n, a) <=> Held(Kids, filling, n, a)
              /\ Held(Kids, filling, n, a) => Kids'[n][a] = Kids[n][a]
  <2>1. CASE n = p
    <3>1. ~ Held(Kids, filling, p, a)
      BY <1>2 DEF Held
    <3> QED BY <1>9, <2>1, <3>1
  <2>2. CASE n # p
    <3>1. Kids'[n] = Kids[n]
      BY <1>4, <1>6, <1>19, <2>2
    <3>2. filling'.pid # n /\ filling.pid # n
      BY <1>1, <1>7, <1>19, <2>2 DEF NoNode
    <3> QED BY <3>1, <3>2 DEF Held
  <2> QED BY <2>1, <2>2
<1>21. KidsStay /\ KidsCome
  BY <1>4, <1>19, <1>20 DEF KidsStay, KidsCome
<1> QED BY <1>4, <1>12, <1>18, <1>19, <1>21, KidsFollow DEF Grows, Steps, Abstract!Next

LEMMA ExtraStep ==
  ASSUME StructureInv, NEW p, AddExtraChild(p)
  PROVE  Grows /\ NodeCount' = NodeCount /\ \E q : Kids' = [Kids EXCEPT ![p] = q]
<1> DEFINE d == AddChild(nodes[p + 1])
           q == KidSeq(d)
<1>1. /\ filling.pid = NoNode /\ p \in NodeIDs
      /\ nodes' = [nodes EXCEPT ![p + 1] = d]
      /\ filling' = [pid |-> p, alt |-> ChildrenCount(nodes[p + 1])]
  BY DEF AddExtraChild, AtRest, KidsOf, NodeAt
<1>2. /\ Packed(nodes[p + 1]) /\ Kids[p] = KidSeq(nodes[p + 1])
      /\ Len(Kids[p]) = ChildrenCount(nodes[p + 1]) /\ Len(Kids[p]) \in Nat
  BY <1>1, Facts
<1>3. Packed(d) /\ d.parent = nodes[p + 1].parent
  BY <1>2, AddChildPacked
<1>4. /\ q \in Seq(Int) /\ Len(q) = Len(Kids[p]) + 1
      /\ \A a \in 1 .. Len(Kids[p]) : q[a] = Kids[p][a]
  BY <1>2, KidSeqAdd
<1> HIDE DEF d
<1>5. /\ nodes' \in Seq(NodeData) /\ AllPacked' /\ NodeCount' = NodeCount
      /\ Kids' = [Kids EXCEPT ![p] = q] /\ Parents' = Parents
  BY <1>1, <1>3, OneChanged
<1> HIDE DEF q
<1>6. Sound(Kids, Parents, filling, NodeCount)
  BY DEF StructureInv
<1>7. /\ NodeCount \in Nat /\ p \in 0 .. NodeCount - 1 /\ p \in Int
      /\ Kids \in [0 .. NodeCount - 1 -> Seq(Int)]
  BY <1>1, <1>6, Facts DEF Sound
<1>8. /\ filling' \in [pid : Int, alt : Nat]
      /\ filling'.pid = p /\ filling'.alt = Len(Kids[p])
  BY <1>1, <1>2, <1>7
<1>9. Kids'[p] = q /\ Kids[p] \in Seq(Int)
  BY <1>5, <1>7
<1>10. \A a : Held(Kids', filling', p, a) => a \in 1 .. Len(Kids[p]) /\ q[a] = Kids[p][a]
  <2>1. \A a : Held(Kids', filling', p, a) => a \in 1 .. Len(q) /\ a <= Len(Kids[p])
    BY <1>8, <1>9 DEF Held
  <2>2. \A a : Held(Kids', filling', p, a) => a \in 1 .. Len(Kids[p])
    BY <1>2, <1>4, <2>1
  <2> QED BY <1>4, <2>2
<1>11. \A a, b : Held(Kids', filling', p, a) /\ Held(Kids', filling', p, b) /\ q[a] = q[b] => a = b
  <2>1. \A a \in 1 .. Len(Kids[p]) : Held(Kids, filling, p, a)
    BY <1>1, <1>7 DEF Held, NoNode
  <2>2. \A a, b : (/\ Held(Kids, filling, p, a) /\ Held(Kids, filling, p, b)
                   /\ Kids[p][a] = Kids[p][b]) => a = b
    <3>1. \A n \in 0 .. NodeCount - 1 : \A a, b :
             Held(Kids, filling, n, a) /\ Held(Kids, filling, n, b) /\ Kids[n][a] = Kids[n][b] => a = b
      BY <1>6 DEF Sound
    <3> QED BY <1>7, <3>1
  <2> QED BY <1>10, <2>1, <2>2
<1>12. filling'.pid = NoNode \/ (filling'.pid = p /\ filling'.alt < Len(q))
  BY <1>2, <1>4, <1>8
<1>13. Sound(Kids', Parents, filling', NodeCount)
  <2>1. \A a : Held(Kids', filling', p, a) => \E b \in 1 .. Len(Kids[p]) : q[a] = Kids[p][b]
    BY <1>10
  <2>2. Replaced(Kids, filling, Kids', filling', NodeCount, p, q)
    BY <1>1, <1>4, <1>5, <1>7, <1>8, <1>11, <1>12, <2>1 DEF Replaced
  <2> QED BY <1>6, <2>2, SoundOne
<1>14. StructureInv'
  BY <1>5, <1>13 DEF StructureInv
<1>15. OneChange(Kids, filling, Kids', filling', NodeCount, p, q)
  BY <1>1, <1>5, <1>7, <1>8 DEF OneChange
<1> DEFINE one == OneList(Kids[p], filling, p)
           two == OneList(q, filling', p)
<1>16. /\ Lists' = [Lists EXCEPT ![p + 1] = two]
       /\ p + 1 \in DOMAIN Lists /\ Lists[p + 1] = one
  BY <1>5, <1>14, <1>15, ListsChange
<1>17. Lists'[p + 1] = two
  BY <1>16
<1>18. /\ one \in Seq(Int) /\ Len(one) = Len(Kids[p])
       /\ \A a \in 1 .. Len(Kids[p]) : one[a] = Kids[p][a]
  <2>1. filling.pid # p
    BY <1>1, <1>7 DEF NoNode
  <2> QED BY <1>9, <2>1, OneListIs
<1>19. /\ two \in Seq(Int) /\ Len(two) = Len(q)
       /\ \A a \in 1 .. Len(q) : two[a] = IF a <= Len(Kids[p]) THEN q[a] ELSE Garbage
  BY <1>4, <1>8, OneListIs
<1> HIDE DEF one, two
<1>20. two = one \o Abstract!Places(Len(two) - Len(one))
  <2>1. Len(one) <= Len(two)
    BY <1>2, <1>4, <1>18, <1>19
  <2>2. \A a \in 1 .. Len(one) : two[a] = one[a]
    <3>1. \A a \in 1 .. Len(one) : a \in 1 .. Len(q) /\ a <= Len(Kids[p])
      BY <1>2, <1>4, <1>18
    <3> QED BY <1>4, <1>18, <1>19, <3>1
  <2>3. \A a \in 1 .. Len(two) : ~ a <= Len(one) => two[a] = Garbage
    BY <1>18, <1>19
  <2> QED BY <1>18, <1>19, <2>1, <2>2, <2>3, PlacesAdded
<1>21. Abstract!AddPlaces
  BY <1>16, <1>17, <1>20 DEF Abstract!AddPlaces
<1>22. NodeIDs' = NodeIDs /\ \A n \in NodeIDs : n \in 0 .. NodeCount - 1
  BY <1>5 DEF NodeIDs
<1>23. ASSUME NEW n \in NodeIDs, NEW a
       PROVE  /\ Held(Kids', filling', n, a) <=> Held(Kids, filling, n, a)
              /\ Held(Kids, filling, n, a) => Kids'[n][a] = Kids[n][a]
  <2>1. CASE n = p
    <3>1. Held(Kids, filling, p, a) <=> a \in 1 .. Len(Kids[p])
      BY <1>1, <1>7 DEF Held, NoNode
    <3>2. a \in 1 .. Len(Kids[p]) => a \in 1 .. Len(q) /\ a <= Len(Kids[p])
      BY <1>2, <1>4
    <3>3. a \in 1 .. Len(Kids[p]) => Held(Kids', filling', p, a)
      BY <1>8, <1>9, <3>2 DEF Held
    <3> QED BY <1>9, <1>10, <2>1, <3>1, <3>3
  <2>2. CASE n # p
    <3>1. Kids'[n] = Kids[n] /\ filling'.pid # n /\ filling.pid # n
      BY <1>1, <1>5, <1>7, <1>8, <1>22, <2>2 DEF NoNode
    <3> QED BY <3>1 DEF Held
  <2> QED BY <2>1, <2>2
<1>24. KidsStay /\ KidsCome
  BY <1>5, <1>22, <1>23 DEF KidsStay, KidsCome
<1> QED BY <1>5, <1>14, <1>21, <1>22, <1>24, KidsFollow DEF Grows, Steps, Abstract!Next

LEMMA RemoveStep ==
  ASSUME StructureInv, NEW p, NEW alt, RemoveAlt(p, alt)
  PROVE  /\ Steps /\ NodeCount' = NodeCount /\ (Ascending => Ascending')
         /\ \A n \in NodeIDs : Len(Kids'[n]) > 0 => Len(Kids[n]) > 0
<1> DEFINE d == RemoveChild(nodes[p + 1], alt)
           q == <<Kids[p][2 - alt]>>
<1>1. /\ filling.pid = NoNode /\ p \in NodeIDs /\ alt \in 0 .. ChildrenCount(nodes[p + 1]) - 1
      /\ nodes' = [nodes EXCEPT ![p + 1] = d] /\ filling' = filling
  BY DEF RemoveAlt, AtRest, KidsOf, NodeAt
<1>2. /\ Packed(nodes[p + 1]) /\ Kids[p] = KidSeq(nodes[p + 1])
      /\ Len(Kids[p]) = ChildrenCount(nodes[p + 1])
  BY <1>1, Facts
<1>3. CASE ChildrenCount(nodes[p + 1]) # 2
  <2>1. d = nodes[p + 1]
    BY <1>1, <1>2, <1>3, RemoveChildPacked
  <2>2. UNCHANGED <<nodes, filling>>
    <3>1. nodes' = nodes
      BY <1>1, <2>1, Facts
    <3> QED BY <1>1, <3>1
  <2>3. StructureInv'
    BY <2>2 DEF StructureInv, AllPacked, Kids, Parents, NodeCount, NodeIDs, NodeAt, ParentOf
  <2>4. Lists' = Lists /\ NodeCount' = NodeCount /\ Kids' = Kids /\ NodeIDs' = NodeIDs
    BY <2>2 DEF Lists, NodeCount, NodeIDs, Filled, Kids, KidsOf, NodeAt
  <2> QED BY <2>2, <2>3, <2>4 DEF Steps, Ascending
<1>4. CASE ChildrenCount(nodes[p + 1]) = 2
  <2>1. alt \in 0 .. 1 /\ Len(Kids[p]) = 2 /\ 2 - alt \in 1 .. 2
    BY <1>1, <1>2, <1>4
  <2>2. Packed(d) /\ d.parent = nodes[p + 1].parent /\ KidSeq(d) = q
    <3>1. Packed(d) /\ d.parent = nodes[p + 1].parent
      BY <1>1, <1>2, <1>4, RemoveChildPacked
    <3>2. KidSeq(d) = q
      BY <1>1, <1>2, <1>4, KidSeqRemove
    <3> QED BY <3>1, <3>2
  <2> HIDE DEF d
  <2>3. /\ nodes' \in Seq(NodeData) /\ AllPacked' /\ NodeCount' = NodeCount
        /\ Kids' = [Kids EXCEPT ![p] = q] /\ Parents' = Parents
    BY <1>1, <2>2, OneChanged
  <2>4. Sound(Kids, Parents, filling, NodeCount)
    BY DEF StructureInv
  <2>5. /\ NodeCount \in Nat /\ p \in 0 .. NodeCount - 1
        /\ Kids \in [0 .. NodeCount - 1 -> Seq(Int)] /\ filling \in [pid : Int, alt : Nat]
    BY <1>1, <2>4, Facts DEF Sound
  <2>6. Kids[p] \in Seq(Int)
    BY <2>5
  <2>7. q \in Seq(Int) /\ Len(q) = 1 /\ q[1] = Kids[p][2 - alt]
    <3>1. Kids[p][2 - alt] \in Int
      BY <2>1, <2>6, ElementOfSeq
    <3> QED BY <3>1
  <2> HIDE DEF q
  <2>8. Kids'[p] = q
    BY <2>3, <2>5
  <2>9. \A a : Held(Kids', filling', p, a) => a = 1
    <3>1. Len(Kids'[p]) = 1
      BY <2>7, <2>8
    <3>2. \A a : a \in 1 .. 1 => a = 1
      OBVIOUS
    <3> QED BY <3>1, <3>2, Zenon DEF Held
  <2>10. Sound(Kids', Parents, filling', NodeCount)
    <3>1. \A a : Held(Kids', filling', p, a) => \E b \in 1 .. Len(Kids[p]) : q[a] = Kids[p][b]
      BY <2>1, <2>7, <2>9
    <3>2. \A a, b : Held(Kids', filling', p, a) /\ Held(Kids', filling', p, b) /\ q[a] = q[b] => a = b
      BY <2>9
    <3>3. filling'.pid = NoNode /\ filling' \in [pid : Int, alt : Nat]
      BY <1>1, <2>5
    <3>4. Replaced(Kids, filling, Kids', filling', NodeCount, p, q)
      BY <1>1, <2>3, <2>5, <2>7, <3>1, <3>2, <3>3 DEF Replaced
    <3> QED BY <2>4, <3>4, SoundOne
  <2>11. StructureInv'
    BY <2>3, <2>10 DEF StructureInv
  <2>12. OneChange(Kids, filling, Kids', filling', NodeCount, p, q)
    BY <1>1, <2>3, <2>5 DEF OneChange
  <2> DEFINE one == OneList(Kids[p], filling, p)
             two == OneList(q, filling', p)
  <2>13. /\ Lists' = [Lists EXCEPT ![p + 1] = two]
         /\ p + 1 \in DOMAIN Lists /\ Lists[p + 1] = one
    BY <2>3, <2>11, <2>12, ListsChange
  <2>14. filling.pid # p
    BY <1>1, <2>5 DEF NoNode
  <2>15. Len(one) = 2 /\ one[2 - alt] = Kids[p][2 - alt]
    BY <2>1, <2>6, <2>14, OneListIs
  <2>16. two \in Seq(Int) /\ Len(two) = 1 /\ two[1] = q[1]
    BY <1>1, <2>7, <2>14, OneListIs
  <2> HIDE DEF one, two
  <2>17. two = <<one[2 - alt]>>
    <3>1. two = <<two[1]>>
      BY <2>16
    <3> QED BY <2>7, <2>15, <2>16, <3>1
  <2>18. alt + 1 \in 1 .. 2 /\ 3 - (alt + 1) = 2 - alt
    BY <2>1
  <2>19. Abstract!DropChild
    BY <2>13, <2>15, <2>17, <2>18 DEF Abstract!DropChild
  <2>20. NodeIDs' = NodeIDs /\ \A n \in NodeIDs : n # p => Kids'[n] = Kids[n]
    BY <2>3, <2>5 DEF NodeIDs
  <2>21. ASSUME Ascending PROVE Ascending'
    <3>1. ASSUME NEW n \in NodeIDs, NEW a, NEW b,
                 Held(Kids', filling', n, a), Held(Kids', filling', n, b), a < b
          PROVE  Kids'[n][a] < Kids'[n][b]
      <4>1. n # p
        BY <2>9, <3>1
      <4>2. Held(Kids, filling, n, a) /\ Held(Kids, filling, n, b)
        BY <1>1, <2>20, <3>1, <4>1 DEF Held
      <4> QED BY <2>20, <2>21, <3>1, <4>1, <4>2 DEF Ascending
    <3> QED BY <2>20, <3>1 DEF Ascending
  <2>22. \A n \in NodeIDs : Len(Kids'[n]) > 0 => Len(Kids[n]) > 0
    BY <2>1, <2>20
  <2> QED BY <2>3, <2>11, <2>19, <2>21, <2>22 DEF Steps, Abstract!Next
<1> QED BY <1>3, <1>4

LEMMA ChildStep ==
  ASSUME StructureInv, CreateChild
  PROVE  /\ Grows /\ NodeCount' = NodeCount + 1
         /\ Len(Kids'[NodeCount]) = 0
         /\ \A n \in NodeIDs : Len(Kids'[n]) = Len(Kids[n])
<1> DEFINE p == filling.pid
           l == filling.alt
           c == NodeCount
           d == SetChild(nodes[p + 1], c, l)
           e == NewNode(p, 0)
           size == Len(Kids[p])
<1>1. /\ p # NoNode
      /\ nodes' = Append([nodes EXCEPT ![p + 1] = d], e)
      /\ filling' = Fill(p, l + 1, ChildrenCount(nodes[p + 1]))
  BY DEF CreateChild, AtRest, KidsOf, NodeAt
<1>2. Sound(Kids, Parents, filling, c)
  BY DEF StructureInv
<1>3. /\ c \in Nat /\ p \in 0 .. c - 1 /\ p \in Int /\ l \in Nat /\ l < size
      /\ Kids \in [0 .. c - 1 -> Seq(Int)] /\ Parents \in [0 .. c - 1 -> Int]
  BY <1>1, <1>2 DEF Sound
<1>4. /\ nodes \in Seq(NodeData) /\ Len(nodes) = c /\ NodeIDs = 0 .. c - 1
      /\ p + 1 \in 1 .. c
      /\ Packed(nodes[p + 1]) /\ Kids[p] = KidSeq(nodes[p + 1])
      /\ size = ChildrenCount(nodes[p + 1]) /\ size \in Nat
  BY <1>3, Facts DEF NodeCount
<1>5. \A n \in 0 .. c - 1 : /\ n + 1 \in 1 .. c /\ Packed(nodes[n + 1])
                            /\ Kids[n] = KidSeq(nodes[n + 1]) /\ Parents[n] = nodes[n + 1].parent
  BY Facts DEF NodeCount
<1>6. /\ Packed(d) /\ d.parent = nodes[p + 1].parent
      /\ KidSeq(d) = [Kids[p] EXCEPT ![l + 1] = c]
  <2>1. c \in Int /\ l \in 0 .. ChildrenCount(nodes[p + 1]) - 1
    BY <1>3, <1>4
  <2>2. Packed(d) /\ d.parent = nodes[p + 1].parent
    BY <1>4, <2>1, SetChildPacked
  <2>3. KidSeq(d) = [KidSeq(nodes[p + 1]) EXCEPT ![l + 1] = c]
    BY <1>4, <2>1, KidSeqSet
  <2> QED BY <1>4, <2>2, <2>3
<1>7. Packed(e) /\ e.parent = p /\ KidSeq(e) = <<>>
  <2>1. Packed(e) /\ e.parent = p /\ KidSeq(e) \in Seq(Int) /\ Len(KidSeq(e)) = 0
    BY <1>3, NewNodePacked, KidSeqNew
  <2> QED BY <2>1, EmptySeq
<1> HIDE DEF p, l, c, d, e, size
<1>8. d \in NodeData /\ e \in NodeData
  BY <1>6, <1>7 DEF Packed
<1>9. /\ nodes' \in Seq(NodeData) /\ Len(nodes') = c + 1 /\ nodes'[c + 1] = e
      /\ \A n \in 0 .. c - 1 : nodes'[n + 1] = IF n = p THEN d ELSE nodes[n + 1]
  <2> DEFINE s == [nodes EXCEPT ![p + 1] = d]
  <2>1. s \in Seq(NodeData) /\ Len(s) = c
    BY <1>4, <1>8, ExceptSeq
  <2>2. \A n \in 0 .. c - 1 : n + 1 \in 1 .. c /\ (n + 1 = p + 1 <=> n = p)
    BY <1>3
  <2>3. \A n \in 0 .. c - 1 : s[n + 1] = IF n = p THEN d ELSE nodes[n + 1]
    <3>1. DOMAIN nodes = 1 .. c
      BY <1>4, LenProperties
    <3> QED BY <2>2, <3>1
  <2> HIDE DEF s
  <2>4. /\ Append(s, e) \in Seq(NodeData) /\ Len(Append(s, e)) = c + 1
        /\ Append(s, e)[c + 1] = e /\ \A i \in 1 .. c : Append(s, e)[i] = s[i]
    BY <1>8, <2>1, AppendProperties
  <2>5. nodes' = Append(s, e)
    BY <1>1 DEF s
  <2> QED BY <2>2, <2>3, <2>4, <2>5
<1>10. /\ NodeCount' = c + 1 /\ NodeIDs' = 0 .. c
       /\ \A n \in 0 .. c : n = c \/ n \in 0 .. c - 1
       /\ c \notin 0 .. c - 1 /\ p # c
  <2>1. (c + 1) - 1 = c
    BY <1>3
  <2>2. NodeCount' = c + 1
    BY <1>9 DEF NodeCount
  <2>3. /\ \A n \in 0 .. c : n = c \/ n \in 0 .. c - 1
        /\ c \notin 0 .. c - 1 /\ p # c
    BY <1>3
  <2>4. NodeIDs' = 0 .. c
    <3>1. NodeIDs' = 0 .. NodeCount' - 1
      BY DEF NodeIDs
    <3> QED BY <2>1, <2>2, <3>1, Zenon
  <2> QED BY <2>2, <2>3, <2>4, Zenon
<1>11. AllPacked'
  <2>1. \A n \in NodeIDs' : Packed(nodes'[n + 1])
    BY <1>5, <1>6, <1>7, <1>9, <1>10
  <2> QED BY <2>1 DEF AllPacked, NodeAt
<1>12. Kids' = [n \in 0 .. c |-> IF n = c THEN <<>>
                                 ELSE IF n = p THEN [Kids[n] EXCEPT ![l + 1] = c] ELSE Kids[n]]
  <2>1. Kids' = [n \in NodeIDs' |-> KidSeq(nodes'[n + 1])]
    BY DEF Kids, NodeAt
  <2>2. ASSUME NEW n \in 0 .. c
        PROVE  KidSeq(nodes'[n + 1]) = IF n = c THEN <<>>
                                       ELSE IF n = p THEN [Kids[n] EXCEPT ![l + 1] = c] ELSE Kids[n]
    <3>1. CASE n = c
      BY <1>7, <1>9, <3>1
    <3>2. CASE n # c
      <4>1. n \in 0 .. c - 1
        BY <1>10, <3>2
      <4> QED BY <1>5, <1>6, <1>9, <3>2, <4>1
    <3> QED BY <3>1, <3>2
  <2> QED BY <1>10, <2>1, <2>2
<1>13. Parents' = [n \in 0 .. c |-> IF n = c THEN p ELSE Parents[n]]
  <2>1. Parents' = [n \in NodeIDs' |-> nodes'[n + 1].parent]
    BY DEF Parents, ParentOf, NodeAt
  <2>2. ASSUME NEW n \in 0 .. c
        PROVE  nodes'[n + 1].parent = IF n = c THEN p ELSE Parents[n]
    <3>1. CASE n = c
      BY <1>7, <1>9, <3>1
    <3>2. CASE n # c
      <4>1. n \in 0 .. c - 1
        BY <1>10, <3>2
      <4> QED BY <1>5, <1>6, <1>9, <3>2, <4>1
    <3> QED BY <3>1, <3>2
  <2> QED BY <1>10, <2>1, <2>2
<1>14. Sound(Kids', Parents', filling', c + 1)
  <2>1. p = filling.pid /\ l = filling.alt
    BY DEF p, l
  <2>2. filling' = Fill(p, filling.alt + 1, Len(Kids[p]))
    BY <1>1, <1>4, <2>1 DEF size
  <2>3. Kids' = [n \in 0 .. c |-> IF n = c THEN <<>>
                                  ELSE IF n = p THEN [Kids[n] EXCEPT ![filling.alt + 1] = c]
                                  ELSE Kids[n]]
    BY <1>12, <2>1
  <2> QED BY <1>1, <1>2, <1>3, <1>13, <2>1, <2>2, <2>3, SoundChild
<1>15. StructureInv'
  BY <1>9, <1>10, <1>11, <1>14 DEF StructureInv
<1> DEFINE one == OneList(Kids[p], filling, p)
           two == OneList(Kids'[p], filling', p)
<1>16. /\ Lists = ListsIn(Kids, filling, c) /\ Lists' = ListsIn(Kids', filling', c + 1)
  BY <1>10, <1>15, ListsAre, ListsAreThen DEF c
<1>17. /\ Kids[p] \in Seq(Int) /\ l + 1 \in 1 .. size
       /\ Kids'[p] = [Kids[p] EXCEPT ![l + 1] = c] /\ Kids'[c] = <<>>
       /\ \A n \in 0 .. c - 1 : n # p => Kids'[n] = Kids[n]
  <2>1. Kids[p] \in Seq(Int) /\ l + 1 \in 1 .. size
    BY <1>3, <1>4
  <2>2. p \in 0 .. c /\ c \in 0 .. c /\ \A n \in 0 .. c - 1 : n \in 0 .. c /\ n # c
    BY <1>3
  <2> QED BY <1>10, <1>12, <2>1, <2>2
<1>18. /\ filling'.pid = p => filling'.alt = l + 1
       /\ filling'.pid # p => size = l + 1 /\ filling'.pid = NoNode
  <2>1. filling' = IF l + 1 < size THEN [pid |-> p, alt |-> l + 1] ELSE [pid |-> NoNode, alt |-> 0]
    BY <1>1, <1>4 DEF Fill, Nothing
  <2>2. ~ (l + 1 < size) => size = l + 1
    BY <1>3, <1>4
  <2> QED BY <1>1, <2>1, <2>2
<1>19. /\ Len(Kids[p]) = size /\ Kids'[p] \in Seq(Int) /\ Len(Kids'[p]) = size
       /\ \A a \in 1 .. size : Kids'[p][a] = IF a = l + 1 THEN c ELSE Kids[p][a]
  <2>1. Len(Kids[p]) = size /\ c \in Int
    BY <1>3 DEF size
  <2>2. DOMAIN Kids[p] = 1 .. size
    BY <1>17, <2>1, LenProperties
  <2> QED BY <1>17, <2>1, <2>2, ExceptSeq
<1>20. /\ one \in Seq(Int) /\ DOMAIN one = 1 .. size
       /\ \A a \in 1 .. size : one[a] = IF a <= l THEN Kids[p][a] ELSE Garbage
  <2>1. filling.pid = p /\ filling.alt = l
    BY DEF p, l
  <2>2. Kids[p] \in Seq(Int)
    BY <1>17
  <2>3. /\ one \in Seq(Int) /\ DOMAIN one = 1 .. Len(Kids[p])
        /\ \A a \in 1 .. Len(Kids[p]) : one[a] = IF filling.pid = p => a <= filling.alt
                                                 THEN Kids[p][a] ELSE Garbage
    BY <2>2, OneListIs
  <2> HIDE DEF one
  <2> QED BY <1>19, <2>1, <2>3
<1>21. /\ two \in Seq(Int) /\ DOMAIN two = 1 .. size
       /\ \A a \in 1 .. size : two[a] = IF filling'.pid = p => a <= filling'.alt
                                        THEN Kids'[p][a] ELSE Garbage
  BY <1>19, OneListIs
<1> HIDE DEF one, two
<1>22. \A a \in 1 .. size : two[a] = IF a = l + 1 THEN c ELSE one[a]
  <2>1. ASSUME NEW a \in 1 .. size PROVE two[a] = IF a = l + 1 THEN c ELSE one[a]
    <3>1. (filling'.pid = p => a <= filling'.alt) <=> a <= l + 1
      BY <1>3, <1>18
    <3>2. a <= l + 1 <=> (a = l + 1 \/ a <= l)
      BY <1>3
    <3>3. ~ (l + 1 <= l)
      BY <1>3
    <3> QED BY <1>19, <1>20, <1>21, <3>1, <3>2, <3>3
  <2> QED BY <2>1
<1>23. two = [one EXCEPT ![l + 1] = c]
  <2>1. two = [a \in 1 .. size |-> two[a]] /\ one = [a \in 1 .. size |-> one[a]]
    BY <1>20, <1>21
  <2> QED BY <1>17, <1>22, <2>1
<1>24. \A a \in 1 .. l : one[a] # Garbage
  <2>1. ASSUME NEW a \in 1 .. l PROVE one[a] # Garbage
    <3>1. a \in 1 .. size /\ a <= l
      BY <1>3, <1>4
    <3>2. Held(Kids, filling, p, a)
      BY <1>19, <3>1 DEF Held, p, l
    <3>3. \A n \in 0 .. c - 1 : \A b : Held(Kids, filling, n, b) => Kids[n][b] \in 1 .. c - 1
      BY <1>2 DEF Sound
    <3>4. Kids[p][a] \in 1 .. c - 1
      BY <1>3, <3>2, <3>3
    <3>5. Kids[p][a] # Garbage
      BY <1>3, <3>4 DEF Garbage
    <3> QED BY <1>20, <3>1, <3>5
  <2> QED BY <2>1
<1>25. one[l + 1] = Garbage
  <2>1. ~ (l + 1 <= l)
    BY <1>3
  <2> QED BY <1>17, <1>20, <2>1
<1>26. Abstract!FirstVacant(one, l + 1)
  <2>1. (l + 1) - 1 = l
    BY <1>3
  <2>2. l + 1 \in DOMAIN one
    BY <1>17, <1>20
  <2> QED BY <1>24, <1>25, <2>1, <2>2, Zenon DEF Abstract!FirstVacant
<1>27. /\ Len(Lists) = c /\ DOMAIN Lists = 1 .. c /\ p + 1 \in 1 .. c
       /\ Lists[p + 1] = one
       /\ \A n \in 0 .. c - 1 : n + 1 \in 1 .. c /\ Lists[n + 1] = OneList(Kids[n], filling, n)
  BY <1>3, <1>16, ListsInIs DEF one
<1>28. /\ DOMAIN Lists' = 1 .. c + 1 /\ Lists'[p + 1] = two /\ Lists'[c + 1] = <<>>
       /\ \A n \in 0 .. c - 1 : n # p => Lists'[n + 1] = Lists[n + 1]
  <2>1. /\ c + 1 \in Nat /\ c + 1 - 1 = c /\ p \in 0 .. c /\ c \in 0 .. c
        /\ \A n \in 0 .. c - 1 : n \in 0 .. c
    BY <1>3
  <2>2. /\ DOMAIN Lists' = 1 .. c + 1
        /\ \A n \in 0 .. c : Lists'[n + 1] = OneList(Kids'[n], filling', n)
    <3> DEFINE m == c + 1
    <3>1. m \in Nat /\ m - 1 = c /\ Lists' = ListsIn(Kids', filling', m)
      BY <1>16, <2>1
    <3> HIDE DEF m
    <3>2. /\ DOMAIN Lists' = 1 .. m
          /\ \A n \in 0 .. m - 1 : Lists'[n + 1] = OneList(Kids'[n], filling', n)
      BY <3>1, ListsInIs, Zenon
    <3>3. /\ DOMAIN Lists' = 1 .. m
          /\ \A n \in 0 .. c : Lists'[n + 1] = OneList(Kids'[n], filling', n)
      BY <3>1, <3>2, Zenon
    <3> QED BY <3>3 DEF m
  <2>3. Lists'[p + 1] = two
    BY <2>1, <2>2 DEF two
  <2>4. Lists'[c + 1] = <<>>
    <3>1. Lists'[c + 1] = OneList(<<>>, filling', c)
      BY <1>17, <2>1, <2>2
    <3>2. OneList(<<>>, filling', c) \in Seq(Int) /\ Len(OneList(<<>>, filling', c)) = 0
      BY EmptySeq, OneListIs
    <3> QED BY <3>1, <3>2, EmptySeq
  <2>5. ASSUME NEW n \in 0 .. c - 1, n # p PROVE Lists'[n + 1] = Lists[n + 1]
    <3>1. Lists'[n + 1] = OneList(Kids[n], filling', n) /\ Lists[n + 1] = OneList(Kids[n], filling, n)
      BY <1>17, <1>27, <2>1, <2>2, <2>5
    <3>2. filling'.pid # n /\ filling.pid # n
      BY <1>18, <2>5 DEF NoNode, p
    <3>3. OneList(Kids[n], filling', n) = OneList(Kids[n], filling, n)
      BY <3>2 DEF OneList
    <3> QED BY <3>1, <3>3
  <2> QED BY <2>2, <2>3, <2>4, <2>5
<1>29. Lists' = Append([Lists EXCEPT ![p + 1] = two], <<>>)
  <2> DEFINE s == [Lists EXCEPT ![p + 1] = two]
  <2>1. Len(s) = c /\ DOMAIN s = 1 .. c
    <3>1. DOMAIN s = 1 .. c
      BY <1>27
    <3> QED BY <1>3, <3>1
  <2>2. \A i \in 1 .. c : s[i] = IF i = p + 1 THEN two ELSE Lists[i]
    BY <1>27
  <2>3. \A i \in 1 .. c : Lists'[i] = s[i]
    <3>1. ASSUME NEW i \in 1 .. c PROVE Lists'[i] = s[i]
      <4>1. i - 1 \in 0 .. c - 1 /\ (i - 1) + 1 = i /\ (i - 1 = p <=> i = p + 1)
        BY <1>3
      <4>2. CASE i - 1 = p
        BY <1>28, <2>2, <4>1, <4>2
      <4>3. CASE i - 1 # p
        BY <1>28, <2>2, <4>1, <4>3
      <4> QED BY <4>2, <4>3
    <3> QED BY <3>1
  <2>8. s \in Seq(Seq(Int))
    <3>1. ASSUME NEW n \in 0 .. c - 1 PROVE Lists[n + 1] \in Seq(Int)
      <4>1. Kids[n] \in Seq(Int)
        BY <1>3
      <4>2. OneList(Kids[n], filling, n) \in Seq(Int)
        BY <4>1, OneListIs
      <4> QED BY <1>27, <4>2
    <3>2. \A i \in 1 .. c : i - 1 \in 0 .. c - 1 /\ (i - 1) + 1 = i
      BY <1>3
    <3>3. \A i \in 1 .. c : s[i] \in Seq(Int)
      BY <1>21, <2>2, <3>1, <3>2
    <3>4. s = [i \in 1 .. c |-> s[i]]
      BY <2>1, <1>27
    <3> HIDE DEF s
    <3>5. [i \in 1 .. c |-> s[i]] \in Seq(Seq(Int))
      BY <1>3, <3>3
    <3> QED BY <3>4, <3>5, Zenon
  <2> HIDE DEF s
  <2>4. Append(s, <<>>) = [i \in 1 .. c + 1 |-> IF i = c + 1 THEN <<>> ELSE s[i]]
    <3>1. <<>> \in Seq(Int)
      BY EmptySeq
    <3>2. /\ Append(s, <<>>) \in Seq(Seq(Int)) /\ Len(Append(s, <<>>)) = c + 1
          /\ \A i \in 1 .. c : Append(s, <<>>)[i] = s[i]
          /\ Append(s, <<>>)[c + 1] = <<>>
      BY <2>1, <2>8, <3>1, AppendProperties
    <3> DEFINE longer == Append(s, <<>>)
    <3> HIDE DEF longer
    <3>3. longer \in [1 .. c + 1 -> Seq(Int)]
      BY <3>2, LenProperties DEF longer
    <3>6. longer = [i \in 1 .. c + 1 |-> longer[i]]
      BY <3>3
    <3>4. Append(s, <<>>) = [i \in 1 .. c + 1 |-> Append(s, <<>>)[i]]
      BY <3>6, Zenon DEF longer
    <3>5. \A i \in 1 .. c + 1 : i # c + 1 => i \in 1 .. c
      BY <1>3
    <3> QED BY <3>2, <3>4, <3>5
  <2>5. Lists' = [i \in 1 .. c + 1 |-> Lists'[i]]
    BY <1>16, <1>28 DEF ListsIn
  <2>6. \A i \in 1 .. c + 1 : Lists'[i] = IF i = c + 1 THEN <<>> ELSE s[i]
    <3>1. \A i \in 1 .. c + 1 : i # c + 1 => i \in 1 .. c
      BY <1>3
    <3> QED BY <1>28, <2>3, <3>1
  <2>7. Lists' = Append(s, <<>>)
    BY <2>4, <2>5, <2>6
  <2> QED BY <2>7 DEF s
<1>30. Lists' = Append([Lists EXCEPT ![p + 1][l + 1] = Len(Lists)], <<>>)
  BY <1>23, <1>27, <1>29
<1>31. Abstract!FillPlace
  <2>1. p + 1 \in DOMAIN Lists /\ l + 1 \in DOMAIN Lists[p + 1]
    BY <1>17, <1>20, <1>27
  <2> QED BY <1>26, <1>27, <1>30, <2>1 DEF Abstract!FillPlace
<1>32. ASSUME NEW n \in NodeIDs' \ {Root} PROVE n \in NodeIDs \/ Placed(n)'
  <2>1. CASE n = c
    <3>1. Parents'[c] = p
      BY <1>3, <1>13
    <3>2. Held(Kids', filling', p, l + 1) /\ Kids'[p][l + 1] = c
      BY <1>3, <1>17, <1>18, <1>19 DEF Held
    <3> QED BY <2>1, <3>1, <3>2 DEF Placed
  <2>2. CASE n # c
    BY <1>4, <1>10, <2>2
  <2> QED BY <2>1, <2>2
<1>33. \A n \in 0 .. c - 1 : n \in NodeIDs' /\ Parents'[n] = Parents[n] /\ n # c
  <2>1. \A n \in 0 .. c - 1 : n \in 0 .. c /\ n # c
    BY <1>3
  <2> QED BY <1>10, <1>13, <2>1
<1>34. ASSUME NEW a
       PROVE  /\ Held(Kids, filling, p, a) <=> a \in 1 .. size /\ a <= l
              /\ Held(Kids', filling', p, a) <=> a \in 1 .. size /\ a <= l + 1
  <2>1. Held(Kids, filling, p, a) <=> a \in 1 .. size /\ a <= l
    BY <1>19 DEF Held, p, l
  <2>2. PICK k, f : k = Kids' /\ f = filling'
    OBVIOUS
  <2>3. Held(k, f, p, a) <=> a \in 1 .. size /\ (f.pid = p => a <= f.alt)
    BY <1>19, <2>2 DEF Held
  <2>4. (f.pid = p => f.alt = l + 1) /\ (f.pid # p => size = l + 1)
    BY <1>18, <2>2
  <2>5. a \in 1 .. size => a <= size
    BY <1>3
  <2>6. Held(k, f, p, a) <=> a \in 1 .. size /\ a <= l + 1
    BY <2>3, <2>4, <2>5
  <2>7. Held(Kids', filling', p, a) <=> a \in 1 .. size /\ a <= l + 1
    BY <2>2, <2>6, Zenon
  <2> QED BY <2>1, <2>7
<1>35. ASSUME NEW n \in 0 .. c - 1, n # p, NEW a
       PROVE  Held(Kids', filling', n, a) <=> Held(Kids, filling, n, a)
  <2>1. Kids'[n] = Kids[n] /\ filling'.pid # n /\ filling.pid # n
    BY <1>17, <1>18, <1>35 DEF NoNode, p
  <2> QED BY <2>1 DEF Held
<1>36. \A a \in 1 .. size : (a <= l => a <= l + 1 /\ a # l + 1) /\ (a <= l + 1 => a <= l \/ a = l + 1)
  BY <1>3
<1>37. KidsStay
  <2>1. ASSUME NEW n \in 0 .. c - 1, NEW a, Held(Kids, filling, n, a)
        PROVE  Held(Kids', filling', n, a) /\ Kids'[n][a] = Kids[n][a]
    <3>1. CASE n = p
      BY <1>19, <1>34, <1>36, <2>1, <3>1
    <3>2. CASE n # p
      BY <1>17, <1>35, <2>1, <3>2
    <3> QED BY <3>1, <3>2
  <2> QED BY <1>4, <1>33, <2>1 DEF KidsStay
<1>38. KidsCome
  <2>1. ASSUME NEW n \in 0 .. c, NEW a, Held(Kids', filling', n, a)
        PROVE  \/ n \in NodeIDs /\ Held(Kids, filling, n, a) /\ Kids'[n][a] = Kids[n][a]
               \/ Kids'[n][a] = c /\ \A b : Held(Kids', filling', n, b) => b <= a
    <3>1. CASE n = c
      <4>1. Len(Kids'[c]) = 0
        BY <1>17, EmptySeq
      <4> QED BY <2>1, <3>1, <4>1 DEF Held
    <3>2. CASE n = p
      <4>1. a \in 1 .. size /\ a <= l + 1
        BY <1>34, <2>1, <3>2
      <4>2. CASE a <= l
        BY <1>3, <1>4, <1>19, <1>34, <1>36, <3>2, <4>1, <4>2
      <4>3. CASE a = l + 1
        BY <1>19, <1>34, <3>2, <4>1, <4>3
      <4> QED BY <1>36, <4>1, <4>2, <4>3
    <3>3. CASE n # c /\ n # p
      BY <1>4, <1>10, <1>17, <1>35, <2>1, <3>3
    <3> QED BY <3>1, <3>2, <3>3
  <2> QED BY <1>10, <2>1 DEF KidsCome, c
<1>39. /\ Len(Kids'[c]) = 0
       /\ \A n \in NodeIDs : Len(Kids'[n]) = Len(Kids[n])
  BY <1>4, <1>17, <1>19, EmptySeq
<1> QED BY <1>10, <1>15, <1>31, <1>32, <1>37, <1>38, <1>39, KidsFollow DEF Grows, Steps, Abstract!Next, c

LEMMA StillStep ==
  ASSUME StructureInv, UNCHANGED structureVars
  PROVE  Grows /\ NodeCount' = NodeCount /\ Kids' = Kids
<1>1. UNCHANGED <<nodes, filling>>
  BY DEF structureVars
<1>2. StructureInv'
  BY <1>1 DEF StructureInv, AllPacked, Kids, Parents, NodeCount, NodeIDs, NodeAt, ParentOf
<1>3. Lists' = Lists
  BY <1>1 DEF Lists, NodeCount, Filled, KidsOf, NodeAt
<1>4. NodeIDs' = NodeIDs /\ NodeCount' = NodeCount /\ Kids' = Kids /\ Parents' = Parents
  BY <1>1 DEF Kids, Parents, NodeCount, NodeIDs, NodeAt, ParentOf
<1>5. KidsStay /\ KidsCome
  BY <1>1, <1>4 DEF KidsStay, KidsCome
<1> QED BY <1>2, <1>3, <1>4, <1>5, KidsFollow DEF Grows, Steps

-----------------------------------------------------------------------------
(* The theorems *)

LEMMA StructureStarts ==
  StructureInit => StructureInv /\ Abstract!Init
<1> SUFFICES ASSUME StructureInit PROVE StructureInv /\ Abstract!Init
  OBVIOUS
<1>1. nodes = <<>> /\ filling = [pid |-> NoNode, alt |-> 0]
  BY DEF StructureInit, Nothing
<1>2. nodes \in Seq(NodeData) /\ NodeCount = 0 /\ NodeIDs = {}
  <2>1. nodes \in Seq(NodeData) /\ NodeCount = 0
    BY <1>1, EmptySeq DEF NodeCount
  <2> QED BY <2>1 DEF NodeIDs
<1>3. Sound(Kids, Parents, filling, 0)
  <2>1. Kids = [n \in {} |-> KidSeq(NodeAt(n))] /\ Parents = [n \in {} |-> ParentOf(n)]
    BY <1>2 DEF Kids, Parents
  <2>2. 0 .. 0 - 1 = {} /\ NoNode \in Int /\ 0 \in Nat
    BY DEF NoNode
  <2>3. Kids \in [0 .. 0 - 1 -> Seq(Int)] /\ Parents \in [0 .. 0 - 1 -> Int]
    BY <2>1, <2>2
  <2>4. filling \in [pid : Int, alt : Nat] /\ filling.pid = NoNode
    BY <1>1, <2>2
  <2> QED BY <2>2, <2>3, <2>4 DEF Sound
<1>4. StructureInv
  BY <1>2, <1>3 DEF StructureInv, AllPacked
<1>5. Lists = <<>>
  BY <1>2 DEF Lists
<1> QED BY <1>4, <1>5 DEF Abstract!Init

LEMMA StructureSteps ==
  ASSUME StructureInv, [StructureNext]_structureVars
  PROVE  Steps
<1>1. CASE UNCHANGED structureVars
  BY <1>1, StillStep DEF Grows
<1>2. ASSUME NEW k \in 0 .. MaxKids, CreateRoot(k) PROVE Steps
  <2>1. k \in Nat
    BY StructureBounds
  <2> QED BY <1>2, <2>1, RootStep DEF Grows
<1>3. ASSUME NEW n, NEW k \in 1 .. MaxKids, AddChildren(n, k) PROVE Steps
  <2>1. k \in Nat
    BY StructureBounds
  <2> QED BY <1>3, <2>1, ChildrenStep DEF Grows
<1>4. ASSUME NEW n, AddExtraChild(n) PROVE Steps
  BY <1>4, ExtraStep DEF Grows
<1>5. ASSUME NEW n, NEW alt, RemoveAlt(n, alt) PROVE Steps
  BY <1>5, RemoveStep
<1>6. CASE CreateChild
  BY <1>6, ChildStep DEF Grows
<1> QED BY <1>1, <1>2, <1>3, <1>4, <1>5, <1>6 DEF StructureNext

LEMMA InvFaithful ==
  StructureInv => ChildrenFaithful
<1> SUFFICES ASSUME StructureInv PROVE ChildrenFaithful
  OBVIOUS
<1>1. Sound(Kids, Parents, filling, NodeCount)
  BY DEF StructureInv
<1>2. /\ NodeCount \in Nat /\ NodeIDs = 0 .. NodeCount - 1
      /\ filling \in [pid : Int, alt : Nat]
      /\ filling.pid = NoNode \/ (filling.pid \in 0 .. NodeCount - 1 /\ filling.alt < Len(Kids[filling.pid]))
  BY <1>1, Facts DEF Sound
<1>3. \A n \in NodeIDs : \A a : Held(Kids, filling, n, a) =>
        Kids[n][a] \in 1 .. NodeCount - 1 /\ Parents[Kids[n][a]] = n
  BY <1>1, <1>2 DEF Sound
<1>4. \A n \in NodeIDs : \A a, b :
        Held(Kids, filling, n, a) /\ Held(Kids, filling, n, b) /\ Kids[n][a] = Kids[n][b] => a = b
  BY <1>1, <1>2 DEF Sound
<1>5. ASSUME NEW n \in NodeIDs, NEW alt \in Filled(n)
      PROVE  /\ alt \in Int /\ Held(Kids, filling, n, alt + 1) /\ Kids[n][alt + 1] = ChildAt(n, alt)
  <2>1. /\ Packed(nodes[n + 1]) /\ Kids[n] = KidSeq(nodes[n + 1])
        /\ Len(Kids[n]) = KidsOf(n) /\ Len(Kids[n]) \in Nat
    BY Facts DEF KidsOf, NodeAt
  <2>2. filling.alt \in Nat /\ n # NoNode
    BY <1>2 DEF NoNode
  <2>3. IF filling.pid = n THEN alt \in 0 .. filling.alt - 1 ELSE alt \in 0 .. KidsOf(n) - 1
    BY DEF Filled
  <2>4. filling.pid = n => filling.alt < Len(Kids[n])
    BY <1>2, <2>2
  <2>5. alt \in Int /\ alt + 1 \in 1 .. Len(Kids[n]) /\ (filling.pid = n => alt + 1 <= filling.alt)
    BY <2>1, <2>2, <2>3, <2>4
  <2>6. Kids[n][alt + 1] = ChildAt(n, alt)
    <3>1. KidSeq(nodes[n + 1])[alt + 1] = GetChild(nodes[n + 1], (alt + 1) - 1)
      BY <2>1, <2>5, KidSeqIs DEF KidsOf, NodeAt
    <3>2. (alt + 1) - 1 = alt
      BY <2>5
    <3> QED BY <2>1, <3>1, <3>2 DEF ChildAt, NodeAt
  <2> QED BY <2>5, <2>6 DEF Held
<1>6. ASSUME NEW n \in NodeIDs, NEW alt \in Filled(n)
      PROVE  ChildAt(n, alt) \in NodeIDs \ {Root} /\ ParentOf(ChildAt(n, alt)) = n
  <2>1. ChildAt(n, alt) \in 1 .. NodeCount - 1 /\ Parents[ChildAt(n, alt)] = n
    BY <1>3, <1>5
  <2>2. ChildAt(n, alt) \in NodeIDs \ {Root}
    BY <1>2, <2>1 DEF Root
  <2> QED BY <2>1, <2>2 DEF Parents
<1>7. ASSUME NEW n \in NodeIDs, NEW a \in Filled(n), NEW b \in Filled(n), ChildAt(n, a) = ChildAt(n, b)
      PROVE  a = b
  <2>1. a \in Int /\ b \in Int /\ a + 1 = b + 1
    BY <1>4, <1>5, <1>7
  <2> QED BY <2>1
<1> QED BY <1>6, <1>7 DEF ChildrenFaithful

\* What a node of each of its four representations points to is kept by every
\* operation of tree::Structure, also between the children of one createRoot or
\* addChildren (structure.cpp:26-163).
THEOREM StructureInvariant == StructureSpec => []StructureInv
<1>1. StructureInv /\ [StructureNext]_structureVars => StructureInv'
  BY StructureSteps DEF Steps
<1>2. StructureInit => StructureInv
  BY StructureStarts
<1> QED BY <1>1, <1>2, PTL DEF StructureSpec

\* Whatever is created, added and removed, every filled place of a node reads
\* as a node whose parent it is, and no node is in two places, also after the
\* children of a node moved to an array (node.cpp:37-214).
THEOREM ChildrenAreFaithful == StructureSpec => []ChildrenFaithful
BY StructureInvariant, InvFaithful, PTL

\* The packed nodes implement lists of children (structure.cpp:26-163).
THEOREM PackedNodesAreLists == StructureSpec => ImplementsChildLists
<1>1. StructureInit => Abstract!Init
  BY StructureStarts
<1>2. StructureInv /\ [StructureNext]_structureVars => [Abstract!Next]_Lists
  BY StructureSteps DEF Steps
<1> QED BY <1>1, <1>2, StructureInvariant, PTL
     DEF StructureSpec, ImplementsChildLists, Abstract!Spec

-----------------------------------------------------------------------------
(* Pre-order *)

\* Of c nodes, node n has num[n] children kid[n][1], ...; every node comes after
\* its parent.
Family(c, num, kid, par) ==
  /\ c \in Nat
  /\ \A n \in 1 .. c - 1 : par[n] \in 0 .. n - 1
  /\ \A n \in 0 .. c - 1 :
       /\ num[n] \in Nat
       /\ \A a \in 1 .. num[n] : kid[n][a] \in n + 1 .. c - 1 /\ par[kid[n][a]] = n
       /\ \A a, b \in 1 .. num[n] : kid[n][a] = kid[n][b] => a = b

Walk(c, num, kid, walk) ==
  walk = [n \in 0 .. c - 1 |-> <<n>> \o FlattenSeq([a \in 1 .. num[n] |-> walk[kid[n][a]]])]

LEMMA WalkExists ==
  ASSUME NEW c, NEW num, NEW kid, NEW par, Family(c, num, kid, par)
  PROVE  \E walk : Walk(c, num, kid, walk)
<1> DEFINE Line(w, n) == <<n>> \o FlattenSeq([a \in 1 .. num[n] |-> w[kid[n][a]]])
           From(i, w) == w = [n \in 0 .. c - 1 |-> IF n >= i THEN Line(w, n) ELSE <<>>]
           S == {k \in Nat : k <= c => \E w : From(c - k, w)}
<1>1. c \in Nat /\ \A n \in 0 .. c - 1 : \A a \in 1 .. num[n] : kid[n][a] \in n + 1 .. c - 1
  BY DEF Family
<1>2. 0 \in S
  <2> DEFINE w == [n \in 0 .. c - 1 |-> <<>>]
  <2>1. \A n \in 0 .. c - 1 : ~(n >= c)
    BY <1>1
  <2> HIDE DEF Line
  <2>2. From(c, w)
    BY <2>1
  <2>3. c - 0 = c
    BY <1>1
  <2> HIDE DEF From, w
  <2> QED BY <2>2, <2>3
<1>3. ASSUME NEW k \in Nat, k \in S PROVE k + 1 \in S
  <2> SUFFICES ASSUME k + 1 <= c PROVE \E w : From(c - (k + 1), w)
    <3> HIDE DEF From
    <3> QED OBVIOUS
  <2>1. k <= c /\ c - (k + 1) \in 0 .. c - 1 /\ c - (k + 1) + 1 = c - k
    BY <1>1
  <2>2. PICK w : From(c - k, w)
    <3> HIDE DEF From
    <3> QED BY <1>3, <2>1
  <2> DEFINE m == c - (k + 1)
             more == Line(w, m)
             v == [n \in 0 .. c - 1 |-> IF n = m THEN more ELSE w[n]]
  <2>3. m \in 0 .. c - 1 /\ m + 1 = c - k
    BY <2>1
  <2> HIDE DEF m, more
  <2>4. ASSUME NEW n \in 0 .. c - 1, n >= m PROVE Line(v, n) = Line(w, n)
    <3>1. \A a \in 1 .. num[n] : kid[n][a] \in 0 .. c - 1 /\ kid[n][a] # m
      BY <1>1, <2>3, <2>4
    <3>2. [a \in 1 .. num[n] |-> v[kid[n][a]]] = [a \in 1 .. num[n] |-> w[kid[n][a]]]
      BY <3>1
    <3> HIDE DEF v
    <3> QED BY <3>2
  <2>5. ASSUME NEW n \in 0 .. c - 1 PROVE v[n] = IF n >= m THEN Line(v, n) ELSE <<>>
    <3>1. CASE n = m
      <4>1. v[n] = more /\ n >= m
        BY <2>3, <3>1
      <4> HIDE DEF v, Line
      <4> QED BY <2>4, <3>1, <4>1 DEF more
    <3>2. CASE n # m
      <4>1. v[n] = w[n] /\ (n >= m <=> n >= m + 1)
        BY <2>3, <3>2
      <4> HIDE DEF v, Line
      <4>2. w[n] = IF n >= m + 1 THEN Line(w, n) ELSE <<>>
        BY <2>2, <2>3
      <4> QED BY <2>4, <4>1, <4>2
    <3> QED BY <3>1, <3>2
  <2>6. v = [n \in 0 .. c - 1 |-> v[n]]
    OBVIOUS
  <2> HIDE DEF v, Line
  <2>7. From(m, v)
    BY <2>5, <2>6
  <2> HIDE DEF From
  <2> QED BY <2>7 DEF m
<1>4. \A k \in Nat : k \in S
  <2> HIDE DEF S
  <2> QED BY <1>2, <1>3, SetInduction
<1>5. PICK w : From(0, w)
  <2>1. c - c = 0
    BY <1>1
  <2> HIDE DEF From
  <2> QED BY <1>1, <1>4, <2>1
<1>6. \A n \in 0 .. c - 1 : n >= 0
  BY <1>1
<1> HIDE DEF Line
<1>7. w = [n \in 0 .. c - 1 |-> Line(w, n)]
  BY <1>5, <1>6
<1> QED BY <1>7 DEF Walk, Line

\* T is closed under children, and under parents up to n; all but n are in a
\* place of their parents.
Subtree(c, num, kid, par, n, T) ==
  /\ T \subseteq n .. c - 1 /\ n \in T
  /\ \A m \in T : m = n \/ (par[m] \in T /\ \E a \in 1 .. num[par[m]] : kid[par[m]][a] = m)
  /\ \A m \in T : \A a \in 1 .. num[m] : kid[m][a] \in T

\* The walk from each node lists its subtree, each node once.
LEMMA WalkLists ==
  ASSUME NEW c, NEW num, NEW kid, NEW par, Family(c, num, kid, par),
         NEW walk, Walk(c, num, kid, walk), NEW root \in 0 .. c - 1
  PROVE  \E T : Once(walk[root], T) /\ Subtree(c, num, kid, par, root, T)
<1> DEFINE Listed(n, T) == Once(walk[n], T) /\ Subtree(c, num, kid, par, n, T)
           S == {n \in 0 .. c - 1 : \E T : Listed(n, T)}
<1>1. /\ c \in Nat
      /\ \A n \in 1 .. c - 1 : par[n] \in 0 .. n - 1
      /\ \A n \in 0 .. c - 1 :
           /\ num[n] \in Nat
           /\ \A a \in 1 .. num[n] : kid[n][a] \in n + 1 .. c - 1 /\ par[kid[n][a]] = n
           /\ \A a, b \in 1 .. num[n] : kid[n][a] = kid[n][b] => a = b
  BY DEF Family
<1>2. ASSUME NEW n \in 0 .. c - 1, \A m \in n + 1 .. c - 1 : m \in S PROVE n \in S
  <2> DEFINE k == num[n]
             sets == [a \in 1 .. k |-> CHOOSE T : Listed(kid[n][a], T)]
             below == UNION {sets[a] : a \in 1 .. k}
             all == {n} \cup below
             seqs == [a \in 1 .. k |-> walk[kid[n][a]]]
  <2>1. /\ n \in Nat /\ k \in Nat
        /\ \A a \in 1 .. k : kid[n][a] \in n + 1 .. c - 1 /\ par[kid[n][a]] = n
        /\ \A a, b \in 1 .. k : kid[n][a] = kid[n][b] => a = b
    BY <1>1
  <2>2. ASSUME NEW a \in 1 .. k PROVE Listed(kid[n][a], sets[a])
    <3>1. kid[n][a] \in S
      BY <1>2, <2>1
    <3> HIDE DEF Listed
    <3>2. \E T : Listed(kid[n][a], T)
      BY <3>1
    <3>3. sets[a] = CHOOSE T : Listed(kid[n][a], T)
      OBVIOUS
    <3> HIDE DEF sets
    <3> QED BY <3>2, <3>3
  <2>3. walk[n] = <<n>> \o FlattenSeq(seqs)
    BY DEF Walk
  <2>4. seqs = [a \in 1 .. k |-> seqs[a]] /\ \A a \in 1 .. k : seqs[a] = walk[kid[n][a]]
    OBVIOUS
  <2> HIDE DEF k, sets, seqs
  <2>5. \A a \in 1 .. k : Once(seqs[a], sets[a]) /\ Subtree(c, num, kid, par, kid[n][a], sets[a])
    BY <2>2, <2>4
  <2>6. ASSUME NEW a \in 1 .. k
        PROVE  /\ sets[a] \subseteq kid[n][a] .. c - 1 /\ kid[n][a] \in sets[a]
               /\ \A m \in sets[a] : m \in n + 1 .. c - 1 /\ (m = kid[n][a] \/ par[m] \in sets[a])
               /\ \A m \in sets[a] : m = kid[n][a] \/ \E b \in 1 .. num[par[m]] : kid[par[m]][b] = m
               /\ \A m \in sets[a] : \A b \in 1 .. num[m] : kid[m][b] \in sets[a]
    <3>1. Subtree(c, num, kid, par, kid[n][a], sets[a])
      BY <2>5
    <3>2. /\ sets[a] \subseteq kid[n][a] .. c - 1 /\ kid[n][a] \in sets[a]
          /\ \A m \in sets[a] : m = kid[n][a] \/ par[m] \in sets[a]
          /\ \A m \in sets[a] : m = kid[n][a] \/ \E b \in 1 .. num[par[m]] : kid[par[m]][b] = m
          /\ \A m \in sets[a] : \A b \in 1 .. num[m] : kid[m][b] \in sets[a]
      BY <3>1 DEF Subtree
    <3>3. \A m \in kid[n][a] .. c - 1 : m \in n + 1 .. c - 1
      BY <1>1, <2>1
    <3> QED BY <3>2, <3>3
  <2>7. ASSUME NEW a \in 1 .. k, NEW b \in 1 .. k, a # b PROVE sets[a] \cap sets[b] = {}
    <3> SUFFICES ASSUME sets[a] \cap sets[b] # {} PROVE FALSE
      OBVIOUS
    <3>1. sets[a] \cap sets[b] \subseteq Nat
      <4>1. \A m \in n + 1 .. c - 1 : m \in Nat
        BY <2>1
      <4> QED BY <2>6, <4>1
    <3>2. PICK m \in sets[a] \cap sets[b] : \A x \in sets[a] \cap sets[b] : m <= x
      BY <3>1, LeastNumber
    <3>3. m \in n + 1 .. c - 1 /\ m \in 1 .. c - 1
      BY <2>1, <2>6
    <3>4. par[m] \in 0 .. m - 1
      BY <1>1, <3>3
    <3>5. ~(par[m] \in sets[a] /\ par[m] \in sets[b])
      <4>1. ~(m <= par[m])
        BY <3>3, <3>4
      <4> QED BY <3>2, <4>1
    <3>6. n \notin sets[a] /\ n \notin sets[b]
      <4>1. n \notin n + 1 .. c - 1
        BY <2>1
      <4> QED BY <2>6, <4>1
    <3>7. m = kid[n][a] => m # kid[n][b] /\ par[m] = n
      BY <2>1, <2>7
    <3>8. m = kid[n][b] => par[m] = n
      BY <2>1
    <3> QED BY <2>6, <3>5, <3>6, <3>7, <3>8
  <2>8. Once(FlattenSeq(seqs), below)
    <3>1. k \in Nat /\ \A a \in 1 .. k : Once(seqs[a], sets[a])
      BY <2>1, <2>5
    <3>2. \A a, b \in 1 .. k : a # b => sets[a] \cap sets[b] = {}
      BY <2>7
    <3>3. seqs = [a \in 1 .. k |-> seqs[a]]
      BY <2>4
    <3> HIDE DEF Listed
    <3> QED BY <3>1, <3>2, <3>3, OnceAll
  <2>9. n \notin below
    <3>1. n \notin n + 1 .. c - 1
      BY <2>1
    <3> QED BY <2>6, <3>1
  <2>10. Once(walk[n], all)
    <3>1. Once(<<n>>, {n}) /\ {n} \cap below = {}
      BY <2>9, OnceOne
    <3> HIDE DEF below
    <3> QED BY <2>3, <2>8, <3>1, OnceBoth
  <2>11. Subtree(c, num, kid, par, n, all)
    <3>1. all \subseteq n .. c - 1 /\ n \in all
      <4>1. \A m \in n + 1 .. c - 1 : m \in n .. c - 1
        BY <2>1
      <4>2. n \in n .. c - 1
        BY <1>1
      <4> QED BY <2>6, <4>1, <4>2
    <3>2. ASSUME NEW m \in all
          PROVE  m = n \/ (par[m] \in all /\ \E b \in 1 .. num[par[m]] : kid[par[m]][b] = m)
      <4>1. ASSUME NEW a \in 1 .. k, m \in sets[a]
            PROVE  par[m] \in all /\ \E b \in 1 .. num[par[m]] : kid[par[m]][b] = m
        <5>1. CASE m = kid[n][a]
          BY <2>1, <5>1 DEF k
        <5>2. CASE m # kid[n][a]
          BY <2>6, <4>1, <5>2
        <5> QED BY <5>1, <5>2
      <4> QED BY <4>1
    <3>3. ASSUME NEW m \in all, NEW b \in 1 .. num[m] PROVE kid[m][b] \in all
      <4>1. CASE m = n
        BY <2>6, <4>1 DEF k
      <4>2. CASE m \in below
        BY <2>6, <4>2
      <4> QED BY <4>1, <4>2
    <3> HIDE DEF all
    <3> QED BY <3>1, <3>2, <3>3 DEF Subtree
  <2> HIDE DEF all
  <2> QED BY <2>10, <2>11
<1>3. 0 .. c - 1 \subseteq S
  <2> HIDE DEF S
  <2> QED BY <1>1, <1>2, BackwardInduction
<1> QED BY <1>3

\* In s a node stands ahead of its children, and these in their order.
InOrder(num, kid, s) ==
  \A m \in ToSet(s) : \A a \in 1 .. num[m] :
    /\ Ahead(m, kid[m][a], s)
    /\ \A b \in 1 .. num[m] : a < b => Ahead(kid[m][a], kid[m][b], s)

LEMMA WalkInOrder ==
  ASSUME NEW c, NEW num, NEW kid, NEW par, Family(c, num, kid, par),
         NEW walk, Walk(c, num, kid, walk), NEW root \in 0 .. c - 1
  PROVE  InOrder(num, kid, walk[root])
<1> DEFINE S == {n \in 0 .. c - 1 : InOrder(num, kid, walk[n])}
           E == 0 .. c - 1
<1>1. /\ c \in Nat
      /\ \A n \in 0 .. c - 1 :
           /\ num[n] \in Nat
           /\ \A a \in 1 .. num[n] : kid[n][a] \in n + 1 .. c - 1
  BY DEF Family
<1>2. ASSUME NEW n \in 0 .. c - 1 PROVE walk[n] \in Seq(E) /\ n \in ToSet(walk[n])
  <2>1. PICK T : Once(walk[n], T) /\ Subtree(c, num, kid, par, n, T)
    BY WalkLists
  <2>2. T \subseteq n .. c - 1 /\ n \in T
    BY <2>1 DEF Subtree
  <2>3. T \subseteq E
    BY <2>2
  <2>4. walk[n] \in Seq(T) /\ \E i \in 1 .. Len(walk[n]) : walk[n][i] = n
    BY <2>1, <2>2 DEF Once
  <2>5. walk[n] \in Seq(E)
    <3> HIDE DEF E
    <3> QED BY <2>3, <2>4, SeqMonotonic
  <2> QED BY <2>4, <2>5, LenProperties DEF ToSet
<1> HIDE DEF E
<1>3. ASSUME NEW n \in 0 .. c - 1, \A m \in n + 1 .. c - 1 : m \in S PROVE n \in S
  <2> DEFINE k == num[n]
             seqs == [a \in 1 .. k |-> walk[kid[n][a]]]
             rest == FlattenSeq(seqs)
             one == <<n>>
  <2>1. walk[n] = one \o rest
    BY DEF Walk
  <2>2. /\ k \in Nat /\ \A a \in 1 .. k : kid[n][a] \in n + 1 .. c - 1
        /\ \A m \in n + 1 .. c - 1 : m \in 0 .. c - 1
    BY <1>1
  <2>3. seqs = [a \in 1 .. k |-> seqs[a]] /\ \A a \in 1 .. k : seqs[a] = walk[kid[n][a]]
    OBVIOUS
  <2>4. one \in Seq(E) /\ ToSet(one) = {n}
    <3>1. <<n>> \in Seq(E)
      BY DEF E
    <3>2. Len(<<n>>) = 1 /\ <<n>>[1] = n /\ 1 .. 1 = {1}
      OBVIOUS
    <3> QED BY <3>1, <3>2, LenProperties DEF ToSet
  <2> HIDE DEF k, seqs, rest, one
  <2>5. \A a \in 1 .. k : /\ seqs[a] \in Seq(E) /\ kid[n][a] \in ToSet(seqs[a])
                           /\ InOrder(num, kid, seqs[a])
    BY <1>2, <1>3, <2>2, <2>3
  <2>6. /\ rest \in Seq(E)
        /\ \A x \in ToSet(rest) : \E a \in 1 .. k : x \in ToSet(seqs[a])
        /\ \A a \in 1 .. k : /\ ToSet(seqs[a]) \subseteq ToSet(rest)
                              /\ \A x, y : Ahead(x, y, seqs[a]) => Ahead(x, y, rest)
        /\ \A a, b \in 1 .. k : a < b =>
              \A x \in ToSet(seqs[a]), y \in ToSet(seqs[b]) : Ahead(x, y, rest)
    <3>1. \A a \in 1 .. k : seqs[a] \in Seq(E)
      BY <2>5
    <3> QED BY <2>2, <2>3, <3>1, AheadAll DEF rest
  <2>7. /\ ToSet(walk[n]) = {n} \cup ToSet(rest)
        /\ \A x, y : Ahead(x, y, rest) \/ (x = n /\ y \in ToSet(rest)) => Ahead(x, y, walk[n])
    BY <2>1, <2>4, <2>6, AheadBoth
  <2>8. ASSUME NEW a \in 1 .. num[n]
        PROVE  /\ Ahead(n, kid[n][a], walk[n])
               /\ \A b \in 1 .. num[n] : a < b => Ahead(kid[n][a], kid[n][b], walk[n])
    <3>1. kid[n][a] \in ToSet(rest)
      BY <2>5, <2>6 DEF k
    <3>2. \A b \in 1 .. num[n] : a < b => Ahead(kid[n][a], kid[n][b], rest)
      BY <2>5, <2>6 DEF k
    <3> QED BY <2>7, <3>1, <3>2
  <2>9. ASSUME NEW m \in ToSet(rest), NEW a \in 1 .. num[m]
        PROVE  /\ Ahead(m, kid[m][a], walk[n])
               /\ \A b \in 1 .. num[m] : a < b => Ahead(kid[m][a], kid[m][b], walk[n])
    <3>1. PICK i \in 1 .. k : m \in ToSet(seqs[i])
      BY <2>6
    <3>2. /\ Ahead(m, kid[m][a], seqs[i])
          /\ \A b \in 1 .. num[m] : a < b => Ahead(kid[m][a], kid[m][b], seqs[i])
      BY <2>5, <3>1 DEF InOrder
    <3> QED BY <2>6, <2>7, <3>2
  <2>10. InOrder(num, kid, walk[n])
    BY <2>7, <2>8, <2>9 DEF InOrder
  <2> QED BY <2>10
<1>4. 0 .. c - 1 \subseteq S
  <2> HIDE DEF S
  <2> QED BY <1>1, <1>3, BackwardInduction
<1> QED BY <1>4

Nums == [n \in NodeIDs |-> KidsOf(n)]

\* At rest every place of a node holds a child.
LEMMA RestFacts ==
  ASSUME StructureInv, AtRest
  PROVE  /\ Family(NodeCount, Nums, Kids, Parents)
         /\ \A n \in NodeIDs :
              /\ KidsOf(n) \in Nat /\ Nums[n] = KidsOf(n)
              /\ Kids[n] = Children(n)
              /\ \A a : Held(Kids, filling, n, a) <=> a \in 1 .. KidsOf(n)
              /\ \A a \in 1 .. KidsOf(n) : Kids[n][a] = ChildAt(n, a - 1)
<1>1. Sound(Kids, Parents, filling, NodeCount)
  BY DEF StructureInv
<1>2. NodeCount \in Nat /\ NodeIDs = 0 .. NodeCount - 1
  BY Facts
<1>3. ASSUME NEW n \in NodeIDs
      PROVE  /\ KidsOf(n) \in Nat /\ Nums[n] = KidsOf(n)
             /\ Kids[n] = Children(n)
             /\ \A a : Held(Kids, filling, n, a) <=> a \in 1 .. KidsOf(n)
             /\ \A a \in 1 .. KidsOf(n) : Kids[n][a] = ChildAt(n, a - 1)
  <2>1. /\ Kids[n] = KidSeq(nodes[n + 1]) /\ n # NoNode
        /\ Len(Kids[n]) = KidsOf(n) /\ Len(Kids[n]) \in Nat
    BY Facts DEF KidsOf, NodeAt, NoNode
  <2>2. Kids[n] = Children(n)
    BY <2>1 DEF KidSeq, Children, ChildAt, KidsOf, NodeAt
  <2>3. \A a : Held(Kids, filling, n, a) <=> a \in 1 .. KidsOf(n)
    BY <2>1 DEF Held, AtRest
  <2> QED BY <2>1, <2>2, <2>3 DEF Nums, Children
<1>4. \A n \in 1 .. NodeCount - 1 : Parents[n] \in 0 .. n - 1
  <2> SUFFICES ASSUME NEW n \in 1 .. NodeCount - 1 PROVE Parents[n] \in 0 .. n - 1
    OBVIOUS
  <2>1. n \in 0 .. NodeCount - 1 /\ n # Root
    BY <1>2 DEF Root
  <2>2. Parents[n] \in 0 .. NodeCount - 1 /\ Parents[n] < n
    BY <1>1, <2>1 DEF Sound
  <2> QED BY <1>2, <2>2
<1>5. ASSUME NEW n \in 0 .. NodeCount - 1
      PROVE  /\ Nums[n] \in Nat
             /\ \A a \in 1 .. Nums[n] : Kids[n][a] \in n + 1 .. NodeCount - 1 /\ Parents[Kids[n][a]] = n
             /\ \A a, b \in 1 .. Nums[n] : Kids[n][a] = Kids[n][b] => a = b
  <2>1. /\ \A a : Held(Kids, filling, n, a) =>
             Kids[n][a] \in 1 .. NodeCount - 1 /\ Parents[Kids[n][a]] = n
        /\ \A a, b : Held(Kids, filling, n, a) /\ Held(Kids, filling, n, b) /\ Kids[n][a] = Kids[n][b]
             => a = b
    BY <1>1 DEF Sound
  <2>2. /\ Nums[n] = KidsOf(n) /\ KidsOf(n) \in Nat
        /\ \A a : Held(Kids, filling, n, a) <=> a \in 1 .. KidsOf(n)
    BY <1>2, <1>3
  <2>3. ASSUME NEW a \in 1 .. Nums[n]
        PROVE  Kids[n][a] \in n + 1 .. NodeCount - 1 /\ Parents[Kids[n][a]] = n
    <3>1. Kids[n][a] \in 1 .. NodeCount - 1 /\ Parents[Kids[n][a]] = n
      BY <2>1, <2>2
    <3>2. n \in 0 .. Kids[n][a] - 1
      BY <1>4, <3>1
    <3> QED BY <1>2, <3>1, <3>2
  <2> QED BY <2>1, <2>2, <2>3
<1>6. Family(NodeCount, Nums, Kids, Parents)
  BY <1>2, <1>4, <1>5 DEF Family
<1> QED BY <1>3, <1>6

\* utils::pre_order lists nodes once, from the root on, each before its children
\* and these in their order; all of them, if none was removed.
LEMMA PreOrderLists ==
  ASSUME StructureInv, AtRest, nodes # <<>>
  PROVE  \E T : /\ Once(PreOrder, T) /\ PreOrder[1] = Root
                /\ T \subseteq NodeIDs
                /\ AllPlaced => T = NodeIDs
                /\ Subtree(NodeCount, Nums, Kids, Parents, Root, T)
                /\ InOrder(Nums, Kids, PreOrder)
<1>1. /\ NodeCount \in Nat /\ NodeIDs = 0 .. NodeCount - 1
      /\ Root \in 0 .. NodeCount - 1
  <2>1. NodeCount # 0
    BY EmptySeq DEF StructureInv, NodeCount
  <2> QED BY <2>1, Facts DEF Root
<1> DEFINE Visits(B) ==
             B = [n \in NodeIDs |-> <<n>> \o FlattenSeq([a \in 1 .. KidsOf(n) |-> B[ChildAt(n, a - 1)]])]
<1>2. PreOrder = (CHOOSE B : Visits(B))[Root]
  BY DEF PreOrder
<1>3. ASSUME NEW B PROVE Visits(B) <=> Walk(NodeCount, Nums, Kids, B)
  <2>1. \A n \in NodeIDs : /\ Nums[n] = KidsOf(n)
                           /\ \A a \in 1 .. KidsOf(n) : Kids[n][a] = ChildAt(n, a - 1)
    BY RestFacts
  <2>2. \A n \in NodeIDs : [a \in 1 .. KidsOf(n) |-> B[ChildAt(n, a - 1)]]
                             = [a \in 1 .. Nums[n] |-> B[Kids[n][a]]]
    BY <2>1
  <2>3. [n \in NodeIDs |-> <<n>> \o FlattenSeq([a \in 1 .. KidsOf(n) |-> B[ChildAt(n, a - 1)]])]
          = [n \in 0 .. NodeCount - 1 |-> <<n>> \o FlattenSeq([a \in 1 .. Nums[n] |-> B[Kids[n][a]]])]
    BY <1>1, <2>2
  <2> QED BY <2>3 DEF Walk
<1> DEFINE walk == CHOOSE B : Visits(B)
<1>4. Walk(NodeCount, Nums, Kids, walk)
  <2>1. \E B : Walk(NodeCount, Nums, Kids, B)
    BY RestFacts, WalkExists
  <2>2. \E B : Visits(B)
    <3> HIDE DEF Visits
    <3> QED BY <1>3, <2>1
  <2>3. Visits(walk)
    <3> HIDE DEF Visits
    <3> QED BY <2>2
  <2> HIDE DEF walk, Visits
  <2> QED BY <1>3, <2>3
<1> HIDE DEF walk
<1>5. PICK T : Once(walk[Root], T) /\ Subtree(NodeCount, Nums, Kids, Parents, Root, T)
  BY <1>1, <1>4, RestFacts, WalkLists
<1>6. /\ T \subseteq Root .. NodeCount - 1 /\ Root \in T
      /\ \A m \in T : \A a \in 1 .. Nums[m] : Kids[m][a] \in T
  BY <1>5 DEF Subtree
<1>7. T \subseteq NodeIDs
  BY <1>1, <1>6 DEF Root
<1>8. ASSUME AllPlaced PROVE T = NodeIDs
  <2>1. ASSUME NEW n \in 0 .. NodeCount - 1, \A m \in 0 .. n - 1 : m \in T PROVE n \in T
    <3>1. CASE n = Root
      BY <1>6, <3>1
    <3>2. CASE n # Root
      <4>1. PICK a : Held(Kids, filling, Parents[n], a) /\ Kids[Parents[n]][a] = n
        BY <1>1, <1>8, <3>2 DEF AllPlaced, Placed
      <4>2. n \in 1 .. NodeCount - 1
        BY <3>2 DEF Root
      <4>3. Parents[n] \in 0 .. n - 1
        BY <4>2, RestFacts DEF Family
      <4>4. Parents[n] \in NodeIDs /\ Parents[n] \in T
        BY <1>1, <2>1, <4>2, <4>3
      <4>5. a \in 1 .. Nums[Parents[n]]
        BY <4>1, <4>4, RestFacts
      <4> QED BY <1>6, <4>1, <4>4, <4>5
    <3> QED BY <3>1, <3>2
  <2>2. 0 .. NodeCount - 1 \subseteq T
    BY <1>1, <2>1, StrongInduction
  <2> QED BY <1>1, <1>7, <2>2
<1>9. PreOrder = walk[Root]
  BY <1>2 DEF walk
<1>10. InOrder(Nums, Kids, PreOrder)
  BY <1>1, <1>4, <1>9, RestFacts, WalkInOrder
<1>11. PreOrder[1] = Root
  <2> DEFINE seqs == [a \in 1 .. Nums[Root] |-> walk[Kids[Root][a]]]
             rest == FlattenSeq(seqs)
  <2>1. PreOrder = <<Root>> \o rest
    BY <1>1, <1>4, <1>9 DEF Walk
  <2>2. \A a \in 1 .. Nums[Root] : seqs[a] \in Seq(Int)
    <3>1. ASSUME NEW a \in 1 .. Nums[Root] PROVE walk[Kids[Root][a]] \in Seq(Int)
      <4>1. Kids[Root][a] \in T
        BY <1>6, <3>1
      <4>2. Kids[Root][a] \in 0 .. NodeCount - 1
        BY <1>1, <1>7, <4>1
      <4>3. PICK U : Once(walk[Kids[Root][a]], U) /\ Subtree(NodeCount, Nums, Kids, Parents, Kids[Root][a], U)
        BY <1>4, <4>2, RestFacts, WalkLists
      <4>4. U \subseteq Int /\ walk[Kids[Root][a]] \in Seq(U)
        BY <1>1, <4>2, <4>3 DEF Once, Subtree
      <4> QED BY <4>4, SeqMonotonic
    <3> QED BY <3>1
  <2>3. Nums[Root] \in Nat
    BY <1>1, RestFacts DEF Family
  <2>4. seqs = [a \in 1 .. Nums[Root] |-> seqs[a]]
    OBVIOUS
  <2> HIDE DEF seqs
  <2>5. rest \in Seq(Int)
    BY <2>2, <2>3, <2>4, AheadAll
  <2> HIDE DEF rest
  <2>6. <<Root>> \in Seq(Int)
    BY DEF Root
  <2> QED BY <2>1, <2>5, <2>6, ConcatProperties
<1> QED BY <1>5, <1>7, <1>8, <1>9, <1>10, <1>11

-----------------------------------------------------------------------------
(* The tree *)

LEMMA StepsOfTheTree ==
  ASSUME StructureInv, [DatabaseNext]_vars
  PROVE  Steps
<1>1. CASE UNCHANGED structureVars
  BY <1>1, StillStep DEF Grows
<1>2. ASSUME NEW k \in 0 .. MaxKids, Start(k) PROVE Steps
  <2>1. k \in Nat /\ CreateRoot(k)
    BY <1>2, StructureBounds DEF Start
  <2> QED BY <2>1, RootStep DEF Grows
<1>3. ASSUME NEW n \in NodeIDs, NEW k \in 0 .. MaxKids, NEW st, Promote(n, k, st) PROVE Steps
  <2>1. k \in Nat /\ (AddChildren(n, k) \/ UNCHANGED structureVars)
    BY <1>3, StructureBounds DEF Promote
  <2> QED BY <1>1, <2>1, ChildrenStep DEF Grows
<1>4. CASE NewRestart
  BY <1>4, ExtraStep DEF NewRestart, Grows
<1>5. CASE CreateKid
  BY <1>5, ChildStep DEF CreateKid, Grows
<1>6. ASSUME NEW n, RemoveNode(n) PROVE Steps
  BY <1>6, RemoveStep DEF RemoveNode
<1>7. ASSUME NEW n, ToggleBookmark(n) PROVE Steps
  BY <1>1, <1>7 DEF ToggleBookmark
<1>8. CASE \/ FinishBuilding \/ BeginSave \/ SaveRow(TRUE) \/ SaveRow(FALSE) \/ SaveTable \/ Crash
           \/ BeginLoad \/ LoadRow \/ LoadTables
  BY <1>1, <1>8 DEF FinishBuilding, BeginSave, SaveRow, SaveTable, Crash, BeginLoad, LoadRow, LoadTables
<1> QED BY <1>1, <1>2, <1>3, <1>4, <1>5, <1>6, <1>7, <1>8 DEF DatabaseNext, vars

-----------------------------------------------------------------------------
(* The invariant *)

Apps == {"idle", "saving", "saved", "crashed", "loading", "loaded", "aborted"}

\* There is a status for every node; notes are about nodes.
BesideKept ==
  /\ status \in Seq(Statuses) /\ Len(status) = NodeCount
  /\ notes \in [TableNames -> SUBSET NodeIDs]
  /\ building \in BOOLEAN /\ app \in Apps

\* A save goes through nodes, each once.
SaveKept ==
  /\ save = [order |-> save.order, next |-> save.next, batch |-> save.batch,
             table |-> save.table, failed |-> save.failed, grows |-> save.grows]
  /\ Once(save.order, ToSet(save.order)) /\ ToSet(save.order) \subseteq NodeIDs
  /\ save.next \in 1 .. Len(save.order) + 1
  /\ save.table \in 1 .. 4 /\ (app = "saving" => save.table <= 3)
  /\ save.failed \in BOOLEAN
  /\ app = "idle" => save = NoSave

Rows == file.rows \cup save.batch
Given == {save.order[i] : i \in 1 .. save.next - 1}

\* The rows written are those of nodes whose turn has come, one for each; of
\* all of them if no insert failed and the program runs on.
RowsKept ==
  /\ file = [rows |-> file.rows, notes |-> file.notes]
  /\ IsFiniteSet(Rows)
  /\ \A r \in Rows : r.nid \in Given /\ r.status \in Statuses
  /\ \A r, q \in Rows : r.nid = q.nid => r = q
  /\ app # "saving" => save.batch = {}
  /\ app = "saved" => RowsDone
  /\ app \in {"saving", "saved"} /\ ~save.failed => \A n \in Given : \E r \in Rows : r.nid = n

\* Unless a node was removed, which happens after building, a save goes
\* through the first nodes of nodes_, if not through all.
OrderKept ==
  /\ building => AllPlaced
  /\ ~building => AtRest
  /\ AllPlaced => \E c \in Nat : ToSet(save.order) = 0 .. c - 1

\* The rows loaded are those of the first ids.
CopyKept ==
  /\ copy = [nodes |-> copy.nodes, status |-> copy.status, open |-> copy.open,
             solved |-> copy.solved, notes |-> copy.notes, todo |-> copy.todo]
  /\ copy.status \in Seq(Statuses)
  /\ app \in {"loading", "loaded"} =>
       /\ copy.todo \subseteq file.rows
       /\ {r.nid : r \in file.rows \ copy.todo} = 0 .. Len(copy.status) - 1
  /\ app = "loaded" => copy.todo = {}
  /\ app = "aborted" /\ save.order # <<>> => ~Numbered(NodesSaved)

DatabaseInv ==
  StructureInv /\ BesideKept /\ SaveKept /\ RowsKept /\ OrderKept /\ CopyKept

-----------------------------------------------------------------------------
(* The steps that leave the file alone *)

LEMMA Counted ==
  ASSUME StructureInv, StructureInv'
  PROVE  /\ NodeCount \in Nat /\ NodeCount' \in Nat
         /\ NodeIDs = 0 .. NodeCount - 1 /\ NodeIDs' = 0 .. NodeCount' - 1
         /\ NodeCount <= NodeCount' => NodeIDs \subseteq NodeIDs'
<1>1. NodeCount \in Nat /\ NodeCount' \in Nat
  BY DEF StructureInv, Sound
<1>2. NodeIDs = 0 .. NodeCount - 1 /\ NodeIDs' = 0 .. NodeCount' - 1
  BY DEF NodeIDs
<1>3. ASSUME NodeCount <= NodeCount' PROVE NodeIDs \subseteq NodeIDs'
  <2> DEFINE c == NodeCount
             e == NodeCount'
  <2>1. c \in Nat /\ e \in Nat /\ c <= e
    BY <1>1, <1>3
  <2> HIDE DEF c, e
  <2>2. 0 .. c - 1 \subseteq 0 .. e - 1
    BY <2>1
  <2> QED BY <1>2, <2>2 DEF c, e
<1> QED BY <1>1, <1>2, <1>3

LEMMA FileStays ==
  ASSUME DatabaseInv, StructureInv', NodeCount <= NodeCount', UNCHANGED <<app, save, file, copy>>
  PROVE  SaveKept' /\ RowsKept' /\ CopyKept'
<1>1. NodeIDs \subseteq NodeIDs'
  BY Counted DEF DatabaseInv
<1>2. SaveKept'
  BY <1>1 DEF DatabaseInv, SaveKept
<1>3. RowsKept'
  BY DEF DatabaseInv, RowsKept, Rows, Given, RowsDone
<1>4. CopyKept'
  BY DEF DatabaseInv, CopyKept, NodesSaved
<1> QED BY <1>2, <1>3, <1>4

\* Something the builder does.
LEMMA TreeGrows ==
  ASSUME DatabaseInv, Grows, NodeCount <= NodeCount', BesideKept', building, building',
         UNCHANGED <<app, save, file, copy>>
  PROVE  DatabaseInv'
<1>1. StructureInv' /\ AllPlaced /\ AllPlaced'
  BY DEF DatabaseInv, OrderKept, Grows, Steps
<1>2. OrderKept'
  BY <1>1 DEF DatabaseInv, OrderKept
<1> QED BY <1>1, <1>2, FileStays DEF DatabaseInv

LEMMA TreeStays ==
  ASSUME DatabaseInv, UNCHANGED structureVars
  PROVE  /\ StructureInv' /\ NodeCount' = NodeCount /\ NodeIDs' = NodeIDs
         /\ (AllPlaced <=> AllPlaced') /\ (AtRest <=> AtRest')
         /\ NodeCount <= NodeCount'
<1>1. StructureInv' /\ NodeCount' = NodeCount
  BY StillStep DEF DatabaseInv, Grows, Steps
<1>2. UNCHANGED <<nodes, filling>>
  BY DEF structureVars
<1>3. AllPlaced <=> AllPlaced'
  BY <1>2 DEF AllPlaced, Placed, Held, Kids, Parents, NodeCount, NodeIDs, NodeAt, ParentOf
<1> QED BY <1>1, <1>2, <1>3, Counted DEF DatabaseInv, NodeIDs, AtRest

LEMMA StartKept ==
  ASSUME DatabaseInv, NEW k \in 0 .. MaxKids, Start(k)
  PROVE  DatabaseInv'
<1>1. k \in Nat /\ CreateRoot(k) /\ building /\ building' /\ nodes = <<>>
  BY StructureBounds DEF Start, BuilderRuns, CreateRoot
<1>2. Grows
  BY <1>1, RootStep DEF DatabaseInv
<1>3. NodeCount = 0 /\ NodeCount' = 1
  BY <1>1, EmptySeq DEF CreateRoot, NodeCount
<1>4. BesideKept'
  <2>1. status' = <<"BRANCH">> /\ notes' = notes /\ app' = app
    BY DEF Start
  <2>2. NodeIDs \subseteq NodeIDs'
    BY <1>2, <1>3, Counted DEF DatabaseInv, Grows, Steps
  <2>3. notes' \in [TableNames -> SUBSET NodeIDs']
    BY <2>1, <2>2 DEF DatabaseInv, BesideKept
  <2>4. status' \in Seq(Statuses) /\ Len(status') = 1
    BY <2>1 DEF Statuses
  <2> QED BY <1>1, <1>3, <2>1, <2>3, <2>4 DEF DatabaseInv, BesideKept
<1> QED BY <1>1, <1>2, <1>3, <1>4, TreeGrows DEF Start

LEMMA PromoteKept ==
  ASSUME DatabaseInv, NEW n \in NodeIDs, NEW k \in 0 .. MaxKids, NEW st \in Reported, Promote(n, k, st)
  PROVE  DatabaseInv'
<1>1. k \in Nat /\ building /\ building'
  BY StructureBounds DEF Promote, BuilderRuns
<1>2. Grows /\ NodeCount' = NodeCount
  <2>1. CASE UNCHANGED structureVars
    BY <2>1, StillStep DEF DatabaseInv
  <2>2. CASE AddChildren(n, k)
    <3>1. NodeCount' = NodeCount
      BY <2>2, ExceptSeq, Facts DEF DatabaseInv, AddChildren, NodeCount
    <3> QED BY <1>1, <2>2, <3>1, ChildrenStep DEF DatabaseInv
  <2> QED BY <2>1, <2>2 DEF Promote
<1>3. /\ NodeCount \in Nat /\ NodeIDs = 0 .. NodeCount - 1 /\ NodeIDs' = NodeIDs
      /\ NodeCount <= NodeCount'
  BY <1>2, Counted DEF DatabaseInv, Grows, Steps
<1>4. BesideKept'
  <2>1. status \in Seq(Statuses) /\ Len(status) = NodeCount /\ notes \in [TableNames -> SUBSET NodeIDs]
    BY DEF DatabaseInv, BesideKept
  <2>2. st \in Statuses /\ n + 1 \in 1 .. Len(status)
    BY <1>3, <2>1, DatabaseBounds
  <2>3. status' \in Seq(Statuses) /\ Len(status') = Len(status)
    BY <2>1, <2>2, ExceptSeq DEF Promote
  <2>4. notes' \in [TableNames -> SUBSET NodeIDs']
    BY <1>3, <2>1 DEF Promote
  <2> QED BY <1>1, <1>2, <2>1, <2>3, <2>4 DEF Promote, DatabaseInv, BesideKept
<1> QED BY <1>1, <1>2, <1>3, <1>4, TreeGrows DEF Promote

LEMMA NewRestartKept ==
  ASSUME DatabaseInv, NewRestart
  PROVE  DatabaseInv'
<1>1. /\ AddExtraChild(Root) /\ building
      /\ UNCHANGED <<restarts, status, notes, building, app, save, file, copy>>
  BY DEF NewRestart, BuilderRuns, databaseVars
<1>2. Grows
  BY <1>1, ExtraStep DEF DatabaseInv
<1>3. NodeCount' = NodeCount
  <2>1. nodes \in Seq(NodeData) /\ nodes' = [nodes EXCEPT ![Root + 1] = AddChild(@)]
    BY <1>1, Facts DEF DatabaseInv, AddExtraChild
  <2>2. Root + 1 \in 1 .. Len(nodes) /\ Len(nodes) \in Nat
    BY <1>1, Facts DEF DatabaseInv, AddExtraChild, NodeCount
  <2>3. DOMAIN nodes' = DOMAIN nodes /\ DOMAIN nodes = 1 .. Len(nodes)
    BY <2>1, LenProperties
  <2>4. nodes' \in Seq(NodeData')
    BY <1>2 DEF Grows, Steps, StructureInv
  <2>5. DOMAIN nodes' = 1 .. Len(nodes') /\ Len(nodes') \in Nat
    BY <2>4, LenProperties
  <2> QED BY <2>2, <2>3, <2>5 DEF NodeCount
<1>4. NodeIDs' = NodeIDs /\ NodeCount <= NodeCount'
  BY <1>2, <1>3, Counted DEF DatabaseInv, Grows, Steps
<1>5. BesideKept'
  BY <1>1, <1>3, <1>4 DEF DatabaseInv, BesideKept
<1> QED BY <1>1, <1>2, <1>4, <1>5, TreeGrows

LEMMA CreateKidKept ==
  ASSUME DatabaseInv, CreateKid
  PROVE  DatabaseInv'
<1>1. /\ CreateChild /\ ~AtRest
      /\ status' = Append(status, "UNDETERMINED")
      /\ UNCHANGED <<restarts, notes, building, app, save, file, copy>>
  BY DEF CreateKid, CreateChild
<1>2. building /\ building'
  BY <1>1 DEF DatabaseInv, OrderKept
<1>3. Grows /\ NodeCount' = NodeCount + 1
  BY <1>1, ChildStep DEF DatabaseInv
<1>4. NodeIDs \subseteq NodeIDs' /\ NodeCount <= NodeCount'
  <2>1. NodeCount <= NodeCount'
    BY <1>3, Counted DEF DatabaseInv, Grows, Steps
  <2> QED BY <1>3, <2>1, Counted DEF DatabaseInv, Grows, Steps
<1>5. BesideKept'
  <2>1. status' \in Seq(Statuses) /\ Len(status') = Len(status) + 1
    BY <1>1, AppendProperties DEF DatabaseInv, BesideKept, Statuses
  <2>2. notes' \in [TableNames -> SUBSET NodeIDs']
    BY <1>1, <1>4 DEF DatabaseInv, BesideKept
  <2> QED BY <1>1, <1>2, <1>3, <2>1, <2>2 DEF DatabaseInv, BesideKept
<1> QED BY <1>1, <1>2, <1>3, <1>4, <1>5, TreeGrows

LEMMA FinishBuildingKept ==
  ASSUME DatabaseInv, FinishBuilding
  PROVE  DatabaseInv'
<1>1. /\ AtRest /\ building' = FALSE
      /\ UNCHANGED <<structureVars, restarts, status, notes, app, save, file, copy>>
  BY DEF FinishBuilding, BuilderRuns
<1>2. OrderKept' /\ BesideKept'
  BY <1>1, TreeStays DEF DatabaseInv, OrderKept, BesideKept
<1> QED BY <1>1, <1>2, TreeStays, FileStays DEF DatabaseInv

LEMMA ToggleBookmarkKept ==
  ASSUME DatabaseInv, NEW n, ToggleBookmark(n)
  PROVE  DatabaseInv'
<1>1. /\ n \in NodeIDs /\ notes' = [notes EXCEPT !["Bookmarks"] = SymDiff(@, {n})]
      /\ UNCHANGED <<structureVars, restarts, status, building, app, save, file, copy>>
  BY DEF ToggleBookmark
<1>2. notes' \in [TableNames -> SUBSET NodeIDs]
  <2>1. notes \in [TableNames -> SUBSET NodeIDs] /\ "Bookmarks" \in TableNames
    BY DEF DatabaseInv, BesideKept, TableNames
  <2>2. SymDiff(notes["Bookmarks"], {n}) \subseteq NodeIDs
    BY <1>1, <2>1 DEF SymDiff
  <2> HIDE DEF TableNames
  <2> QED BY <1>1, <2>1, <2>2
<1>3. OrderKept' /\ BesideKept'
  BY <1>1, <1>2, TreeStays DEF DatabaseInv, OrderKept, BesideKept
<1> QED BY <1>1, <1>3, TreeStays, FileStays DEF DatabaseInv

LEMMA RemoveNodeKept ==
  ASSUME DatabaseInv, NEW n, RemoveNode(n)
  PROVE  DatabaseInv'
<1>1. /\ ~building /\ app = "idle" /\ AtRest
      /\ UNCHANGED <<restarts, status, notes, building, app, save, file, copy>>
  BY DEF RemoveNode, RemoveAlt, databaseVars
<1>2. PICK p, alt : RemoveAlt(p, alt)
  BY DEF RemoveNode
<1>3. StructureInv'
  BY <1>2, RemoveStep DEF DatabaseInv, Steps
<1>4. NodeCount' = NodeCount
  <2>1. /\ nodes \in Seq(NodeData) /\ nodes' = [nodes EXCEPT ![p + 1] = RemoveChild(@, alt)]
        /\ nodes' \in Seq(NodeData)
    BY <1>2, <1>3, Facts DEF DatabaseInv, RemoveAlt, StructureInv
  <2>2. DOMAIN nodes' = DOMAIN nodes
    BY <2>1
  <2> QED BY <2>1, <2>2, LenProperties DEF NodeCount
<1>5. NodeIDs' = NodeIDs /\ NodeCount <= NodeCount'
  BY <1>3, <1>4, Counted DEF DatabaseInv
<1>6. OrderKept'
  <2>1. AtRest'
    BY <1>1, <1>2 DEF RemoveAlt, AtRest
  <2>2. save'.order = <<>>
    BY <1>1 DEF DatabaseInv, SaveKept, NoSave
  <2>3. ToSet(save'.order) = 0 .. 0 - 1
    BY <2>2 DEF ToSet
  <2> QED BY <1>1, <2>1, <2>3 DEF OrderKept
<1>7. BesideKept'
  BY <1>1, <1>4, <1>5 DEF DatabaseInv, BesideKept
<1> QED BY <1>1, <1>3, <1>5, <1>6, <1>7, FileStays DEF DatabaseInv

-----------------------------------------------------------------------------
(* Saving *)

LEMMA OnceSet ==
  ASSUME NEW s, NEW T, Once(s, T)
  PROVE  ToSet(s) = T /\ Len(s) \in Nat /\ s \in Seq(T)
<1>1. s \in Seq(T) /\ Len(s) \in Nat /\ DOMAIN s = 1 .. Len(s)
  BY LenProperties DEF Once
<1>2. \A i \in 1 .. Len(s) : s[i] \in T
  BY <1>1, ElementOfSeq
<1> QED BY <1>1, <1>2 DEF ToSet, Once

LEMMA FileStep ==
  ASSUME DatabaseInv, UNCHANGED <<structureVars, status, notes, building>>, app' \in Apps,
         SaveKept', RowsKept', CopyKept',
         AllPlaced => \E c \in Nat : ToSet(save.order)' = 0 .. c - 1
  PROVE  DatabaseInv'
<1>1. /\ StructureInv' /\ NodeCount' = NodeCount /\ NodeIDs' = NodeIDs
      /\ (AllPlaced <=> AllPlaced') /\ (AtRest <=> AtRest')
  BY TreeStays
<1>2. BesideKept'
  BY <1>1 DEF DatabaseInv, BesideKept
<1>3. OrderKept'
  BY <1>1 DEF DatabaseInv, OrderKept
<1> QED BY <1>1, <1>2, <1>3 DEF DatabaseInv

LEMMA BeginSaveKept ==
  ASSUME DatabaseInv, BeginSave
  PROVE  DatabaseInv'
<1>1. /\ app = "idle" /\ file' = EmptyFile
      /\ UNCHANGED <<structureVars, restarts, status, notes, building, copy>>
      /\ \/ app' = "aborted" /\ save' = save
         \/ /\ nodes # <<>> /\ AtRest
            /\ app' = "saving" /\ save' = [NoSave EXCEPT !.order = PreOrder, !.grows = building]
  BY DEF BeginSave
<1>2. save = NoSave
  BY <1>1 DEF DatabaseInv, SaveKept
<1>3. NodeIDs' = NodeIDs
  BY <1>1, TreeStays
<1>4. file' = [rows |-> file'.rows, notes |-> file'.notes] /\ file'.rows = {}
  BY <1>1 DEF EmptyFile
<1>5. CASE app' = "aborted" /\ save' = save
  <2>1. save' = NoSave /\ save'.order = <<>> /\ save'.batch = {} /\ save'.next = 1
    BY <1>2, <1>5 DEF NoSave
  <2>2. ToSet(save'.order) = {} /\ {} = 0 .. 0 - 1
    BY <2>1 DEF ToSet
  <2>3. SaveKept'
    BY <1>2, <1>3, <1>5 DEF DatabaseInv, SaveKept
  <2>4. Rows' = {} /\ Given' = {}
    BY <1>4, <2>1 DEF Rows, Given
  <2>5. RowsKept'
    BY <1>4, <1>5, <2>1, <2>4, FS_EmptySet DEF RowsKept
  <2>6. CopyKept'
    BY <1>1, <1>5, <2>1 DEF DatabaseInv, CopyKept
  <2> QED BY <1>1, <1>5, <2>2, <2>3, <2>5, <2>6, FileStep DEF Apps
<1>6. CASE /\ nodes # <<>> /\ AtRest
           /\ app' = "saving" /\ save' = [NoSave EXCEPT !.order = PreOrder, !.grows = building]
  <2>1. PICK T : /\ Once(PreOrder, T) /\ T \subseteq NodeIDs
                 /\ AllPlaced => T = NodeIDs
    BY <1>6, PreOrderLists DEF DatabaseInv
  <2>2. save' = [order |-> PreOrder, next |-> 1, batch |-> {}, table |-> 1,
                 failed |-> FALSE, grows |-> building]
    BY <1>6 DEF NoSave
  <2>3. /\ save'.order = PreOrder /\ save'.next = 1 /\ save'.batch = {} /\ save'.table = 1
        /\ save'.failed = FALSE /\ save'.grows = building
    BY <2>2
  <2>4. ToSet(save'.order) = T /\ Once(save'.order, T) /\ Len(save'.order) \in Nat
    BY <2>1, <2>3, OnceSet
  <2>5. 1 \in 1 .. Len(save'.order) + 1
    BY <2>4
  <2>6. SaveKept'
    <3>1. save' = [order |-> save'.order, next |-> save'.next, batch |-> save'.batch,
                   table |-> save'.table, failed |-> save'.failed, grows |-> save'.grows]
      BY <2>2, <2>3
    <3>2. Once(save'.order, ToSet(save'.order)) /\ ToSet(save'.order) \subseteq NodeIDs'
      BY <1>3, <2>1, <2>4
    <3>3. /\ save'.next \in 1 .. Len(save'.order) + 1
          /\ save'.table \in 1 .. 4 /\ save'.table <= 3
      BY <2>3, <2>5
    <3>4. save'.failed \in BOOLEAN
      BY <2>3
    <3>5. app' # "idle"
      BY <1>6
    <3> QED BY <3>1, <3>2, <3>3, <3>4, <3>5 DEF SaveKept
  <2>7. Rows' = {} /\ Given' = {}
    BY <1>4, <2>3 DEF Rows, Given
  <2>8. RowsKept'
    BY <1>4, <1>6, <2>3, <2>7, FS_EmptySet DEF RowsKept
  <2>9. CopyKept'
    BY <1>1, <1>6 DEF DatabaseInv, CopyKept
  <2>10. AllPlaced => \E c \in Nat : ToSet(save.order)' = 0 .. c - 1
    <3>1. NodeCount \in Nat /\ NodeIDs = 0 .. NodeCount - 1
      BY Facts DEF DatabaseInv
    <3> QED BY <2>1, <2>4, <3>1
  <2> QED BY <1>1, <1>6, <2>6, <2>8, <2>9, <2>10, FileStep DEF Apps
<1> QED BY <1>1, <1>5, <1>6

\* What SaveRow does: the row of the next node joins those written.
RowSaved(ok) ==
  LET n == save.order[save.next]
  IN /\ app = "saving" /\ app' = app /\ ~RowsDone
     /\ UNCHANGED <<structureVars, restarts, status, notes, building, copy>>
     /\ n \in NodeIDs /\ n \in ToSet(save.order) /\ n \notin Given
     /\ save' = [order |-> save'.order, next |-> save'.next, batch |-> save'.batch,
                 table |-> save'.table, failed |-> save'.failed, grows |-> save'.grows]
     /\ save'.order = save.order /\ save'.next = save.next + 1
     /\ save.next \in 1 .. Len(save.order) /\ Len(save.order) \in Nat
     /\ save'.table = save.table /\ save'.failed = (save.failed \/ ~ok) /\ save'.grows = save.grows
     /\ file' = [rows |-> file'.rows, notes |-> file.notes]
     /\ Rows' = Rows \cup (IF ok THEN {Row(n)} ELSE {})
     /\ Given' = Given \cup {n}

LEMMA SaveRowIs ==
  ASSUME DatabaseInv, NEW ok \in BOOLEAN, SaveRow(ok)
  PROVE  RowSaved(ok)
<1> DEFINE n == save.order[save.next]
           new == IF ok THEN {Row(n)} ELSE {}
<1>1. /\ app = "saving" /\ app' = app /\ ~RowsDone
      /\ UNCHANGED <<structureVars, restarts, status, notes, building, copy>>
  BY DEF SaveRow
<1>2. /\ save = [order |-> save.order, next |-> save.next, batch |-> save.batch,
                 table |-> save.table, failed |-> save.failed, grows |-> save.grows]
      /\ Once(save.order, ToSet(save.order)) /\ ToSet(save.order) \subseteq NodeIDs
      /\ save.next \in 1 .. Len(save.order) + 1
      /\ save.table \in 1 .. 4 /\ save.table <= 3
      /\ save.failed \in BOOLEAN
  BY <1>1 DEF DatabaseInv, SaveKept
<1>3. file = [rows |-> file.rows, notes |-> file.notes]
  BY DEF DatabaseInv, RowsKept
<1>5. /\ save.order \in Seq(ToSet(save.order)) /\ Len(save.order) \in Nat
      /\ save.next \in 1 .. Len(save.order) /\ save.next + 1 \in 1 .. Len(save.order) + 1
  <2>1. save.order \in Seq(ToSet(save.order)) /\ Len(save.order) \in Nat
    BY <1>2, OnceSet
  <2> QED BY <1>1, <1>2, <2>1 DEF RowsDone
<1>6. n \in NodeIDs /\ n \in ToSet(save.order) /\ n \notin Given
  <2>1. n \in NodeIDs /\ n \in ToSet(save.order)
    BY <1>2, <1>5, ElementOfSeq
  <2>2. \A i \in 1 .. save.next - 1 : i \in 1 .. Len(save.order) /\ i # save.next
    BY <1>5
  <2>3. \A i \in 1 .. save.next - 1 : save.order[i] # n
    BY <1>2, <1>5, <2>2 DEF Once
  <2> QED BY <2>1, <2>3 DEF Given
<1> HIDE DEF n
<1>8. PICK batch2, rows2 :
        /\ save' = [save EXCEPT !.next = @ + 1, !.failed = @ \/ ~ok, !.batch = batch2]
        /\ file' = [file EXCEPT !.rows = rows2]
        /\ rows2 \cup batch2 = Rows \cup new
  <2> DEFINE full == save.next % TransactionSize = 0
  <2>1. /\ IF full THEN Commit(save.batch \cup new) ELSE UNCHANGED file
        /\ save' = [save EXCEPT !.next = @ + 1, !.failed = @ \/ ~ok,
                                !.batch = IF full THEN {} ELSE save.batch \cup new]
    BY DEF SaveRow, n
  <2> HIDE DEF new
  <2>2. CASE full
    <3>1. file' = [file EXCEPT !.rows = file.rows \cup (save.batch \cup new)]
      BY <2>1, <2>2 DEF Commit
    <3>2. save' = [save EXCEPT !.next = @ + 1, !.failed = @ \/ ~ok, !.batch = {}]
      BY <2>1, <2>2
    <3>3. (file.rows \cup (save.batch \cup new)) \cup {} = Rows \cup new
      BY DEF Rows
    <3> QED BY <3>1, <3>2, <3>3
  <2>3. CASE ~full
    <3>1. file' = [file EXCEPT !.rows = file.rows]
      BY <1>3, <2>1, <2>3
    <3>2. save' = [save EXCEPT !.next = @ + 1, !.failed = @ \/ ~ok, !.batch = save.batch \cup new]
      BY <2>1, <2>3
    <3>3. file.rows \cup (save.batch \cup new) = Rows \cup new
      BY DEF Rows
    <3> QED BY <3>1, <3>2, <3>3
  <2> HIDE DEF full
  <2> QED BY <2>2, <2>3
<1>9. /\ save' = [order |-> save.order, next |-> save.next + 1, batch |-> batch2,
                  table |-> save.table, failed |-> (save.failed \/ ~ok), grows |-> save.grows]
      /\ file' = [rows |-> rows2, notes |-> file.notes]
  BY <1>2, <1>3, <1>8
<1>10. /\ save'.order = save.order /\ save'.next = save.next + 1 /\ save'.batch = batch2
       /\ save'.table = save.table /\ save'.failed = (save.failed \/ ~ok) /\ save'.grows = save.grows
       /\ file'.rows = rows2 /\ file'.notes = file.notes
  BY <1>9
<1>11. Rows' = Rows \cup new
  BY <1>8, <1>10 DEF Rows
<1>12. Given' = Given \cup {n}
  <2>1. \A i : i \in 1 .. (save.next + 1) - 1 <=> i \in 1 .. save.next - 1 \/ i = save.next
    BY <1>5
  <2> QED BY <1>10, <2>1 DEF Given, n
<1>13. /\ save' = [order |-> save'.order, next |-> save'.next, batch |-> save'.batch,
                   table |-> save'.table, failed |-> save'.failed, grows |-> save'.grows]
       /\ file' = [rows |-> file'.rows, notes |-> file.notes]
  BY <1>9, <1>10
<1> QED BY <1>1, <1>5, <1>6, <1>10, <1>11, <1>12, <1>13 DEF RowSaved, n

LEMMA SaveRowKept ==
  ASSUME DatabaseInv, NEW ok \in BOOLEAN, SaveRow(ok)
  PROVE  DatabaseInv'
<1> DEFINE n == save.order[save.next]
           new == IF ok THEN {Row(n)} ELSE {}
<1>1. /\ app = "saving" /\ app' = app
      /\ UNCHANGED <<structureVars, restarts, status, notes, building, copy>>
      /\ n \in NodeIDs /\ n \notin Given /\ Rows' = Rows \cup new /\ Given' = Given \cup {n}
      /\ save' = [order |-> save'.order, next |-> save'.next, batch |-> save'.batch,
                  table |-> save'.table, failed |-> save'.failed, grows |-> save'.grows]
      /\ save'.order = save.order /\ save'.next = save.next + 1
      /\ save.next \in 1 .. Len(save.order) /\ Len(save.order) \in Nat
      /\ save'.table = save.table /\ save'.failed = (save.failed \/ ~ok)
      /\ file' = [rows |-> file'.rows, notes |-> file.notes]
  BY SaveRowIs DEF RowSaved
<1>2. /\ Once(save.order, ToSet(save.order)) /\ ToSet(save.order) \subseteq NodeIDs
      /\ save.table \in 1 .. 4 /\ save.table <= 3 /\ save.failed \in BOOLEAN
  BY <1>1 DEF DatabaseInv, SaveKept
<1>3. NodeIDs' = NodeIDs
  BY <1>1, TreeStays
<1>4. Row(n).nid = n /\ Row(n).status = StatusOf(n) /\ Row(n).status \in Statuses
  <2>1. n + 1 \in 1 .. Len(status) /\ status \in Seq(Statuses)
    BY <1>1, Facts DEF DatabaseInv, BesideKept
  <2>2. StatusOf(n) \in Statuses
    BY <2>1, ElementOfSeq DEF StatusOf
  <2> QED BY <2>2 DEF Row
<1> HIDE DEF n
<1>5. SaveKept'
  <2>1. save'.failed \in BOOLEAN
    BY <1>1
  <2>2. save'.next \in 1 .. Len(save'.order) + 1
    BY <1>1
  <2>3. /\ Once(save'.order, ToSet(save'.order)) /\ ToSet(save'.order) \subseteq NodeIDs'
        /\ save'.table \in 1 .. 4 /\ save'.table <= 3
    BY <1>1, <1>2, <1>3
  <2> QED BY <1>1, <2>1, <2>2, <2>3 DEF SaveKept
<1>6. RowsKept'
  <2>1. /\ IsFiniteSet(Rows)
        /\ \A r \in Rows : r.nid \in Given /\ r.status \in Statuses
        /\ \A r, q \in Rows : r.nid = q.nid => r = q
        /\ ~save.failed => \A m \in Given : \E r \in Rows : r.nid = m
    BY <1>1 DEF DatabaseInv, RowsKept
  <2>2. IsFiniteSet(Rows')
    <3>1. CASE ok
      BY <1>1, <2>1, <3>1, FS_AddElement
    <3>2. CASE ~ok
      BY <1>1, <2>1, <3>2
    <3> QED BY <3>1, <3>2
  <2>3. \A r \in new : r.nid = n /\ r.status \in Statuses /\ r = Row(n)
    BY <1>4
  <2>4. ASSUME NEW r \in Rows' PROVE r.nid \in Given' /\ r.status \in Statuses
    BY <1>1, <2>1, <2>3
  <2>5. ASSUME NEW r \in Rows', NEW q \in Rows', r.nid = q.nid PROVE r = q
    <3> HIDE DEF new
    <3> QED BY <1>1, <2>1, <2>3, <2>5
  <2>6. ASSUME ~save'.failed, NEW m \in Given' PROVE \E r \in Rows' : r.nid = m
    <3>1. ~save.failed /\ ok
      BY <1>1, <2>6
    <3>2. CASE m = n
      BY <1>1, <1>4, <3>1, <3>2
    <3>3. CASE m \in Given
      BY <1>1, <2>1, <3>1, <3>3
    <3> QED BY <1>1, <2>6, <3>2, <3>3
  <2>7. file' = [rows |-> file'.rows, notes |-> file'.notes]
    <3>1. file'.notes = file.notes
      BY <1>1
    <3> QED BY <1>1, <3>1
  <2>8. app' = "saving"
    BY <1>1
  <2> HIDE DEF new
  <2> QED BY <2>2, <2>4, <2>5, <2>6, <2>7, <2>8 DEF RowsKept
<1>7. CopyKept'
  BY <1>1 DEF DatabaseInv, CopyKept
<1>8. AllPlaced => \E c \in Nat : ToSet(save.order)' = 0 .. c - 1
  BY <1>1 DEF DatabaseInv, OrderKept
<1>9. app' \in Apps
  BY <1>1 DEF Apps
<1> QED BY <1>1, <1>5, <1>6, <1>7, <1>8, <1>9, FileStep

\* What SaveTable does: all rows are in the file, and one more table.
TableSaved(kept) ==
  /\ app = "saving" /\ app' \in {"saving", "saved"} /\ (app' = "saving" => save.table # 3)
  /\ UNCHANGED <<structureVars, restarts, status, notes, building, copy>>
  /\ kept = [file.notes EXCEPT ![Tables[save.table]] = notes[Tables[save.table]]]
  /\ save' = [order |-> save.order, next |-> save.next, batch |-> {},
              table |-> save.table + 1, failed |-> save.failed, grows |-> save.grows]
  /\ save'.order = save.order /\ save'.next = save.next /\ save'.batch = {}
  /\ save'.table = save.table + 1 /\ save'.failed = save.failed /\ save'.grows = save.grows
  /\ file'.rows = Rows /\ file'.notes = kept /\ file' = [rows |-> file'.rows, notes |-> file'.notes]
  /\ Rows' = Rows /\ Given' = Given /\ RowsDone /\ RowsDone'

LEMMA SaveTableIs ==
  ASSUME DatabaseInv, SaveTable
  PROVE  \E kept : TableSaved(kept)
<1>1. PICK kept :
        /\ app = "saving" /\ RowsDone
        /\ file' = [rows |-> file.rows \cup save.batch, notes |-> kept]
        /\ save' = [save EXCEPT !.table = @ + 1, !.batch = {}]
        /\ app' = IF save.table = Len(Tables) THEN "saved" ELSE "saving"
        /\ UNCHANGED <<structureVars, restarts, status, notes, building, copy>>
        /\ kept = [file.notes EXCEPT ![Tables[save.table]] = notes[Tables[save.table]]]
  BY DEF SaveTable
<1>2. /\ save = [order |-> save.order, next |-> save.next, batch |-> save.batch,
                 table |-> save.table, failed |-> save.failed, grows |-> save.grows]
  BY <1>1 DEF DatabaseInv, SaveKept
<1>3. save' = [order |-> save.order, next |-> save.next, batch |-> {},
               table |-> save.table + 1, failed |-> save.failed, grows |-> save.grows]
  BY <1>1, <1>2
<1>4. /\ save'.order = save.order /\ save'.next = save.next /\ save'.batch = {}
      /\ save'.table = save.table + 1 /\ save'.failed = save.failed /\ save'.grows = save.grows
      /\ file'.rows = Rows /\ file'.notes = kept /\ file' = [rows |-> file'.rows, notes |-> file'.notes]
  BY <1>1, <1>3 DEF Rows
<1>5. Rows' = Rows /\ Given' = Given /\ RowsDone'
  BY <1>1, <1>4 DEF Rows, Given, RowsDone
<1>6. app' \in {"saving", "saved"} /\ (app' = "saving" => save.table # 3)
  BY <1>1 DEF Tables
<1> QED BY <1>1, <1>3, <1>4, <1>5, <1>6 DEF TableSaved

LEMMA SaveTableKept ==
  ASSUME DatabaseInv, SaveTable
  PROVE  DatabaseInv'
<1>1. PICK kept : TableSaved(kept)
  BY SaveTableIs
<1>2. /\ Once(save.order, ToSet(save.order)) /\ ToSet(save.order) \subseteq NodeIDs
      /\ save.next \in 1 .. Len(save.order) + 1
      /\ save.table \in 1 .. 4 /\ save.table <= 3
      /\ save.failed \in BOOLEAN
  BY <1>1 DEF DatabaseInv, SaveKept, TableSaved
<1>3. SaveKept'
  <2>1. save' = [order |-> save'.order, next |-> save'.next, batch |-> save'.batch,
                 table |-> save'.table, failed |-> save'.failed, grows |-> save'.grows]
    BY <1>1 DEF TableSaved
  <2>2. NodeIDs' = NodeIDs
    BY <1>1, TreeStays DEF TableSaved
  <2>3. save'.failed \in BOOLEAN
    BY <1>1, <1>2 DEF TableSaved
  <2>4. save'.table \in 1 .. 4 /\ (app' = "saving" => save'.table <= 3)
    BY <1>1, <1>2 DEF TableSaved
  <2>5. app' # "idle"
    BY <1>1 DEF TableSaved
  <2>6. /\ Once(save'.order, ToSet(save'.order)) /\ ToSet(save'.order) \subseteq NodeIDs'
        /\ save'.next \in 1 .. Len(save'.order) + 1
    BY <1>1, <1>2, <2>2 DEF TableSaved
  <2> QED BY <2>1, <2>3, <2>4, <2>5, <2>6 DEF SaveKept
<1>4. RowsKept'
  <2>1. /\ IsFiniteSet(Rows)
        /\ \A r \in Rows : r.nid \in Given /\ r.status \in Statuses
        /\ \A r, q \in Rows : r.nid = q.nid => r = q
        /\ ~save.failed => \A m \in Given : \E r \in Rows : r.nid = m
    BY <1>1 DEF DatabaseInv, RowsKept, TableSaved
  <2> QED BY <1>1, <2>1 DEF RowsKept, TableSaved
<1>5. CopyKept'
  BY <1>1 DEF DatabaseInv, CopyKept, TableSaved
<1>6. AllPlaced => \E c \in Nat : ToSet(save.order)' = 0 .. c - 1
  BY <1>1 DEF DatabaseInv, OrderKept, TableSaved
<1>7. app' \in Apps
  BY <1>1 DEF Apps, TableSaved
<1> QED BY <1>1, <1>3, <1>4, <1>5, <1>6, <1>7, FileStep DEF TableSaved

LEMMA CrashKept ==
  ASSUME DatabaseInv, Crash
  PROVE  DatabaseInv'
<1>1. /\ app = "saving" /\ app' = "crashed"
      /\ save' = [save EXCEPT !.batch = {}]
      /\ UNCHANGED <<structureVars, restarts, status, notes, building, file, copy>>
  BY DEF Crash
<1>2. /\ save = [order |-> save.order, next |-> save.next, batch |-> save.batch,
                 table |-> save.table, failed |-> save.failed, grows |-> save.grows]
      /\ Once(save.order, ToSet(save.order)) /\ ToSet(save.order) \subseteq NodeIDs
      /\ save.next \in 1 .. Len(save.order) + 1
      /\ save.table \in 1 .. 4 /\ save.failed \in BOOLEAN
  BY <1>1 DEF DatabaseInv, SaveKept
<1>3. save' = [order |-> save.order, next |-> save.next, batch |-> {},
               table |-> save.table, failed |-> save.failed, grows |-> save.grows]
  BY <1>1, <1>2
<1>4. /\ save'.order = save.order /\ save'.next = save.next /\ save'.batch = {}
      /\ save'.table = save.table /\ save'.failed = save.failed /\ save'.grows = save.grows
  BY <1>3
<1>5. SaveKept'
  <2>1. save' = [order |-> save'.order, next |-> save'.next, batch |-> save'.batch,
                 table |-> save'.table, failed |-> save'.failed, grows |-> save'.grows]
    BY <1>3, <1>4
  <2>2. NodeIDs' = NodeIDs
    BY <1>1, TreeStays
  <2>3. save'.failed \in BOOLEAN
    BY <1>2, <1>4
  <2>4. app' # "idle" /\ app' # "saving"
    BY <1>1
  <2> QED BY <1>2, <1>4, <2>1, <2>2, <2>3, <2>4 DEF SaveKept
<1>6. RowsKept'
  <2>1. Rows' \subseteq Rows /\ Given' = Given
    BY <1>1, <1>4 DEF Rows, Given
  <2>2. /\ file = [rows |-> file.rows, notes |-> file.notes]
        /\ IsFiniteSet(Rows)
        /\ \A r \in Rows : r.nid \in Given /\ r.status \in Statuses
        /\ \A r, q \in Rows : r.nid = q.nid => r = q
    BY DEF DatabaseInv, RowsKept
  <2>3. IsFiniteSet(Rows')
    BY <2>1, <2>2, FS_Subset
  <2>4. file' = [rows |-> file'.rows, notes |-> file'.notes]
    BY <1>1, <2>2
  <2> QED BY <1>1, <1>4, <2>1, <2>2, <2>3, <2>4 DEF RowsKept
<1>7. CopyKept'
  BY <1>1 DEF DatabaseInv, CopyKept
<1>8. AllPlaced => \E c \in Nat : ToSet(save.order)' = 0 .. c - 1
  BY <1>4 DEF DatabaseInv, OrderKept
<1>9. app' \in Apps
  BY <1>1 DEF Apps
<1> QED BY <1>1, <1>5, <1>6, <1>7, <1>8, <1>9, FileStep

-----------------------------------------------------------------------------
(* Loading *)

LEMMA BeginLoadKept ==
  ASSUME DatabaseInv, BeginLoad
  PROVE  DatabaseInv'
<1>1. PICK ns :
        /\ app \in {"saved", "crashed"} /\ app' = "loading"
        /\ copy' = [NoCopy EXCEPT !.todo = file.rows, !.nodes = ns]
        /\ UNCHANGED <<structureVars, restarts, status, notes, building, save, file>>
  BY DEF BeginLoad
<1>2. SaveKept' /\ RowsKept'
  <2>1. NodeIDs' = NodeIDs
    BY <1>1, TreeStays
  <2>2. SaveKept'
    BY <1>1, <2>1 DEF DatabaseInv, SaveKept
  <2>3. RowsKept'
    BY <1>1 DEF DatabaseInv, RowsKept, Rows, Given
  <2> QED BY <2>2, <2>3
<1>3. CopyKept'
  <2>1. copy' = [nodes |-> ns, status |-> <<>>, open |-> <<>>, solved |-> <<>>,
                 notes |-> NoNotes, todo |-> file.rows]
    BY <1>1 DEF NoCopy
  <2>2. copy'.status = <<>> /\ copy'.todo = file.rows /\ file' = file
    <3>1. file' = file
      BY <1>1
    <3> QED BY <2>1, <3>1
  <2>3. copy' = [nodes |-> copy'.nodes, status |-> copy'.status, open |-> copy'.open,
                 solved |-> copy'.solved, notes |-> copy'.notes, todo |-> copy'.todo]
    BY <2>1
  <2>4. copy'.status \in Seq(Statuses) /\ Len(copy'.status) = 0
    BY <2>2, EmptySeq
  <2>5. {r.nid : r \in file'.rows \ copy'.todo} = {} /\ 0 .. 0 - 1 = {}
    BY <2>2
  <2> QED BY <1>1, <2>2, <2>3, <2>4, <2>5 DEF CopyKept
<1>4. AllPlaced => \E c \in Nat : ToSet(save.order)' = 0 .. c - 1
  BY <1>1 DEF DatabaseInv, OrderKept
<1>5. app' \in Apps
  BY <1>1 DEF Apps
<1> QED BY <1>1, <1>2, <1>3, <1>4, <1>5, FileStep

CopyForm(c) ==
  c = [nodes |-> c.nodes, status |-> c.status, open |-> c.open,
       solved |-> c.solved, notes |-> c.notes, todo |-> c.todo]

\* A row becomes the next entry.
LEMMA RowEntered ==
  ASSUME NEW c, CopyForm(c), NEW r, r.status \in Statuses
  PROVE  /\ CopyForm(WithNode(c, r))
         /\ WithNode(c, r).todo = c.todo
         /\ \E st \in Statuses : WithNode(c, r).status = Append(c.status, st)
<1> DEFINE st == IF r.pid = NoNode THEN "BRANCH" ELSE r.status
<1>1. st \in Statuses
  BY DEF Statuses
<1> HIDE DEF st
<1>2. ASSUME NEW e, CopyForm(e), NEW m, NEW s
      PROVE  /\ CopyForm(WithFlags(e, m, s))
             /\ WithFlags(e, m, s).todo = e.todo /\ WithFlags(e, m, s).status = e.status
  <2>1. PICK op, so : WithFlags(e, m, s) = [e EXCEPT !.open = op, !.solved = so]
    BY DEF WithFlags
  <2>2. WithFlags(e, m, s) = [nodes |-> e.nodes, status |-> e.status, open |-> op,
                              solved |-> so, notes |-> e.notes, todo |-> e.todo]
    BY <1>2, <2>1 DEF CopyForm
  <2> QED BY <2>2 DEF CopyForm
<1> DEFINE entry == [c EXCEPT !.nodes[r.nid + 1] = NewNode(r.pid, 0),
                              !.status = Append(@, st),
                              !.open = Append(@, TRUE), !.solved = Append(@, FALSE)]
<1>3. PICK ns, op, so : entry = [nodes |-> ns, status |-> Append(c.status, st), open |-> op,
                                 solved |-> so, notes |-> c.notes, todo |-> c.todo]
  <2>1. PICK ns, op, so :
          entry = [c EXCEPT !.nodes = ns, !.status = Append(c.status, st), !.open = op, !.solved = so]
    <3>1. entry = [c EXCEPT !.nodes = [c.nodes EXCEPT ![r.nid + 1] = NewNode(r.pid, 0)],
                            !.status = Append(c.status, st),
                            !.open = Append(c.open, TRUE), !.solved = Append(c.solved, FALSE)]
      OBVIOUS
    <3> HIDE DEF entry
    <3> QED BY <3>1
  <2> HIDE DEF entry
  <2>2. entry = [nodes |-> ns, status |-> Append(c.status, st), open |-> op,
                 solved |-> so, notes |-> c.notes, todo |-> c.todo]
    BY <2>1 DEF CopyForm
  <2> QED BY <2>2
<1> DEFINE child == [entry EXCEPT !.nodes[r.pid + 1] = SetChild(AddChild(@), r.nid, r.alt)]
<1>4. WithNode(c, r) = IF r.pid = NoNode THEN entry ELSE WithFlags(child, r.nid, r.status)
  BY DEF WithNode, st
<1> HIDE DEF entry
<1>5. CopyForm(entry) /\ entry.todo = c.todo /\ entry.status = Append(c.status, st)
  BY <1>3 DEF CopyForm
<1>6. CopyForm(child) /\ child.todo = entry.todo /\ child.status = entry.status
  <2>1. PICK more : child = [entry EXCEPT !.nodes = more]
    <3>1. child = [entry EXCEPT !.nodes =
                     [entry.nodes EXCEPT ![r.pid + 1] = SetChild(AddChild(@), r.nid, r.alt)]]
      OBVIOUS
    <3> HIDE DEF child
    <3> QED BY <3>1
  <2>2. child = [nodes |-> more, status |-> entry.status, open |-> entry.open,
                 solved |-> entry.solved, notes |-> entry.notes, todo |-> entry.todo]
    <3> HIDE DEF child
    <3> QED BY <1>5, <2>1 DEF CopyForm
  <2> HIDE DEF child
  <2> QED BY <2>2 DEF CopyForm
<1> HIDE DEF child
<1> QED BY <1>1, <1>2, <1>4, <1>5, <1>6

\* No node is in the file twice.
LEMMA RowsCounted ==
  ASSUME DatabaseInv
  PROVE  /\ IsFiniteSet(NodesSaved) /\ Cardinality(NodesSaved) \in Nat
         /\ Cardinality(NodesSaved) = Cardinality(file.rows)
<1> DEFINE f == [r \in file.rows |-> r.nid]
<1>1. IsFiniteSet(file.rows) /\ \A r, q \in file.rows : r.nid = q.nid => r = q
  BY FS_Subset DEF DatabaseInv, RowsKept, Rows
<1>2. f \in Bijection(file.rows, NodesSaved)
  BY <1>1 DEF Bijection, Injection, IsInjective, Surjection, NodesSaved
<1>3. ExistsBijection(file.rows, NodesSaved)
  BY <1>2 DEF ExistsBijection
<1> QED BY <1>1, <1>3, FS_Bijection, FS_CardinalityType

LEMMA LoadRowKept ==
  ASSUME DatabaseInv, LoadRow
  PROVE  DatabaseInv'
<1>1. PICK r \in copy.todo :
        /\ \A q \in copy.todo : r.nid <= q.nid
        /\ IF r.nid = Len(copy.status)
           THEN copy' = WithNode([copy EXCEPT !.todo = @ \ {r}], r) /\ UNCHANGED app
           ELSE app' = "aborted" /\ UNCHANGED copy
  BY DEF LoadRow
<1>2. /\ app = "loading"
      /\ UNCHANGED <<structureVars, restarts, status, notes, building, save, file>>
  BY DEF LoadRow
<1>3. /\ CopyForm(copy) /\ copy.status \in Seq(Statuses) /\ Len(copy.status) \in Nat
      /\ copy.todo \subseteq file.rows
      /\ {q.nid : q \in file.rows \ copy.todo} = 0 .. Len(copy.status) - 1
  BY <1>2, LenProperties DEF DatabaseInv, CopyKept, CopyForm
<1>4. r \in file.rows /\ \A q \in file.rows : q.status \in Statuses /\ q.nid \in Nat
  <2>1. \A q \in file.rows : q.status \in Statuses /\ q.nid \in Given
    BY DEF DatabaseInv, RowsKept, Rows
  <2>2. Given \subseteq Nat
    <3>1. /\ save.order \in Seq(ToSet(save.order)) /\ Len(save.order) \in Nat
          /\ save.next \in 1 .. Len(save.order) + 1 /\ ToSet(save.order) \subseteq NodeIDs
      BY OnceSet DEF DatabaseInv, SaveKept
    <3>2. \A i \in 1 .. save.next - 1 : i \in 1 .. Len(save.order)
      BY <3>1
    <3>3. \A i \in 1 .. save.next - 1 : save.order[i] \in NodeIDs
      BY <3>1, <3>2, ElementOfSeq
    <3>4. NodeIDs \subseteq Nat
      BY Facts DEF DatabaseInv
    <3> QED BY <3>3, <3>4 DEF Given
  <2> QED BY <1>3, <2>1, <2>2
<1>5. \A p, q \in file.rows : p.nid = q.nid => p = q
  BY DEF DatabaseInv, RowsKept, Rows
<1>6. SaveKept' /\ RowsKept' /\ app' \in Apps
  <2>1. NodeIDs' = NodeIDs
    BY <1>2, TreeStays
  <2>2. app' \in {"loading", "aborted"}
    BY <1>1, <1>2
  <2>3. SaveKept'
    BY <1>2, <2>1, <2>2 DEF DatabaseInv, SaveKept
  <2>4. RowsKept'
    BY <1>2, <2>2 DEF DatabaseInv, RowsKept, Rows, Given
  <2> QED BY <2>2, <2>3, <2>4 DEF Apps
<1>7. CASE r.nid = Len(copy.status)
  <2> DEFINE c == [copy EXCEPT !.todo = @ \ {r}]
             l == Len(copy.status)
  <2>1. copy' = WithNode(c, r) /\ app' = "loading"
    BY <1>1, <1>2, <1>7
  <2>2. c = [nodes |-> copy.nodes, status |-> copy.status, open |-> copy.open,
             solved |-> copy.solved, notes |-> copy.notes, todo |-> copy.todo \ {r}]
    <3>1. PICK rest : rest = copy.todo \ {r} /\ c = [copy EXCEPT !.todo = rest]
      OBVIOUS
    <3> HIDE DEF c
    <3> QED BY <1>3, <3>1 DEF CopyForm
  <2>3. CopyForm(c) /\ c.todo = copy.todo \ {r} /\ c.status = copy.status
    BY <2>2 DEF CopyForm
  <2> HIDE DEF c
  <2>4. PICK st \in Statuses : copy'.status = Append(copy.status, st)
    BY <1>4, <2>1, <2>3, RowEntered
  <2>5. CopyForm(copy') /\ copy'.todo = copy.todo \ {r}
    BY <1>4, <2>1, <2>3, RowEntered
  <2>6. copy'.status \in Seq(Statuses) /\ Len(copy'.status) = l + 1
    BY <1>3, <2>4, AppendProperties
  <2>7. file'.rows = file.rows /\ copy'.todo \subseteq file'.rows
    BY <1>2, <1>3, <2>5
  <2>8. {q.nid : q \in file'.rows \ copy'.todo} = 0 .. Len(copy'.status) - 1
    <3>1. file'.rows \ copy'.todo = (file.rows \ copy.todo) \cup {r}
      BY <1>4, <2>5, <2>7
    <3>2. {q.nid : q \in (file.rows \ copy.todo) \cup {r}} = (0 .. l - 1) \cup {l}
      BY <1>3, <1>7
    <3>3. (0 .. l - 1) \cup {l} = 0 .. (l + 1) - 1
      <4>1. l \in Nat
        BY <1>3
      <4> HIDE DEF l
      <4> QED BY <4>1
    <3> QED BY <2>6, <3>1, <3>2, <3>3
  <2> QED BY <1>6, <1>2, <2>1, <2>5, <2>6, <2>7, <2>8, FileStep
       DEF CopyKept, CopyForm, DatabaseInv, OrderKept
<1>8. CASE r.nid # Len(copy.status)
  <2>1. app' = "aborted" /\ copy' = copy
    BY <1>1, <1>8
  <2>2. ~Numbered(NodesSaved)
    <3> SUFFICES ASSUME Numbered(NodesSaved) PROVE FALSE
      OBVIOUS
    <3> DEFINE l == Len(copy.status)
               e == Cardinality(NodesSaved) - 1
    <3>1. NodesSaved = 0 .. e /\ e \in Int
      BY RowsCounted DEF Numbered
    <3>2. r.nid \in NodesSaved /\ r.nid \in Nat /\ l \in Nat /\ r.nid # l
      BY <1>3, <1>4, <1>8 DEF NodesSaved
    <3>3. ~(r.nid < l)
      <4> SUFFICES ASSUME r.nid < l PROVE FALSE
        OBVIOUS
      <4>1. r.nid \in 0 .. l - 1
        BY <3>2
      <4>2. PICK q \in file.rows \ copy.todo : q.nid = r.nid
        BY <1>3, <4>1
      <4> QED BY <1>4, <1>5, <4>2
    <3> HIDE DEF l, e
    <3>4. l \in NodesSaved
      BY <3>1, <3>2, <3>3
    <3>5. PICK q \in file.rows : q.nid = l
      BY <3>4 DEF NodesSaved
    <3>6. q \notin copy.todo
      BY <1>1, <3>2, <3>3, <3>5
    <3>7. l \in 0 .. l - 1
      BY <1>3, <3>5, <3>6 DEF l
    <3> QED BY <3>2, <3>7
  <2>3. NodesSaved' = NodesSaved
    BY <1>2 DEF NodesSaved
  <2>4. CopyKept'
    BY <2>1, <2>2, <2>3 DEF DatabaseInv, CopyKept, Numbered
  <2> QED BY <1>2, <1>6, <2>4, FileStep DEF DatabaseInv, OrderKept
<1> QED BY <1>7, <1>8

LEMMA LoadTablesKept ==
  ASSUME DatabaseInv, LoadTables
  PROVE  DatabaseInv'
<1>1. /\ app = "loading" /\ copy.todo = {} /\ app' = "loaded"
      /\ copy' = [copy EXCEPT !.notes = file.notes]
      /\ UNCHANGED <<structureVars, restarts, status, notes, building, save, file>>
  BY DEF LoadTables
<1>2. SaveKept' /\ RowsKept' /\ app' \in Apps
  <2>1. NodeIDs' = NodeIDs
    BY <1>1, TreeStays
  <2>2. SaveKept'
    BY <1>1, <2>1 DEF DatabaseInv, SaveKept
  <2>3. RowsKept'
    BY <1>1 DEF DatabaseInv, RowsKept, Rows, Given
  <2> QED BY <1>1, <2>2, <2>3 DEF Apps
<1>3. CopyKept'
  <2>1. copy' = [nodes |-> copy.nodes, status |-> copy.status, open |-> copy.open,
                 solved |-> copy.solved, notes |-> file.notes, todo |-> copy.todo]
    BY <1>1 DEF DatabaseInv, CopyKept
  <2>2. /\ copy' = [nodes |-> copy'.nodes, status |-> copy'.status, open |-> copy'.open,
                    solved |-> copy'.solved, notes |-> copy'.notes, todo |-> copy'.todo]
        /\ copy'.status = copy.status /\ copy'.todo = copy.todo
    BY <2>1
  <2>3. file' = file
    BY <1>1
  <2> QED BY <1>1, <2>2, <2>3 DEF DatabaseInv, CopyKept
<1> QED BY <1>1, <1>2, <1>3, FileStep DEF DatabaseInv, OrderKept

-----------------------------------------------------------------------------
(* What the invariant implies *)

LEMMA InvGaps ==
  DatabaseInv => GapsAreFatal
<1> SUFFICES ASSUME DatabaseInv PROVE GapsAreFatal
  OBVIOUS
<1>1. ASSUME NEW c \in Nat PROVE Numbered(0 .. c - 1)
  <2>1. Cardinality(0 .. c - 1) = c
    BY FS_Interval
  <2> QED BY <2>1 DEF Numbered
<1>2. ASSUME app = "loaded" PROVE Numbered(NodesSaved)
  <2>1. /\ copy.todo = {} /\ {r.nid : r \in file.rows \ copy.todo} = 0 .. Len(copy.status) - 1
        /\ Len(copy.status) \in Nat
    BY <1>2, LenProperties DEF DatabaseInv, CopyKept
  <2>2. NodesSaved = 0 .. Len(copy.status) - 1
    BY <2>1 DEF NodesSaved
  <2> QED BY <1>1, <2>1, <2>2
<1>3. ASSUME app = "saved", ~save.failed, ~Numbered(NodesSaved)
      PROVE  \E n \in NodeIDs \ {Root} : n \notin ToSet(Children(ParentOf(n)))
  <2>1. NodesSaved = ToSet(save.order)
    <3>1. /\ save.batch = {} /\ RowsDone
          /\ \A r \in Rows : r.nid \in Given
          /\ \A n \in Given : \E r \in Rows : r.nid = n
      BY <1>3 DEF DatabaseInv, RowsKept
    <3>2. NodesSaved = Given
      BY <3>1 DEF NodesSaved, Rows
    <3>3. /\ save.order \in Seq(ToSet(save.order)) /\ Len(save.order) \in Nat
          /\ save.next \in 1 .. Len(save.order) + 1
      BY OnceSet DEF DatabaseInv, SaveKept
    <3>4. 1 .. save.next - 1 = 1 .. Len(save.order) /\ DOMAIN save.order = 1 .. Len(save.order)
      BY <3>1, <3>3, LenProperties DEF RowsDone
    <3> QED BY <3>2, <3>4 DEF Given, ToSet
  <2>2. ~AllPlaced /\ ~building /\ AtRest /\ StructureInv
    BY <1>1, <1>3, <2>1 DEF DatabaseInv, OrderKept
  <2>3. PICK n \in NodeIDs \ {Root} : ~Placed(n)
    BY <2>2 DEF AllPlaced
  <2>4. Parents[n] \in NodeIDs /\ Parents[n] = ParentOf(n)
    <3>1. n \in 0 .. NodeCount - 1 /\ NodeIDs = 0 .. NodeCount - 1
      BY <2>2, Facts
    <3>2. Parents[n] \in 0 .. NodeCount - 1
      BY <2>2, <3>1 DEF StructureInv, Sound
    <3> QED BY <3>1, <3>2 DEF Parents
  <2>5. /\ Kids[ParentOf(n)] = Children(ParentOf(n)) /\ KidsOf(ParentOf(n)) \in Nat
        /\ \A a : Held(Kids, filling, ParentOf(n), a) <=> a \in 1 .. KidsOf(ParentOf(n))
    BY <2>2, <2>4, RestFacts
  <2>6. \A a \in 1 .. KidsOf(ParentOf(n)) : Children(ParentOf(n))[a] # n
    BY <2>3, <2>4, <2>5 DEF Placed
  <2>7. DOMAIN Children(ParentOf(n)) = 1 .. KidsOf(ParentOf(n))
    BY DEF Children
  <2> QED BY <2>6, <2>7 DEF ToSet
<1>4. app = "aborted" /\ save.order # <<>> => ~Numbered(NodesSaved)
  BY DEF DatabaseInv, CopyKept
<1> QED BY <1>2, <1>3, <1>4 DEF GapsAreFatal

LEMMA InvSound ==
  DatabaseInv => StructureSound
<1> SUFFICES ASSUME DatabaseInv PROVE StructureSound
  OBVIOUS
<1>1. ChildrenFaithful
  BY InvFaithful DEF DatabaseInv
<1>2. Cardinality(NodesSaved) = Cardinality(file.rows)
  BY RowsCounted
<1>3. Len(Tables) = 3
  BY DEF Tables
<1>4. /\ status \in Seq(Statuses) /\ Len(status) = NodeCount
      /\ \A t \in TableNames : notes[t] \subseteq NodeIDs
      /\ building \in BOOLEAN
      /\ app \in {"idle", "saving", "saved", "crashed", "loading", "loaded", "aborted"}
  BY DEF DatabaseInv, BesideKept, Apps
<1>5. save.next \in 1 .. Len(save.order) + 1 /\ save.table \in 1 .. Len(Tables) + 1
  BY <1>3 DEF DatabaseInv, SaveKept
<1>6. TypeOK
  BY <1>2, <1>4, <1>5 DEF TypeOK
<1> QED BY <1>1, <1>6 DEF StructureSound

-----------------------------------------------------------------------------
(* The search log *)

\* The root and every node with children were reported as branches.
BranchesKept ==
  /\ NodeIDs # {} => StatusOf(Root) = "BRANCH"
  /\ \A n \in NodeIDs : Len(Kids[n]) > 0 => StatusOf(n) = "BRANCH"

LEMMA BranchesStart ==
  DatabaseInit => BranchesKept
<1> SUFFICES ASSUME DatabaseInit PROVE BranchesKept
  OBVIOUS
<1>1. NodeIDs = {}
  <2>1. Len(nodes) = 0 /\ 0 .. 0 - 1 = {}
    BY EmptySeq DEF DatabaseInit, StructureInit
  <2> QED BY <2>1 DEF NodeIDs, NodeCount
<1> QED BY <1>1 DEF BranchesKept

LEMMA BranchesStay ==
  ASSUME DatabaseInv, BranchesKept, UNCHANGED <<structureVars, status>>
  PROVE  BranchesKept'
<1>1. NodeIDs' = NodeIDs /\ Kids' = Kids /\ status' = status
  BY StillStep DEF DatabaseInv, NodeIDs
<1> QED BY <1>1 DEF BranchesKept, StatusOf

LEMMA BranchesStep ==
  ASSUME DatabaseInv, DatabaseInv', BranchesKept, [DatabaseNext]_vars
  PROVE  BranchesKept'
<1> USE DEF StatusOf
<1>1. /\ NodeCount \in Nat /\ NodeIDs = 0 .. NodeCount - 1 /\ NodeIDs' = 0 .. NodeCount' - 1
      /\ status \in Seq(Statuses) /\ Len(status) = NodeCount
      /\ Kids = [n \in NodeIDs |-> Kids[n]]
      /\ DOMAIN status = 1 .. NodeCount
  BY Counted, LenProperties DEF DatabaseInv, BesideKept, Kids
<1>2. ASSUME NEW k \in 0 .. MaxKids, Start(k) PROVE BranchesKept'
  <2>1. NodeIDs' = {Root} /\ status' = <<"BRANCH">>
    BY <1>2, RootStep, StructureBounds DEF Start, DatabaseInv
  <2> QED BY <2>1 DEF BranchesKept, Root
<1>3. ASSUME NEW n \in NodeIDs, NEW k \in 0 .. MaxKids, NEW st \in Reported, Promote(n, k, st)
      PROVE  BranchesKept'
  <2>1. /\ StatusOf(n) = "UNDETERMINED" /\ status' = [status EXCEPT ![n + 1] = st]
        /\ IF k > 0 THEN st = "BRANCH" /\ AddChildren(n, k) ELSE UNCHANGED structureVars
    BY <1>3 DEF Promote
  <2>2. n # Root /\ Len(Kids[n]) \in Nat /\ ~(Len(Kids[n]) > 0)
    BY <2>1, Facts DEF BranchesKept, DatabaseInv
  <2>3. \A m \in NodeIDs : m # n => status'[m + 1] = status[m + 1]
    BY <1>1, <2>1
  <2>6. status'[Root + 1] = "BRANCH"
    <3>1. Root \in NodeIDs
      BY <1>1 DEF Root
    <3> QED BY <2>2, <2>3, <3>1 DEF BranchesKept
  <2>4. CASE k > 0
    <3>1. /\ NodeCount' = NodeCount /\ st = "BRANCH"
          /\ \E q : Kids' = [Kids EXCEPT ![n] = q]
      BY <2>1, <2>4, StructureBounds, ChildrenStep DEF DatabaseInv
    <3>2. NodeIDs' = NodeIDs /\ \A m \in NodeIDs : m # n => Kids'[m] = Kids[m]
      BY <1>1, <3>1
    <3>3. status'[n + 1] = "BRANCH"
      BY <1>1, <2>1, <3>1
    <3>4. \A m \in NodeIDs : Len(Kids'[m]) > 0 => status'[m + 1] = "BRANCH"
      BY <2>3, <3>2, <3>3 DEF BranchesKept
    <3> QED BY <2>6, <3>2, <3>4 DEF BranchesKept
  <2>5. CASE ~(k > 0)
    <3>1. NodeIDs' = NodeIDs /\ Kids' = Kids
      BY <2>1, <2>5, StillStep DEF DatabaseInv, NodeIDs
    <3>2. \A m \in NodeIDs : Len(Kids[m]) > 0 => status'[m + 1] = "BRANCH"
      BY <2>2, <2>3 DEF BranchesKept
    <3> QED BY <2>6, <3>1, <3>2 DEF BranchesKept
  <2> QED BY <2>4, <2>5
<1>4. CASE NewRestart
  <2>1. /\ NodeCount' = NodeCount /\ Root \in NodeIDs /\ status' = status
        /\ \E q : Kids' = [Kids EXCEPT ![Root] = q]
    BY <1>4, ExtraStep DEF NewRestart, databaseVars, DatabaseInv, AddExtraChild
  <2>2. NodeIDs' = NodeIDs /\ \A m \in NodeIDs : m # Root => Kids'[m] = Kids[m]
    BY <1>1, <2>1
  <2> QED BY <2>1, <2>2 DEF BranchesKept
<1>5. CASE CreateKid
  <2>1. /\ NodeCount' = NodeCount + 1 /\ Len(Kids'[NodeCount]) = 0
        /\ \A n \in NodeIDs : Len(Kids'[n]) = Len(Kids[n])
        /\ status' = Append(status, "UNDETERMINED") /\ ~AtRest
    BY <1>5, ChildStep DEF CreateKid, DatabaseInv, CreateChild
  <2>2. \A n \in NodeIDs' : n \in NodeIDs \/ n = NodeCount
    BY <1>1, <2>1
  <2>3. \A n \in NodeIDs : status'[n + 1] = status[n + 1]
    <3>1. \A i \in 1 .. Len(status) : status'[i] = status[i]
      BY <1>1, <2>1, AppendProperties DEF Statuses
    <3>2. \A n \in NodeIDs : n + 1 \in 1 .. Len(status)
      BY <1>1
    <3> QED BY <3>1, <3>2
  <2>4. Root \in NodeIDs
    <3>1. filling.pid \in NodeIDs
      BY <2>1 DEF DatabaseInv, StructureInv, Sound, AtRest, NodeIDs
    <3> QED BY <1>1, <3>1 DEF Root
  <2>5. status'[Root + 1] = "BRANCH"
    BY <2>3, <2>4 DEF BranchesKept
  <2>6. ASSUME NEW n \in NodeIDs', Len(Kids'[n]) > 0 PROVE status'[n + 1] = "BRANCH"
    <3>1. n \in NodeIDs
      BY <2>1, <2>2, <2>6
    <3>2. Len(Kids[n]) > 0
      BY <2>1, <2>6, <3>1
    <3> QED BY <2>3, <3>1, <3>2 DEF BranchesKept
  <2> QED BY <2>5, <2>6 DEF BranchesKept
<1>6. ASSUME NEW n, RemoveNode(n) PROVE BranchesKept'
  <2>1. PICK p, alt : RemoveAlt(p, alt)
    BY <1>6 DEF RemoveNode
  <2>2. /\ NodeCount' = NodeCount
        /\ \A m \in NodeIDs : Len(Kids'[m]) > 0 => Len(Kids[m]) > 0
    BY <2>1, RemoveStep DEF DatabaseInv
  <2>3. NodeIDs' = NodeIDs /\ status' = status
    BY <1>1, <1>6, <2>2 DEF RemoveNode, databaseVars
  <2> QED BY <2>2, <2>3 DEF BranchesKept
<1>7. CASE UNCHANGED vars
  BY <1>7, BranchesStay DEF vars, databaseVars
<1>8. ASSUME NEW n, ToggleBookmark(n) PROVE BranchesKept'
  BY <1>8, BranchesStay DEF ToggleBookmark
<1>9. CASE \/ FinishBuilding \/ BeginSave \/ SaveRow(TRUE) \/ SaveRow(FALSE) \/ SaveTable \/ Crash
           \/ BeginLoad \/ LoadRow \/ LoadTables
  BY <1>9, BranchesStay DEF FinishBuilding, BeginSave, SaveRow, SaveTable, Crash, BeginLoad, LoadRow, LoadTables
<1> QED BY <1>2, <1>3, <1>4, <1>5, <1>6, <1>7, <1>8, <1>9 DEF DatabaseNext

\* The log has a line for each logged node of T, in the given order.
LinesOf(T, order) ==
  /\ T \subseteq NodeIDs /\ Subtree(NodeCount, Nums, Kids, Parents, Root, T)
  /\ Once(order, T \cap Logged) /\ order[1] = Root /\ Root \in T
  /\ \A m \in T \cap Logged : \A a \in 1 .. Nums[m] : Kids[m][a] \in Logged =>
       /\ Ahead(m, Kids[m][a], order)
       /\ \A b \in 1 .. Nums[m] : a < b /\ Kids[m][b] \in Logged =>
            Ahead(Kids[m][a], Kids[m][b], order)
  /\ DOMAIN SearchLog = 1 .. Len(order) /\ Len(order) \in Nat
  /\ \A i \in 1 .. Len(order) :
       /\ order[i] \in T \cap Logged
       /\ SearchLog[i].nid = order[i]
       /\ SearchLog[i].kids = Those(Kids[order[i]], Logged)
       /\ SearchLog[i].stop => Kids[order[i]] = <<>>

LEMMA LogLines ==
  ASSUME DatabaseInv, BranchesKept, AtRest, nodes # <<>>
  PROVE  \E T, order : LinesOf(T, order)
<1>1. PICK T : /\ Once(PreOrder, T) /\ PreOrder[1] = Root
               /\ T \subseteq NodeIDs
               /\ Subtree(NodeCount, Nums, Kids, Parents, Root, T)
               /\ InOrder(Nums, Kids, PreOrder)
  BY PreOrderLists DEF DatabaseInv
<1> DEFINE order == Those(PreOrder, Logged)
<1>2. Once(order, T \cap Logged)
  BY <1>1, OnceThose
<1>3. Root \in T /\ Root \in Logged /\ \A m \in T : \A a \in 1 .. Nums[m] : Kids[m][a] \in T
  <2>1. Root \in T /\ \A m \in T : \A a \in 1 .. Nums[m] : Kids[m][a] \in T
    BY <1>1 DEF Subtree
  <2> QED BY <1>1, <2>1 DEF Logged, BranchesKept
<1>4. PreOrder \in Seq(T) /\ ToSet(PreOrder) = T /\ PreOrder # <<>>
  <2>1. PreOrder \in Seq(T) /\ ToSet(PreOrder) = T
    BY <1>1, OnceSet
  <2>2. \E i \in 1 .. Len(PreOrder) : PreOrder[i] = Root
    BY <1>1, <1>3 DEF Once
  <2> QED BY <2>1, <2>2, EmptySeq
<1>5. order[1] = Root
  <2>1. order = HeadIn(PreOrder, Logged) \o Those(Tail(PreOrder), Logged)
    BY <1>4, ThoseTail
  <2>2. HeadIn(PreOrder, Logged) = <<Root>>
    BY <1>1, <1>3 DEF HeadIn
  <2>3. Those(Tail(PreOrder), Logged) \in Seq(T)
    <3>1. Tail(PreOrder) \in Seq(T)
      BY <1>4, QueueTail
    <3> QED BY <3>1, ThoseTyped
  <2>4. PICK u : u = Those(Tail(PreOrder), Logged)
    OBVIOUS
  <2> HIDE DEF order
  <2>5. order = <<Root>> \o u /\ u \in Seq(T) /\ Root \in T
    BY <1>3, <2>1, <2>2, <2>3, <2>4
  <2>6. <<Root>> \in Seq(T)
    BY <1>3
  <2> QED BY <2>5, <2>6, ConcatProperties
<1>6. ASSUME NEW m \in T \cap Logged, NEW a \in 1 .. Nums[m], Kids[m][a] \in Logged
      PROVE  /\ Ahead(m, Kids[m][a], order)
             /\ \A b \in 1 .. Nums[m] : a < b /\ Kids[m][b] \in Logged =>
                  Ahead(Kids[m][a], Kids[m][b], order)
  <2>1. /\ Ahead(m, Kids[m][a], PreOrder)
        /\ \A b \in 1 .. Nums[m] : a < b => Ahead(Kids[m][a], Kids[m][b], PreOrder)
    BY <1>1, <1>4 DEF InOrder
  <2>2. \A x, y \in Logged : Ahead(x, y, PreOrder) => Ahead(x, y, order)
    BY <1>4, ThoseKeepOrder
  <2> HIDE DEF order
  <2> QED BY <1>6, <2>1, <2>2
<1>7. DOMAIN SearchLog = DOMAIN order /\ DOMAIN order = 1 .. Len(order) /\ Len(order) \in Nat
  <2>1. DOMAIN SearchLog = DOMAIN order
    BY DEF SearchLog
  <2>2. order \in Seq(T \cap Logged)
    BY <1>2 DEF Once
  <2> HIDE DEF order
  <2> QED BY <2>1, <2>2, LenProperties
<1>8. ASSUME NEW i \in 1 .. Len(order)
      PROVE  /\ order[i] \in T \cap Logged
             /\ SearchLog[i].nid = order[i]
             /\ SearchLog[i].kids = Those(Kids[order[i]], Logged)
             /\ SearchLog[i].stop => Kids[order[i]] = <<>>
  <2>1. /\ SearchLog[i].nid = order[i]
        /\ SearchLog[i].kids = Those(Children(order[i]), Logged)
        /\ SearchLog[i].stop = (KidsOf(order[i]) = 0 /\ StatusOf(order[i]) = "BRANCH")
    BY <1>7 DEF SearchLog
  <2>2. order[i] \in T \cap Logged
    BY <1>2, ElementOfSeq DEF Once
  <2>3. /\ Kids[order[i]] = Children(order[i]) /\ order[i] \in NodeIDs
        /\ Kids[order[i]] \in Seq(Int) /\ Len(Kids[order[i]]) = KidsOf(order[i])
    <3>1. order[i] \in NodeIDs
      BY <1>1, <2>2
    <3> HIDE DEF order
    <3>2. StructureInv
      BY DEF DatabaseInv
    <3>3. Kids[order[i]] = Children(order[i])
      BY <3>1, <3>2, RestFacts
    <3>4. Kids[order[i]] \in Seq(Int)
      BY <3>1, <3>2 DEF StructureInv, Sound, NodeIDs
    <3>5. Len(Kids[order[i]]) = KidsOf(order[i])
      BY <3>1, <3>2, Facts DEF KidsOf, NodeAt
    <3> QED BY <3>1, <3>3, <3>4, <3>5
  <2> HIDE DEF order
  <2> QED BY <2>1, <2>2, <2>3, EmptySeq
<1> HIDE DEF order
<1>9. \A m \in T \cap Logged : \A a \in 1 .. Nums[m] : Kids[m][a] \in Logged =>
        /\ Ahead(m, Kids[m][a], order)
        /\ \A b \in 1 .. Nums[m] : a < b /\ Kids[m][b] \in Logged =>
             Ahead(Kids[m][a], Kids[m][b], order)
  BY <1>6
<1>10. \A i \in 1 .. Len(order) :
         /\ order[i] \in T \cap Logged
         /\ SearchLog[i].nid = order[i]
         /\ SearchLog[i].kids = Those(Kids[order[i]], Logged)
         /\ SearchLog[i].stop => Kids[order[i]] = <<>>
  BY <1>8
<1>11. LinesOf(T, order)
  BY <1>1, <1>2, <1>3, <1>5, <1>7, <1>9, <1>10 DEF LinesOf
<1> QED BY <1>11

LEMMA InvLog ==
  ASSUME DatabaseInv, BranchesKept
  PROVE  LogReplays
<1> SUFFICES ASSUME nodes # <<>>, AtRest PROVE LogReplays
  BY DEF LogReplays
<1> DEFINE log == SearchLog
           At(n) == CHOOSE i \in DOMAIN log : log[i].nid = n
           kidsOf == UNION {{i} \X DOMAIN log[i].kids : i \in DOMAIN log}
<1>0. PICK T, order : LinesOf(T, order)
  BY LogLines
<1>1. /\ T \subseteq NodeIDs /\ Subtree(NodeCount, Nums, Kids, Parents, Root, T)
      /\ Once(order, T \cap Logged) /\ order[1] = Root /\ Root \in T
      /\ \A m \in T \cap Logged : \A a \in 1 .. Nums[m] : Kids[m][a] \in Logged =>
           /\ Ahead(m, Kids[m][a], order)
           /\ \A b \in 1 .. Nums[m] : a < b /\ Kids[m][b] \in Logged =>
                Ahead(Kids[m][a], Kids[m][b], order)
      /\ DOMAIN log = 1 .. Len(order) /\ Len(order) \in Nat
      /\ \A i \in 1 .. Len(order) :
           /\ order[i] \in T \cap Logged
           /\ log[i].nid = order[i]
           /\ log[i].kids = Those(Kids[order[i]], Logged)
           /\ log[i].stop => Kids[order[i]] = <<>>
  BY <1>0 DEF LinesOf
<1>2. /\ \A m \in T : m = Root \/ (Parents[m] \in T /\ \E a \in 1 .. Nums[Parents[m]] : Kids[Parents[m]][a] = m)
      /\ \A m \in T : \A a \in 1 .. Nums[m] : Kids[m][a] \in T
  BY <1>1 DEF Subtree
<1>3. /\ \A x \in T \cap Logged : \E i \in 1 .. Len(order) : order[i] = x
      /\ \A i, j \in 1 .. Len(order) : order[i] = order[j] => i = j
  BY <1>1 DEF Once
<1>4. \A m \in T : /\ Kids[m] \in Seq(Int) /\ Len(Kids[m]) = Nums[m] /\ Nums[m] \in Nat
                   /\ \A a \in 1 .. Nums[m] : Parents[Kids[m][a]] = m
                   /\ \A a, b \in 1 .. Nums[m] : Kids[m][a] = Kids[m][b] => a = b
                   /\ Nums[m] > 0 => m \in Logged
  <2>1. ASSUME NEW m \in T
        PROVE  /\ Kids[m] \in Seq(Int) /\ Len(Kids[m]) = Nums[m] /\ Nums[m] \in Nat
               /\ \A a \in 1 .. Nums[m] : Parents[Kids[m][a]] = m
               /\ \A a, b \in 1 .. Nums[m] : Kids[m][a] = Kids[m][b] => a = b
               /\ Nums[m] > 0 => m \in Logged
    <3>1. m \in NodeIDs /\ m \in 0 .. NodeCount - 1
      BY <1>1 DEF NodeIDs
    <3>2. /\ Kids[m] \in Seq(Int) /\ Len(Kids[m]) = Nums[m] /\ Nums[m] \in Nat
      <4>1. StructureInv
        BY DEF DatabaseInv
      <4>2. Kids[m] \in Seq(Int)
        BY <3>1, <4>1 DEF StructureInv, Sound
      <4>3. Len(Kids[m]) = KidsOf(m)
        BY <3>1, <4>1, Facts DEF KidsOf, NodeAt
      <4>4. KidsOf(m) \in Nat /\ Nums[m] = KidsOf(m)
        BY <3>1, <4>1, RestFacts
      <4> QED BY <4>2, <4>3, <4>4
    <3>3. /\ \A a \in 1 .. Nums[m] : Parents[Kids[m][a]] = m
          /\ \A a, b \in 1 .. Nums[m] : Kids[m][a] = Kids[m][b] => a = b
      BY <3>1, RestFacts DEF Family, DatabaseInv
    <3>4. Nums[m] > 0 => m \in Logged
      BY <3>1, <3>2 DEF BranchesKept, Logged
    <3> QED BY <3>2, <3>3, <3>4
  <2> QED BY <2>1
<1> HIDE DEF log
\* the children announced in line i
<1>5. ASSUME NEW i \in 1 .. Len(order)
      PROVE  /\ DOMAIN log[i].kids = 1 .. Len(log[i].kids)
             /\ \A b \in DOMAIN log[i].kids : \E a \in 1 .. Nums[order[i]] :
                  log[i].kids[b] = Kids[order[i]][a] /\ log[i].kids[b] \in T \cap Logged
             /\ \A a \in 1 .. Nums[order[i]] : Kids[order[i]][a] \in Logged =>
                  \E b \in DOMAIN log[i].kids : log[i].kids[b] = Kids[order[i]][a]
             /\ \A b, d \in DOMAIN log[i].kids :
                  log[i].kids[b] = log[i].kids[d] => b = d
             /\ \A b, d \in DOMAIN log[i].kids : b < d =>
                  Ahead(log[i].kids[b], log[i].kids[d], Kids[order[i]])
  <2> DEFINE n == order[i]
             u == log[i].kids
  <2>1. n \in T /\ u = Those(Kids[n], Logged)
    BY <1>1
  <2> HIDE DEF u, n
  <2>2. /\ Kids[n] \in Seq(Int) /\ Len(Kids[n]) = Nums[n] /\ DOMAIN Kids[n] = 1 .. Nums[n]
        /\ \A a, b \in 1 .. Nums[n] : Kids[n][a] = Kids[n][b] => a = b
    BY <1>4, <2>1, LenProperties
  <2>3. /\ u \in Seq(Int) /\ ToSet(u) = ToSet(Kids[n]) \cap Logged
        /\ \A x, y : Ahead(x, y, u) => Ahead(x, y, Kids[n])
    BY <2>1, <2>2, ThoseTyped, ThoseInOrder
  <2>4. DOMAIN u = 1 .. Len(u)
    BY <2>3, LenProperties
  <2>5. ToSet(Kids[n]) = {Kids[n][a] : a \in 1 .. Nums[n]}
    BY <2>2 DEF ToSet
  <2>6. ToSet(u) = {u[b] : b \in DOMAIN u}
    BY DEF ToSet
  <2>7. \A b \in DOMAIN u : \E a \in 1 .. Nums[n] : u[b] = Kids[n][a] /\ u[b] \in T \cap Logged
    <3>1. ASSUME NEW b \in DOMAIN u
          PROVE  \E a \in 1 .. Nums[n] : u[b] = Kids[n][a] /\ u[b] \in T \cap Logged
      <4>1. u[b] \in ToSet(Kids[n]) /\ u[b] \in Logged
        BY <2>3, <2>6
      <4>2. PICK a \in 1 .. Nums[n] : u[b] = Kids[n][a]
        BY <2>5, <4>1
      <4>3. u[b] \in T
        BY <1>2, <2>1, <4>2
      <4> QED BY <4>1, <4>2, <4>3
    <3> QED BY <3>1
  <2>8. \A a \in 1 .. Nums[n] : Kids[n][a] \in Logged => \E b \in DOMAIN u : u[b] = Kids[n][a]
    BY <2>3, <2>5, <2>6
  <2>9. Once(Kids[n], ToSet(Kids[n]))
    <3>1. Kids[n] \in Seq(ToSet(Kids[n]))
      <4> DEFINE k == Kids[n]
                 V == ToSet(k)
      <4>1. k \in Seq(Int) /\ \A a \in 1 .. Len(k) : k[a] \in V
        BY <2>2 DEF ToSet
      <4> HIDE DEF k, V
      <4>2. k \in Seq(V)
        BY <4>1, LenProperties, SeqDef
      <4> QED BY <4>2 DEF k, V
    <3>2. \A x \in ToSet(Kids[n]) : \E a \in 1 .. Len(Kids[n]) : Kids[n][a] = x
      BY <2>2, <2>5
    <3> QED BY <2>2, <3>1, <3>2 DEF Once
  <2>10. \A b, d \in DOMAIN u : u[b] = u[d] => b = d
    <3>1. Once(u, ToSet(Kids[n]) \cap Logged)
      BY <2>1, <2>9, OnceThose
    <3> QED BY <2>4, <3>1 DEF Once
  <2>11. \A b, d \in DOMAIN u : b < d => Ahead(u[b], u[d], Kids[n])
    <3>1. \A b, d \in DOMAIN u : b < d => Ahead(u[b], u[d], u)
      BY DEF Ahead
    <3> QED BY <2>3, <3>1
  <2> QED BY <2>4, <2>7, <2>8, <2>10, <2>11 DEF n, u
<1>6. \A i, b : <<i, b>> \in kidsOf <=> i \in 1 .. Len(order) /\ b \in DOMAIN log[i].kids
  BY <1>1
<1>7. \A c \in kidsOf : c = <<c[1], c[2]>>
  OBVIOUS
<1>8. \A x \in T \cap Logged : At(x) \in 1 .. Len(order) /\ order[At(x)] = x
  <2>1. ASSUME NEW x \in T \cap Logged PROVE At(x) \in 1 .. Len(order) /\ order[At(x)] = x
    <3>1. \E i \in DOMAIN log : log[i].nid = x
      BY <1>1, <1>3
    <3>2. At(x) \in DOMAIN log /\ log[At(x)].nid = x
      BY <3>1
    <3> HIDE DEF At
    <3> QED BY <1>1, <3>2
  <2> QED BY <2>1
<1> HIDE DEF kidsOf, At
<1>9. ASSUME NEW x \in T \cap Logged, NEW y \in T \cap Logged, Ahead(x, y, order) PROVE At(x) < At(y)
  BY <1>1, <1>8, <1>9, OnceAhead
<1>10. log[1].nid = Root
  <2>1. 1 \in 1 .. Len(order)
    <3>1. Root \in T \cap Logged
      <4>1. Root \in Logged
        BY <1>1 DEF BranchesKept, Logged
      <4> QED BY <1>1, <4>1
    <3> QED BY <1>1, <1>3, <3>1
  <2> QED BY <1>1, <2>1
<1>11. ASSUME NEW i \in DOMAIN log \ {1}
       PROVE  Cardinality({c \in kidsOf : log[c[1]].kids[c[2]] = log[i].nid}) = 1
  <2> DEFINE m == order[i]
             p == Parents[m]
             C == {c \in kidsOf : log[c[1]].kids[c[2]] = log[i].nid}
  <2>1. i \in 1 .. Len(order) /\ i # 1 /\ 1 \in 1 .. Len(order) /\ log[i].nid = m /\ m \in T \cap Logged
    BY <1>1
  <2>2. m # Root
    BY <1>1, <1>3, <2>1
  <2> HIDE DEF m, p
  <2>3. p \in T /\ \E a \in 1 .. Nums[p] : Kids[p][a] = m
    BY <1>2, <2>1, <2>2 DEF p
  <2>4. PICK a \in 1 .. Nums[p] : Kids[p][a] = m
    BY <2>3
  <2>5. p \in Logged
    BY <1>4, <2>3, <2>4
  <2>6. PICK j \in 1 .. Len(order) : order[j] = p
    BY <1>3, <2>3, <2>5
  <2>7. PICK b \in DOMAIN log[j].kids : log[j].kids[b] = m
    BY <1>5, <2>1, <2>4, <2>6
  <2>8. <<j, b>> \in C
    BY <1>6, <2>1, <2>6, <2>7
  <2>9. ASSUME NEW c \in C PROVE c = <<j, b>>
    <3>1. /\ c = <<c[1], c[2]>> /\ c[1] \in 1 .. Len(order) /\ c[2] \in DOMAIN log[c[1]].kids
          /\ log[c[1]].kids[c[2]] = m
      BY <1>6, <1>7, <2>1
    <3>2. PICK d \in 1 .. Nums[order[c[1]]] : Kids[order[c[1]]][d] = m
      BY <1>5, <3>1
    <3>3. order[c[1]] \in T
      BY <1>1, <3>1
    <3>4. order[c[1]] = p
      BY <1>4, <3>2, <3>3 DEF p
    <3>5. c[1] = j
      BY <1>3, <2>6, <3>1, <3>4
    <3>6. c[2] = b
      BY <1>5, <2>6, <2>7, <3>1, <3>5
    <3> QED BY <3>1, <3>5, <3>6
  <2>10. C = {<<j, b>>}
    <3> HIDE DEF C
    <3> QED BY <2>8, <2>9
  <2> HIDE DEF C
  <2>11. Cardinality(C) = 1
    BY <2>10, FS_Singleton
  <2> QED BY <2>11 DEF C
<1>12. ASSUME NEW c \in kidsOf
       PROVE  /\ \E i \in DOMAIN log : log[i].nid = log[c[1]].kids[c[2]]
              /\ At(log[c[1]].kids[c[2]]) > c[1]
              /\ c[2] > 1 => At(log[c[1]].kids[c[2] - 1]) < At(log[c[1]].kids[c[2]])
  <2> DEFINE i == c[1]
             b == c[2]
             n == order[i]
             m == log[i].kids[b]
  <2>1. i \in 1 .. Len(order) /\ b \in DOMAIN log[i].kids
    BY <1>6, <1>7
  <2> HIDE DEF i, b
  <2>2. PICK a \in 1 .. Nums[n] : m = Kids[n][a] /\ m \in T \cap Logged
    BY <1>5, <2>1
  <2>3. n \in T \cap Logged
    BY <1>1, <2>1
  <2>4. Ahead(n, m, order)
    BY <1>1, <2>2, <2>3
  <2>5. At(n) = i
    BY <1>3, <1>8, <2>1, <2>3
  <2>6. At(m) > i
    <3>1. At(n) < At(m)
      BY <1>9, <2>2, <2>3, <2>4
    <3>2. At(m) \in Int /\ i \in Int
      BY <1>8, <2>1, <2>2
    <3> HIDE DEF n, m
    <3> QED BY <2>5, <3>1, <3>2
  <2>7. ASSUME b > 1 PROVE At(log[i].kids[b - 1]) < At(m)
    <3> DEFINE x == log[i].kids[b - 1]
    <3>1. DOMAIN log[i].kids = 1 .. Len(log[i].kids)
      BY <1>5, <2>1
    <3>2. b - 1 \in DOMAIN log[i].kids /\ b - 1 < b
      BY <2>1, <2>7, <3>1
    <3>3. Ahead(x, m, Kids[n])
      BY <1>5, <2>1, <3>2
    <3>4. x \in T \cap Logged
      BY <1>5, <2>1, <3>2
    <3> HIDE DEF x, m
    <3>5. Kids[n] \in Seq(Int) /\ DOMAIN Kids[n] = 1 .. Nums[n]
      BY <1>4, <2>3, LenProperties
    <3>6. PICK d, e \in 1 .. Nums[n] : d < e /\ Kids[n][d] = x /\ Kids[n][e] = m
      BY <3>3, <3>5 DEF Ahead
    <3>7. Ahead(x, m, order)
      BY <1>1, <2>2, <2>3, <3>4, <3>6
    <3> QED BY <1>9, <2>2, <3>4, <3>7 DEF x
  <2>8. \E j \in DOMAIN log : log[j].nid = m
    BY <1>1, <1>8, <2>2
  <2> QED BY <2>6, <2>7, <2>8 DEF i, b
<1>13. ASSUME NEW i \in DOMAIN log, log[i].stop PROVE log[i].kids = <<>>
  <2>1. Kids[order[i]] = <<>> /\ log[i].kids = Those(Kids[order[i]], Logged)
    BY <1>1, <1>13
  <2> QED BY <2>1, ThoseEmpty
<1> QED BY <1>10, <1>11, <1>12, <1>13 DEF LogReplays, log, At, kidsOf

-----------------------------------------------------------------------------
(* The theorems *)

LEMMA StepsKept ==
  ASSUME DatabaseInv, [DatabaseNext]_vars
  PROVE  DatabaseInv'
<1>1. CASE UNCHANGED vars
  <2>1. UNCHANGED <<structureVars, status, notes, building, app, save, file, copy>>
    BY <1>1 DEF vars, databaseVars
  <2>2. BesideKept' /\ OrderKept'
    BY <2>1, TreeStays DEF DatabaseInv, BesideKept, OrderKept
  <2> QED BY <2>1, <2>2, TreeStays, FileStays DEF DatabaseInv
<1>2. ASSUME NEW k \in 0 .. MaxKids, Start(k) PROVE DatabaseInv'
  BY <1>2, StartKept
<1>3. ASSUME NEW n \in NodeIDs, NEW k \in 0 .. MaxKids, NEW st \in Reported, Promote(n, k, st)
      PROVE  DatabaseInv'
  BY <1>3, PromoteKept
<1>4. CASE NewRestart
  BY <1>4, NewRestartKept
<1>5. CASE CreateKid
  BY <1>5, CreateKidKept
<1>6. CASE FinishBuilding
  BY <1>6, FinishBuildingKept
<1>7. ASSUME NEW n, RemoveNode(n) PROVE DatabaseInv'
  BY <1>7, RemoveNodeKept
<1>8. ASSUME NEW n, ToggleBookmark(n) PROVE DatabaseInv'
  BY <1>8, ToggleBookmarkKept
<1>9. CASE BeginSave
  BY <1>9, BeginSaveKept
<1>10. CASE SaveRow(TRUE)
  BY <1>10, SaveRowKept
<1>11. CASE SaveRow(FALSE)
  BY <1>11, SaveRowKept
<1>12. CASE SaveTable
  BY <1>12, SaveTableKept
<1>13. CASE Crash
  BY <1>13, CrashKept
<1>14. CASE BeginLoad
  BY <1>14, BeginLoadKept
<1>15. CASE LoadRow
  BY <1>15, LoadRowKept
<1>16. CASE LoadTables
  BY <1>16, LoadTablesKept
<1> QED BY <1>1, <1>2, <1>3, <1>4, <1>5, <1>6, <1>7, <1>8, <1>9, <1>10, <1>11, <1>12,
           <1>13, <1>14, <1>15, <1>16 DEF DatabaseNext

LEMMA DatabaseStarts ==
  DatabaseInit => DatabaseInv
<1> SUFFICES ASSUME DatabaseInit PROVE DatabaseInv
  OBVIOUS
<1>1. StructureInv
  BY StructureStarts DEF DatabaseInit
<1>2. nodes = <<>> /\ NodeCount = 0 /\ NodeIDs = {}
  <2>1. nodes = <<>> /\ NodeCount = 0
    BY EmptySeq DEF DatabaseInit, StructureInit, NodeCount
  <2> QED BY <2>1 DEF NodeIDs
<1>3. /\ status = <<>> /\ notes = NoNotes /\ building = TRUE
      /\ app = "idle" /\ save = NoSave /\ file = EmptyFile /\ copy = NoCopy
  BY DEF DatabaseInit
<1>4. BesideKept
  <2>1. status \in Seq(Statuses) /\ Len(status) = 0
    BY <1>3, EmptySeq
  <2>2. notes \in [TableNames -> SUBSET NodeIDs]
    BY <1>2, <1>3 DEF NoNotes
  <2> QED BY <1>2, <1>3, <2>1, <2>2 DEF BesideKept, Apps
<1>5. /\ save.order = <<>> /\ save.next = 1 /\ save.batch = {} /\ save.table = 1
      /\ save.failed = FALSE /\ save.grows = FALSE
  BY <1>3 DEF NoSave
<1>6. ToSet(save.order) = {} /\ Len(save.order) = 0
  BY <1>5, EmptySeq DEF ToSet
<1>7. SaveKept
  <2>1. save = [order |-> save.order, next |-> save.next, batch |-> save.batch,
                table |-> save.table, failed |-> save.failed, grows |-> save.grows]
    BY <1>3, <1>5 DEF NoSave
  <2>2. Once(save.order, ToSet(save.order)) /\ ToSet(save.order) \subseteq NodeIDs
    BY <1>5, <1>6, OnceNone
  <2>3. save.next \in 1 .. Len(save.order) + 1 /\ save.table \in 1 .. 4 /\ save.table <= 3
    BY <1>5, <1>6
  <2>4. save.failed \in BOOLEAN
    BY <1>5
  <2> QED BY <1>3, <2>1, <2>2, <2>3, <2>4 DEF SaveKept
<1>8. RowsKept
  <2>1. Rows = {} /\ Given = {} /\ file = [rows |-> file.rows, notes |-> file.notes]
    BY <1>3, <1>5 DEF EmptyFile, Rows, Given
  <2> QED BY <1>3, <1>5, <2>1, FS_EmptySet DEF RowsKept
<1>9. OrderKept
  <2>1. AllPlaced
    BY <1>2 DEF AllPlaced
  <2>2. ToSet(save.order) = 0 .. 0 - 1
    BY <1>6
  <2> QED BY <1>3, <2>1, <2>2 DEF OrderKept
<1>10. CopyKept
  <2>1. copy = [nodes |-> copy.nodes, status |-> copy.status, open |-> copy.open,
                solved |-> copy.solved, notes |-> copy.notes, todo |-> copy.todo]
    BY <1>3 DEF NoCopy
  <2>2. copy.status \in Seq(Statuses)
    BY <1>3, EmptySeq DEF NoCopy
  <2> QED BY <1>3, <2>1, <2>2 DEF CopyKept
<1> QED BY <1>1, <1>4, <1>7, <1>8, <1>9, <1>10 DEF DatabaseInv

\* Saving beside a builder, a crash, inserts that fail, loading and removing
\* nodes keep the tree in order and every row in the file that of a node whose
\* turn has come (db_handler.cpp:46-95 and 182-438, node_tree.cpp:351-361).
THEOREM DatabaseInvariant == Spec => []DatabaseInv
<1>1. DatabaseInv /\ [DatabaseNext]_vars => DatabaseInv'
  BY StepsKept
<1> QED BY <1>1, DatabaseStarts, PTL DEF Spec

\* No node is written twice, there is a status for every node, and also while
\* the builder goes on during a save every filled place of a node reads as a
\* node whose parent it is (node.cpp:37-214, db_handler.cpp:340-371).
THEOREM DatabaseIsSound == Spec => []StructureSound
BY DatabaseInvariant, InvSound, PTL

\* Loading stops the program exactly when the saved ids have a gap, and a save
\* in which nothing fails leaves one only if a node was removed: pre_order
\* visits every other node once, in whatever order the builder created them
\* (db_handler.cpp:57-95, node_info.cpp:60-68).
THEOREM GapsStopALoad == Spec => []GapsAreFatal
BY DatabaseInvariant, InvGaps, PTL

\* Whatever the program does with a tree, its packed nodes are lists of
\* children (structure.cpp:26-163).
THEOREM DatabaseKeepsLists == Spec => ImplementsChildLists
<1>1. DatabaseInit => Abstract!Init
  BY StructureStarts DEF DatabaseInit
<1>2. DatabaseInv /\ [DatabaseNext]_vars => [Abstract!Next]_Lists
  BY StepsOfTheTree DEF Steps, DatabaseInv
<1> QED BY <1>1, <1>2, DatabaseInvariant, PTL DEF Spec, ImplementsChildLists, Abstract!Spec

\* Replaying the search log of any tree rebuilds what was explored: pre_order
\* visits a node before its children and these in their order, a node with
\* children is logged because it was reported as a branch, and a line announces
\* exactly the logged children (conductor.cpp:397-459).
THEOREM LogsReplay == Spec => []LogReplays
<1>1. DatabaseInit => DatabaseInv /\ BranchesKept
  BY DatabaseStarts, BranchesStart
<1>2. DatabaseInv /\ BranchesKept /\ [DatabaseNext]_vars => DatabaseInv' /\ BranchesKept'
  BY StepsKept, BranchesStep
<1>3. DatabaseInv /\ BranchesKept => LogReplays
  BY InvLog
<1> QED BY <1>1, <1>2, <1>3, PTL DEF Spec

-----------------------------------------------------------------------------
(* The flags of a tree that grows by one leaf after the other *)

Tip(c, par, m) == \A k \in 1 .. c - 1 : par[k] # m

\* What LoadedFlags says, of a tree given by parents and their ancestors.
Flagged(c, par, up, st, open, solved) ==
  \A n \in 0 .. c - 1 :
    /\ solved[n + 1] <=> \E m \in 0 .. c - 1 : n \in up[m] /\ st[m + 1] = "SOLVED"
    /\ (\A m \in 0 .. c - 1 : n \in up[m] /\ Tip(c, par, m) => st[m + 1] \in ClosingStatuses)
         => ~open[n + 1]

\* Node c - 1 has come to those before it, closes the nodes in closed if its
\* status is a closing one, and tells its ancestors of a solution.
OneLeaf(c, par, up, st, open, solved, st2, open2, solved2, closed) ==
  LET k == c - 1
      stays(x) == /\ st2[x + 1] # "UNDETERMINED"
                  /\ x # k /\ ~open[x + 1]
  IN /\ Lineage(c, par, up) /\ k \in Nat \ {0}
     /\ \A m \in 0 .. k - 1 : st2[m + 1] = st[m + 1]
     /\ \A m \in 0 .. k : ~Tip(c, par, m) => st2[m + 1] = "BRANCH"
     /\ k \in closed
     /\ \A x \in closed \cap 1 .. k :
          (\A y \in 1 .. k : par[y] = par[x] /\ y # x => stays(y)) => par[x] \in closed
     /\ \A m \in 0 .. k :
          open2[m + 1] <=> (m = k \/ open[m + 1]) /\ ~(st2[k + 1] \in ClosingStatuses /\ m \in closed)
     /\ \A m \in 0 .. k :
          solved2[m + 1] <=> (m # k /\ solved[m + 1]) \/ (st2[k + 1] = "SOLVED" /\ m \in up[k])

LEMMA FlagsGrow ==
  ASSUME NEW c, NEW par, NEW up, NEW st, NEW open, NEW solved, NEW st2, NEW open2, NEW solved2,
         NEW closed, OneLeaf(c, par, up, st, open, solved, st2, open2, solved2, closed),
         Flagged(c - 1, par, up, st, open, solved)
  PROVE  Flagged(c, par, up, st2, open2, solved2)
<1> DEFINE k == c - 1
           p == par[k]
           Closing(n) == \A m \in 0 .. c - 1 :
                           n \in up[m] /\ Tip(c, par, m) => st2[m + 1] \in ClosingStatuses
<1>1. /\ c \in Nat /\ k \in Nat \ {0} /\ c = k + 1 /\ k \in 0 .. c - 1
      /\ \A n \in 1 .. k : par[n] \in 0 .. n - 1
      /\ p \in 0 .. k - 1
      /\ \A m \in 0 .. k : m = k \/ m \in 0 .. k - 1
      /\ \A m \in 0 .. k - 1 : m # k /\ m \in 0 .. k
  BY DEF OneLeaf, Lineage, Upward
<1>2. \A m \in 0 .. k :
        /\ m \in up[m] /\ up[m] \subseteq 0 .. m
        /\ \A x \in up[m] : up[x] \subseteq up[m]
        /\ \A x \in up[m] : x = m \/ \E y \in up[m] \ {0} : par[y] = x
        /\ \A x, y \in up[m] \ {0} : par[x] = par[y] => x = y
        /\ up[m] = {m} \cup (IF m # 0 THEN up[par[m]] ELSE {})
  <2>1. /\ Lineage(c, par, up)
        /\ \A m \in 0 .. k : m \in 0 .. c - 1 /\ (m \in 1 .. c - 1 <=> m # 0)
    BY <1>1 DEF OneLeaf
  <2>2. \A m \in 0 .. c - 1 : up[m] = {m} \cup (IF m \in 1 .. c - 1 THEN up[par[m]] ELSE {})
    BY <2>1 DEF Climb, Lineage
  <2> HIDE DEF k
  <2> QED BY <2>1, <2>2, LineageIs
<1>3. Tip(c, par, k)
  <2>1. \A n \in 1 .. c - 1 : par[n] # k
    BY <1>1
  <2> QED BY <2>1 DEF Tip
\* only the parent of the new node stops being a tip
<1>4. \A m \in 0 .. k - 1 : m # p => (Tip(c, par, m) <=> Tip(k, par, m))
  <2> SUFFICES ASSUME NEW m \in 0 .. k - 1, m # p PROVE Tip(c, par, m) <=> Tip(k, par, m)
    OBVIOUS
  <2>1. \A n \in 1 .. c - 1 : n = k \/ n \in 1 .. k - 1
    BY <1>1
  <2>2. \A n \in 1 .. k - 1 : n \in 1 .. c - 1
    BY <1>1
  <2> QED BY <2>1, <2>2 DEF Tip
\* nothing changed below a node that is not above the new one
<1>5. ASSUME NEW n \in 0 .. k - 1, n \notin up[k],
             \A m \in 0 .. c - 1 : n \in up[m] /\ Tip(c, par, m) => st2[m + 1] \in ClosingStatuses
      PROVE  ~open[n + 1]
  <2>1. ASSUME NEW m \in 0 .. k - 1, n \in up[m], Tip(k, par, m)
        PROVE  st[m + 1] \in ClosingStatuses
    <3>1. m # p
      BY <1>1, <1>2, <1>5, <2>1
    <3>2. Tip(c, par, m) /\ m \in 0 .. c - 1
      BY <1>1, <1>4, <2>1, <3>1
    <3>3. st2[m + 1] = st[m + 1]
      BY DEF OneLeaf
    <3> QED BY <1>5, <2>1, <3>2, <3>3
  <2> QED BY <2>1 DEF Flagged
\* all that is between a closing node and the new one is closed
<1>6. ASSUME NEW n \in up[k], Closing(n) PROVE n \in closed
  <2> DEFINE S == {x \in 0 .. c - 1 : x \in up[k] /\ n \in up[x] => x \in closed}
  <2>1. ASSUME NEW x \in 0 .. c - 1, \A m \in x + 1 .. c - 1 : m \in S,
               x \in up[k], n \in up[x], x # k
        PROVE  x \in closed
    <3>1. PICK y \in up[k] \ {0} : par[y] = x
      BY <1>1, <1>2, <2>1
    <3>2. y \in 1 .. k /\ x \in 0 .. y - 1 /\ y \in x + 1 .. c - 1
      <4>1. y \in 0 .. k /\ y # 0
        BY <1>1, <1>2
      <4>2. y \in 1 .. k
        BY <4>1
      <4>3. x \in 0 .. y - 1
        BY <1>1, <3>1, <4>2
      <4> HIDE DEF k
      <4> QED BY <1>1, <4>2, <4>3
    <3>3. n \in up[y]
      <4>1. up[y] = {y} \cup up[x]
        BY <1>2, <3>1, <3>2
      <4> QED BY <2>1, <4>1
    <3>4. y \in closed \cap 1 .. k
      <4> HIDE DEF k
      <4> QED BY <2>1, <3>1, <3>2, <3>3
    <3>5. ASSUME NEW z \in 1 .. k, par[z] = x, z # y
          PROVE  st2[z + 1] # "UNDETERMINED" /\ z # k /\ ~open[z + 1]
      <4>1. z \notin up[k]
        <5>1. \A x1, y1 \in up[k] \ {0} : par[x1] = par[y1] => x1 = y1
          BY <1>1, <1>2
        <5> HIDE DEF k
        <5> QED BY <3>1, <3>5, <5>1
      <4>2. z \in 0 .. k - 1 /\ z # k /\ z \in 0 .. c - 1
        BY <1>1, <1>2, <4>1
      <4>3. n \in up[z] /\ \A m \in 0 .. k : z \in up[m] => n \in up[m]
        <5>1. up[z] = {z} \cup up[x]
          BY <1>2, <3>5, <4>2
        <5> QED BY <1>2, <2>1, <5>1
      <4>4. \A m \in 0 .. c - 1 : z \in up[m] /\ Tip(c, par, m) => st2[m + 1] \in ClosingStatuses
        BY <1>1, <1>6, <4>3
      <4>5. ~open[z + 1]
        BY <1>5, <4>1, <4>2, <4>4
      <4>6. st2[z + 1] # "UNDETERMINED"
        <5>1. CASE Tip(c, par, z)
          <6>1. st2[z + 1] \in ClosingStatuses
            BY <4>2, <4>3, <1>6, <5>1
          <6> QED BY <6>1 DEF ClosingStatuses
        <5>2. CASE ~Tip(c, par, z)
          BY <1>1, <4>2, <5>2 DEF OneLeaf
        <5> QED BY <5>1, <5>2
      <4> QED BY <4>2, <4>5, <4>6
    <3> QED BY <3>1, <3>4, <3>5 DEF OneLeaf
  <2>2. \A x \in 0 .. c - 1 : (\A m \in x + 1 .. c - 1 : m \in S) => x \in S
    BY <2>1 DEF OneLeaf
  <2>3. 0 .. c - 1 \subseteq S
    <3>1. c \in Nat
      BY <1>1
    <3> HIDE DEF S
    <3> QED BY <2>2, <3>1, BackwardInduction
  <2>4. n \in 0 .. c - 1 /\ n \in up[n]
    BY <1>1, <1>2
  <2> QED BY <2>3, <2>4
<1>7. ASSUME NEW n \in 0 .. k, Closing(n) PROVE ~open2[n + 1]
  <2>1. CASE n \notin up[k]
    <3>1. n # k /\ n \in 0 .. k - 1
      BY <1>1, <1>2, <2>1
    <3>2. ~open[n + 1]
      BY <1>5, <1>7, <2>1, <3>1
    <3> QED BY <3>1, <3>2 DEF OneLeaf
  <2>2. CASE n \in up[k]
    <3>1. st2[k + 1] \in ClosingStatuses
      BY <1>1, <1>3, <1>7, <2>2
    <3>2. n \in closed
      BY <1>6, <1>7, <2>2
    <3> QED BY <3>1, <3>2 DEF OneLeaf
  <2> QED BY <2>1, <2>2
<1>8. ASSUME NEW n \in 0 .. k
      PROVE  solved2[n + 1] <=> \E m \in 0 .. c - 1 : n \in up[m] /\ st2[m + 1] = "SOLVED"
  <2>1. solved2[n + 1] <=> (n # k /\ solved[n + 1]) \/ (st2[k + 1] = "SOLVED" /\ n \in up[k])
    BY DEF OneLeaf
  <2>2. \A m \in 0 .. k - 1 : st2[m + 1] = st[m + 1]
    BY DEF OneLeaf
  <2>3. n # k => (solved[n + 1] <=> \E m \in 0 .. k - 1 : n \in up[m] /\ st[m + 1] = "SOLVED")
    BY <1>1 DEF Flagged
  <2>4. n = k => ~ \E m \in 0 .. k - 1 : n \in up[m]
    BY <1>1, <1>2
  <2>5. (\E m \in 0 .. c - 1 : n \in up[m] /\ st2[m + 1] = "SOLVED")
          <=> \/ \E m \in 0 .. k - 1 : n \in up[m] /\ st2[m + 1] = "SOLVED"
              \/ n \in up[k] /\ st2[k + 1] = "SOLVED"
    BY <1>1
  <2> QED BY <2>1, <2>2, <2>3, <2>4, <2>5
<1> QED BY <1>7, <1>8 DEF Flagged

-----------------------------------------------------------------------------
(* The nodes of the copy *)

CopyList(ns, n) == KidSeq(ns[n + 1])

\* Of l nodes loaded, node n has its parent and its first children, those of
\* them that are loaded.
Copied(ns, l, n) ==
  /\ Packed(ns[n + 1]) /\ ns[n + 1].parent = Parents[n]
  /\ Len(CopyList(ns, n)) <= Len(Kids[n])
  /\ \A a \in 1 .. Len(CopyList(ns, n)) :
       Held(Kids, filling, n, a) /\ CopyList(ns, n)[a] = Kids[n][a] /\ Kids[n][a] < l
  /\ \A a : Held(Kids, filling, n, a) /\ Kids[n][a] < l => a <= Len(CopyList(ns, n))

\* What the tree says of the children in its places.
LEMMA TreeFacts ==
  ASSUME StructureInv
  PROVE  /\ NodeCount \in Nat /\ NodeIDs = 0 .. NodeCount - 1 /\ Upward(NodeCount, Parents)
         /\ NodeIDs # {} => Parents[0] = NoNode
         /\ \A n \in NodeIDs :
              /\ n \in Nat /\ (n = 0 <=> Parents[n] = NoNode)
              /\ n # 0 => Parents[n] \in 0 .. n - 1
              /\ Kids[n] \in Seq(Int) /\ Len(Kids[n]) \in Nat
              /\ \A a : Held(Kids, filling, n, a) =>
                   /\ a \in 1 .. Len(Kids[n])
                   /\ Kids[n][a] \in n + 1 .. NodeCount - 1 /\ Parents[Kids[n][a]] = n
                   /\ \A b \in 1 .. a : Held(Kids, filling, n, b)
                   /\ \A b : Held(Kids, filling, n, b) /\ Kids[n][a] = Kids[n][b] => a = b
<1>1. /\ NodeCount \in Nat /\ NodeIDs = 0 .. NodeCount - 1
      /\ Sound(Kids, Parents, filling, NodeCount)
  BY Facts DEF StructureInv
<1>2. ASSUME NEW n \in NodeIDs
      PROVE  /\ n \in Nat /\ (n = 0 <=> Parents[n] = NoNode)
             /\ n # 0 => Parents[n] \in 0 .. n - 1
             /\ Kids[n] \in Seq(Int) /\ Len(Kids[n]) \in Nat
  <2>1. /\ n \in 0 .. NodeCount - 1 /\ Kids[n] \in Seq(Int)
        /\ IF n = Root THEN Parents[n] = NoNode
                       ELSE Parents[n] \in 0 .. NodeCount - 1 /\ Parents[n] < n
    BY <1>1 DEF Sound
  <2> QED BY <2>1, LenProperties DEF Root, NoNode
<1>3. ASSUME NEW n \in NodeIDs, NEW a, Held(Kids, filling, n, a)
      PROVE  /\ a \in 1 .. Len(Kids[n])
             /\ Kids[n][a] \in n + 1 .. NodeCount - 1 /\ Parents[Kids[n][a]] = n
             /\ \A b \in 1 .. a : Held(Kids, filling, n, b)
             /\ \A b : Held(Kids, filling, n, b) /\ Kids[n][a] = Kids[n][b] => a = b
  <2>1. a \in 1 .. Len(Kids[n])
    BY <1>3 DEF Held
  <2>2. Kids[n][a] \in 1 .. NodeCount - 1 /\ Parents[Kids[n][a]] = n
    BY <1>1, <1>3 DEF Sound
  <2>3. Kids[n][a] \in n + 1 .. NodeCount - 1
    <3> DEFINE k == Kids[n][a]
    <3>1. k \in NodeIDs /\ k # 0 /\ k \in 1 .. NodeCount - 1 /\ Parents[k] = n
      BY <1>1, <2>2
    <3>2. Parents[k] \in 0 .. k - 1
      BY <1>2, <3>1
    <3> HIDE DEF k
    <3>3. k \in n + 1 .. NodeCount - 1
      BY <1>1, <3>1, <3>2
    <3> QED BY <3>3 DEF k
  <2>4. \A b \in 1 .. a : Held(Kids, filling, n, b)
    <3>1. filling.alt \in Nat
      BY <1>1 DEF Sound
    <3> QED BY <1>2, <1>3, <2>1, <3>1 DEF Held
  <2>5. \A b : Held(Kids, filling, n, b) /\ Kids[n][a] = Kids[n][b] => a = b
    BY <1>1, <1>3 DEF Sound
  <2> QED BY <2>1, <2>2, <2>3, <2>4, <2>5
<1>4. Upward(NodeCount, Parents)
  <2>1. \A n \in 1 .. NodeCount - 1 : n \in NodeIDs /\ n # 0
    BY <1>1
  <2> QED BY <1>1, <1>2, <2>1 DEF Upward
<1>5. NodeIDs # {} => Parents[0] = NoNode
  <2>1. NodeIDs # {} => 0 \in NodeIDs
    BY <1>1
  <2> QED BY <1>2, <2>1
<1> QED BY <1>1, <1>2, <1>3, <1>4, <1>5

LEMMA CopyListIs ==
  ASSUME NEW ns, NEW n, Packed(ns[n + 1])
  PROVE  /\ CopyList(ns, n) \in Seq(Int) /\ Len(CopyList(ns, n)) \in Nat
         /\ Len(CopyList(ns, n)) = ChildrenCount(ns[n + 1])
         /\ \A a \in 1 .. Len(CopyList(ns, n)) : CopyList(ns, n)[a] = GetChild(ns[n + 1], a - 1)
BY KidSeqIs DEF CopyList

\* The children of a copied node are the loaded nodes with this parent.
LEMMA CopiedKids ==
  ASSUME StructureInv, NEW l \in 0 .. NodeCount, NEW c,
         \A n \in 0 .. l - 1 : Copied(c.nodes, l, n),
         \A n \in 1 .. l - 1 : Placed(n), NEW n \in 0 .. l - 1
  PROVE  CopyKids(c, n) = {k \in 1 .. l - 1 : Parents[k] = n}
<1> DEFINE ns == c.nodes
           q == CopyList(ns, n)
<1>1. NodeCount \in Nat /\ NodeIDs = 0 .. NodeCount - 1 /\ l \in Nat /\ n \in NodeIDs
  <2>1. NodeCount \in Nat /\ NodeIDs = 0 .. NodeCount - 1
    BY TreeFacts
  <2> QED BY <2>1
<1>2. Copied(ns, l, n) /\ Len(q) \in Nat /\ Len(q) = ChildrenCount(ns[n + 1])
      /\ \A a \in 1 .. Len(q) : q[a] = GetChild(ns[n + 1], a - 1)
  BY CopyListIs DEF Copied
<1>3. CopyKids(c, n) = {q[a] : a \in 1 .. Len(q)}
  <2>1. CopyKids(c, n) = {GetChild(ns[n + 1], alt) : alt \in 0 .. Len(q) - 1}
    BY <1>2 DEF CopyKids
  <2>2. \A alt \in 0 .. Len(q) - 1 : alt + 1 \in 1 .. Len(q) /\ (alt + 1) - 1 = alt
    BY <1>2
  <2>3. \A a \in 1 .. Len(q) : a - 1 \in 0 .. Len(q) - 1
    BY <1>2
  <2> HIDE DEF q
  <2> QED BY <1>2, <2>1, <2>2, <2>3
<1>4. ASSUME NEW a \in 1 .. Len(q) PROVE q[a] \in 1 .. l - 1 /\ Parents[q[a]] = n
  <2>1. Held(Kids, filling, n, a) /\ q[a] = Kids[n][a] /\ Kids[n][a] < l
    BY <1>2 DEF Copied
  <2>2. Kids[n][a] \in n + 1 .. NodeCount - 1 /\ Parents[Kids[n][a]] = n
    BY <1>1, <2>1, TreeFacts
  <2> QED BY <1>1, <2>1, <2>2
<1>5. ASSUME NEW k \in 1 .. l - 1, Parents[k] = n PROVE \E a \in 1 .. Len(q) : q[a] = k
  <2>1. PICK a : Held(Kids, filling, n, a) /\ Kids[n][a] = k
    BY <1>5 DEF Placed
  <2>2. k < l /\ a \in 1 .. Len(Kids[n])
    BY <1>1, <2>1 DEF Held
  <2>3. a \in 1 .. Len(q)
    <3>1. a <= Len(q)
      BY <1>2, <2>1, <2>2 DEF Copied
    <3>2. Len(Kids[n]) \in Nat
      BY <1>1, TreeFacts
    <3> QED BY <1>2, <2>2, <3>1, <3>2
  <2>4. q[a] = Kids[n][a]
    BY <1>2, <2>3 DEF Copied
  <2> QED BY <2>1, <2>3, <2>4
<1> HIDE DEF q
<1> QED BY <1>3, <1>4, <1>5

\* db_createRoot, and db_addChild for a child of the next id: it comes to the
\* end of its parent's list, as all before it are loaded and none after it.
LEMMA RootCopied ==
  ASSUME StructureInv, NEW ns, ns[1] = NewNode(NoNode, 0), NodeIDs # {}
  PROVE  Copied(ns, 1, 0) /\ Len(CopyList(ns, 0)) = 0
<1>1. 0 \in NodeIDs /\ Parents[0] = NoNode /\ Len(Kids[0]) \in Nat
  BY TreeFacts
<1>2. /\ Packed(ns[0 + 1]) /\ ns[0 + 1].parent = NoNode
      /\ CopyList(ns, 0) \in Seq(Int) /\ Len(CopyList(ns, 0)) = 0
  BY NewNodePacked, KidSeqNew DEF NoNode, CopyList
<1>3. \A a : Held(Kids, filling, 0, a) => ~(Kids[0][a] < 1)
  BY <1>1, TreeFacts
<1> QED BY <1>1, <1>2, <1>3 DEF Copied

LEMMA ChildCopied ==
  ASSUME StructureInv, Ascending, NEW l \in 1 .. NodeCount - 1, NEW ns,
         \A n \in 0 .. l - 1 : Copied(ns, l, n),
         NEW alt \in Nat, Held(Kids, filling, Parents[l], alt + 1), Kids[Parents[l]][alt + 1] = l,
         NEW ns2, ns2[l + 1] = NewNode(Parents[l], 0),
         ns2[Parents[l] + 1] = SetChild(AddChild(ns[Parents[l] + 1]), l, alt),
         \A n \in 0 .. l - 1 : n # Parents[l] => ns2[n + 1] = ns[n + 1]
  PROVE  /\ \A n \in 0 .. l : Copied(ns2, l + 1, n)
         /\ Len(CopyList(ns2, l)) = 0
         /\ \A n \in 0 .. l - 1 : n # Parents[l] => CopyList(ns2, n) = CopyList(ns, n)
<1> DEFINE p == Parents[l]
           d == ns[p + 1]
           q == CopyList(ns, p)
           k == Len(q)
<1>1. NodeCount \in Nat /\ NodeIDs = 0 .. NodeCount - 1
  BY TreeFacts
<1>2. /\ l \in NodeIDs /\ l \in Nat /\ p \in 0 .. l - 1 /\ p \in NodeIDs
      /\ \A n \in 0 .. l - 1 : n \in NodeIDs /\ n # l
  <2>1. l \in NodeIDs /\ l \in Nat /\ l # 0
    BY <1>1
  <2>2. p \in 0 .. l - 1
    BY <2>1, TreeFacts
  <2> HIDE DEF p
  <2> QED BY <1>1, <2>1, <2>2
<1>3. /\ Packed(d) /\ d.parent = Parents[p] /\ k \in Nat /\ q \in Seq(Int) /\ k = ChildrenCount(d)
      /\ k <= Len(Kids[p]) /\ Len(Kids[p]) \in Nat
      /\ \A a \in 1 .. k : Held(Kids, filling, p, a) /\ q[a] = Kids[p][a] /\ Kids[p][a] < l
      /\ \A a : Held(Kids, filling, p, a) /\ Kids[p][a] < l => a <= k
  <2>1. Copied(ns, l, p)
    BY <1>2
  <2> QED BY <1>2, <2>1, CopyListIs, TreeFacts DEF Copied
<1>4. /\ alt + 1 \in 1 .. Len(Kids[p])
      /\ \A b \in 1 .. alt + 1 : Held(Kids, filling, p, b)
      /\ \A b : Held(Kids, filling, p, b) /\ Kids[p][b] = l => b = alt + 1
  <2> HIDE DEF p
  <2>1. Held(Kids, filling, p, alt + 1) /\ Kids[p][alt + 1] = l
    BY DEF p
  <2> QED BY <1>2, <2>1, TreeFacts
<1>5. alt = k
  <2>1. ~(alt + 1 <= k)
    <3>1. Kids[p][alt + 1] = l
      OBVIOUS
    <3> HIDE DEF p, k, q
    <3> QED BY <1>2, <1>3, <3>1
  <2>2. alt <= k
    <3> SUFFICES ASSUME alt # 0 PROVE alt <= k
      BY <1>3
    <3>1. alt \in 1 .. alt + 1 /\ alt < alt + 1
      OBVIOUS
    <3>2. Kids[p][alt] < l
      <4>1. Held(Kids, filling, p, alt) /\ Held(Kids, filling, p, alt + 1) /\ Kids[p][alt + 1] = l
        BY <1>4, <3>1
      <4> HIDE DEF p
      <4> QED BY <1>2, <3>1, <4>1 DEF Ascending
    <3> QED BY <1>3, <1>4, <3>1, <3>2
  <2> HIDE DEF k
  <2> QED BY <1>3, <2>1, <2>2
<1> DEFINE e == AddChild(d)
           f == SetChild(e, l, alt)
<1>6. /\ Packed(e) /\ ChildrenCount(e) = k + 1 /\ e.parent = Parents[p]
      /\ KidSeq(e) \in Seq(Int) /\ Len(KidSeq(e)) = k + 1
      /\ \A a \in 1 .. k : KidSeq(e)[a] = q[a]
  <2> HIDE DEF d
  <2> QED BY <1>3, AddChildPacked, KidSeqAdd DEF CopyList, d
<1>7. /\ Packed(f) /\ f.parent = Parents[p]
      /\ KidSeq(f) = [KidSeq(e) EXCEPT ![alt + 1] = l]
  <2> HIDE DEF e, p, k
  <2>1. l \in Int /\ alt \in 0 .. ChildrenCount(e) - 1
    BY <1>2, <1>3, <1>5, <1>6
  <2> QED BY <1>6, <2>1, SetChildPacked, KidSeqSet
<1>8. /\ Len(CopyList(ns2, p)) = k + 1
      /\ \A a \in 1 .. k : CopyList(ns2, p)[a] = q[a]
      /\ CopyList(ns2, p)[k + 1] = l
  <2>1. CopyList(ns2, p) = KidSeq(f)
    BY DEF CopyList
  <2> HIDE DEF f, e, q, k, p
  <2> QED BY <1>2, <1>3, <1>5, <1>6, <1>7, <2>1
<1>9. Copied(ns2, l + 1, p)
  <2>1. Packed(ns2[p + 1]) /\ ns2[p + 1].parent = Parents[p]
    BY <1>7
  <2>2. Held(Kids, filling, p, k + 1) /\ Kids[p][k + 1] = l
    BY <1>5
  <2> HIDE DEF f, e, q, k, p
  <2>3. ASSUME NEW a \in 1 .. k + 1
        PROVE  Held(Kids, filling, p, a) /\ CopyList(ns2, p)[a] = Kids[p][a] /\ Kids[p][a] < l + 1
    <3>1. CASE a \in 1 .. k
      <4>1. Kids[p][a] \in Int
        <5>1. Held(Kids, filling, p, a)
          BY <1>3, <3>1
        <5>2. Kids[p][a] \in p + 1 .. NodeCount - 1
          BY <1>2, <5>1, TreeFacts
        <5> QED BY <5>2
      <4> QED BY <1>2, <1>3, <1>8, <3>1, <4>1
    <3>2. CASE a = k + 1
      BY <1>2, <1>8, <2>2, <3>2
    <3> QED BY <1>3, <3>1, <3>2
  <2>4. ASSUME NEW a, Held(Kids, filling, p, a), Kids[p][a] < l + 1 PROVE a <= k + 1
    <3>1. Kids[p][a] \in p + 1 .. NodeCount - 1 /\ a \in 1 .. Len(Kids[p])
      BY <1>2, <2>4, TreeFacts
    <3>2. Kids[p][a] < l \/ Kids[p][a] = l
      BY <1>1, <1>2, <2>4, <3>1
    <3>3. CASE Kids[p][a] < l
      <4>1. a <= k
        BY <1>3, <2>4, <3>3
      <4> QED BY <1>3, <3>1, <4>1
    <3>4. CASE Kids[p][a] = l
      BY <1>4, <1>5, <2>4, <3>4
    <3> QED BY <3>2, <3>3, <3>4
  <2>5. k + 1 <= Len(Kids[p])
    BY <1>3, <1>4, <1>5
  <2> QED BY <1>8, <2>1, <2>3, <2>4, <2>5 DEF Copied
<1>10. ASSUME NEW n \in 0 .. l - 1, n # p
       PROVE  Copied(ns2, l + 1, n) /\ CopyList(ns2, n) = CopyList(ns, n)
  <2>1. ns2[n + 1] = ns[n + 1] /\ CopyList(ns2, n) = CopyList(ns, n)
    BY <1>10 DEF CopyList
  <2>2. Copied(ns, l, n) /\ n \in NodeIDs
    BY <1>2
  <2> HIDE DEF p
  <2>3. \A a : Held(Kids, filling, n, a) => Kids[n][a] \in Int /\ Kids[n][a] # l
    <3> SUFFICES ASSUME NEW a, Held(Kids, filling, n, a)
                 PROVE  Kids[n][a] \in Int /\ Kids[n][a] # l
      OBVIOUS
    <3>1. Kids[n][a] \in n + 1 .. NodeCount - 1 /\ Parents[Kids[n][a]] = n
      BY <2>2, TreeFacts
    <3> QED BY <1>10, <3>1 DEF p
  <2>4. \A a : Held(Kids, filling, n, a) => (Kids[n][a] < l <=> Kids[n][a] < l + 1)
    BY <1>2, <2>3
  <2> QED BY <2>1, <2>2, <2>4 DEF Copied
<1>11. Copied(ns2, l + 1, l) /\ Len(CopyList(ns2, l)) = 0
  <2>1. p \in Int
    BY <1>2
  <2> HIDE DEF p
  <2>2. /\ Packed(ns2[l + 1]) /\ ns2[l + 1].parent = p
        /\ CopyList(ns2, l) \in Seq(Int) /\ Len(CopyList(ns2, l)) = 0
    <3>1. ns2[l + 1] = NewNode(p, 0)
      BY DEF p
    <3> QED BY <2>1, <3>1, NewNodePacked, KidSeqNew DEF CopyList
  <2>3. \A a : Held(Kids, filling, l, a) => ~(Kids[l][a] < l + 1)
    <3> SUFFICES ASSUME NEW a, Held(Kids, filling, l, a) PROVE ~(Kids[l][a] < l + 1)
      OBVIOUS
    <3>1. Kids[l][a] \in l + 1 .. NodeCount - 1
      BY <1>2, TreeFacts
    <3> QED BY <1>2, <3>1
  <2>4. Len(Kids[l]) \in Nat
    BY <1>2, TreeFacts
  <2> QED BY <2>2, <2>3, <2>4 DEF Copied, p
<1>12. \A n \in 0 .. l : n = l \/ n = p \/ (n \in 0 .. l - 1 /\ n # p)
  BY <1>2
<1> HIDE DEF p
<1> QED BY <1>9, <1>10, <1>11, <1>12 DEF p

-----------------------------------------------------------------------------
(* The nodes above a node of the copy *)

\* The nodes of c have their parents.
Parented(c, l) ==
  /\ l = Len(c.status) /\ l \in 0 .. NodeCount
  /\ \A n \in 0 .. l - 1 : c.nodes[n + 1].parent = Parents[n]

\* notifyAncestors goes up the tree that was saved.
LEMMA UpToRootIs ==
  ASSUME StructureInv, NEW c, NEW l, Parented(c, l), NEW k \in l .. NodeCount, NEW up, Lineage(k, Parents, up)
  PROVE  \A n \in 0 .. l - 1 : UpToRoot(c, n) = up[n]
<1> DEFINE par == [m \in 0 .. l - 1 |-> c.nodes[m + 1].parent]
           Ups(f) == f = [m \in 0 .. Len(c.status) - 1 |->
                            {m} \cup (IF m = Root THEN {} ELSE f[c.nodes[m + 1].parent])]
           f0 == CHOOSE f : Ups(f)
<1>1. \A n : UpToRoot(c, n) = f0[n]
  BY DEF UpToRoot
<1>2. /\ NodeCount \in Nat /\ l \in 0 .. NodeCount /\ l = Len(c.status) /\ l \in Nat /\ l <= k /\ k \in Nat
      /\ \A m \in 0 .. l - 1 : par[m] = Parents[m] /\ par[m] = c.nodes[m + 1].parent
      /\ \A m \in 0 .. l - 1 : m \in 1 .. l - 1 <=> m # Root
      /\ \A m \in 1 .. l - 1 : m \in 0 .. l - 1 /\ m \in 1 .. k - 1
  BY TreeFacts DEF Parented, Root
<1> HIDE DEF par
<1>3. Upward(k, Parents)
  BY DEF Lineage
<1>4. Upward(l, par)
  BY <1>2, <1>3 DEF Upward
<1>5. ASSUME NEW f PROVE Ups(f) <=> Climb(l, par, 1 .. l - 1, f)
  <2>1. [m \in 0 .. l - 1 |-> {m} \cup (IF m = Root THEN {} ELSE f[c.nodes[m + 1].parent])]
          = [m \in 0 .. l - 1 |-> {m} \cup (IF m \in 1 .. l - 1 THEN f[par[m]] ELSE {})]
    BY <1>2
  <2> QED BY <1>2, <2>1 DEF Climb
<1>6. Climb(l, par, 1 .. l - 1, f0)
  <2>1. \E f : Climb(l, par, 1 .. l - 1, f)
    BY <1>4, ClimbExists
  <2> HIDE DEF Ups
  <2>2. \E f : Ups(f)
    BY <1>5, <2>1
  <2>3. Ups(f0)
    BY <2>2
  <2> HIDE DEF f0
  <2> QED BY <1>5, <2>3
<1> HIDE DEF f0
<1>7. \A n \in 1 .. l - 1 : par[n] = Parents[n]
  BY <1>2
<1>8. \A n \in 0 .. l - 1 : f0[n] = up[n]
  <2>1. l \in Nat /\ l <= k
    BY <1>2
  <2>2. Lineage(l, par, f0)
    BY <1>4, <1>6 DEF Lineage
  <2> QED BY <1>7, <2>1, <2>2, AncestorsAgree
<1> QED BY <1>1, <1>8

\* The nodes that closing node k closes: k, and above a closed one its parent,
\* if none of its other children is open.
LEMMA ClosedByIs ==
  ASSUME StructureInv, NEW c, NEW l, Parented(c, l), NEW k \in 0 .. l - 1
  PROVE  /\ k \in ClosedBy(c, k)
         /\ \A x \in ClosedBy(c, k) \cap 1 .. k :
              (\A y \in CopyKids(c, Parents[x]) \ {x} : ~CopyIsOpen(c, y))
                => Parents[x] \in ClosedBy(c, k)
<1> DEFINE par == [m \in 0 .. l - 1 |-> c.nodes[m + 1].parent]
           IsLast(m) == \A y \in CopyKids(c, c.nodes[m + 1].parent) \ {m} : ~CopyIsOpen(c, y)
           G == {m \in 1 .. l - 1 : IsLast(m)}
           Ups(f) == f = [m \in 0 .. Len(c.status) - 1 |->
                            LET p == c.nodes[m + 1].parent
                            IN {m} \cup (IF p # NoNode /\ \A y \in CopyKids(c, p) \ {m} : ~CopyIsOpen(c, y)
                                        THEN f[p] ELSE {})]
           f0 == CHOOSE f : Ups(f)
<1>1. \A n : ClosedBy(c, n) = f0[n]
  BY DEF ClosedBy
<1>2. /\ NodeCount \in Nat /\ l \in 0 .. NodeCount /\ l = Len(c.status) /\ l \in Nat
      /\ \A m \in 0 .. l - 1 : par[m] = Parents[m] /\ par[m] = c.nodes[m + 1].parent
      /\ \A m \in 1 .. l - 1 : m \in 0 .. l - 1 /\ m \in 1 .. NodeCount - 1
      /\ \A m \in 0 .. l - 1 : m \in NodeIDs /\ (m \in 1 .. l - 1 <=> m # 0)
  BY TreeFacts DEF Parented
<1> HIDE DEF par
<1>3. Upward(NodeCount, Parents)
  BY TreeFacts
<1>4. Upward(l, par)
  BY <1>2, <1>3 DEF Upward
<1>5. \A m \in 0 .. l - 1 : (m \in G <=> c.nodes[m + 1].parent # NoNode /\ IsLast(m))
  <2>1. \A m \in 0 .. l - 1 : m # 0 <=> c.nodes[m + 1].parent # NoNode
    BY <1>2, TreeFacts
  <2> HIDE DEF IsLast
  <2> QED BY <1>2, <2>1
<1>6. ASSUME NEW f PROVE Ups(f) <=> Climb(l, par, G, f)
  <2>1. ASSUME NEW m \in 0 .. l - 1
        PROVE  (LET p == c.nodes[m + 1].parent
                IN {m} \cup (IF p # NoNode /\ \A y \in CopyKids(c, p) \ {m} : ~CopyIsOpen(c, y)
                            THEN f[p] ELSE {}))
                 = {m} \cup (IF m \in G THEN f[par[m]] ELSE {})
    <3>1. (m \in G <=> c.nodes[m + 1].parent # NoNode /\ IsLast(m)) /\ par[m] = c.nodes[m + 1].parent
      BY <1>2, <1>5
    <3> HIDE DEF G
    <3> QED BY <3>1
  <2> HIDE DEF G
  <2>2. Climb(l, par, G, f) <=> f = [m \in 0 .. l - 1 |-> {m} \cup (IF m \in G THEN f[par[m]] ELSE {})]
    BY DEF Climb
  <2> QED BY <1>2, <2>1, <2>2
<1>7. Climb(l, par, G, f0) /\ G \in SUBSET (1 .. l - 1)
  <2>0. G \in SUBSET (1 .. l - 1)
    OBVIOUS
  <2> HIDE DEF G
  <2>1. \E f : Climb(l, par, G, f)
    BY <1>4, <2>0, ClimbExists
  <2> HIDE DEF Ups
  <2>2. \E f : Ups(f)
    BY <1>6, <2>1
  <2>3. Ups(f0)
    BY <2>2
  <2> HIDE DEF f0
  <2> QED BY <1>6, <2>0, <2>3
<1> HIDE DEF f0
<1>8. \A x \in f0[k] \cap G : par[x] \in f0[k]
  <2> HIDE DEF G
  <2> QED BY <1>4, <1>7, ClimbOn
<1>9. k \in f0[k]
  <2> HIDE DEF G
  <2> QED BY <1>7 DEF Climb
<1>10. ASSUME NEW x \in f0[k] \cap 1 .. k,
              \A y \in CopyKids(c, Parents[x]) \ {x} : ~CopyIsOpen(c, y)
       PROVE  Parents[x] \in f0[k]
  <2>1. x \in 1 .. l - 1 /\ par[x] = Parents[x] /\ c.nodes[x + 1].parent = Parents[x]
    BY <1>2
  <2>2. x \in G
    BY <1>10, <2>1
  <2> HIDE DEF G
  <2> QED BY <1>8, <2>1, <2>2
<1> QED BY <1>1, <1>9, <1>10

-----------------------------------------------------------------------------
(* A row is loaded *)

\* LoadedFlags, of any copy.
FlagsOf(c) ==
  \A n \in 0 .. Len(c.status) - 1 :
    /\ c.solved[n + 1] <=>
         \E m \in 0 .. Len(c.status) - 1 : n \in UpToRoot(c, m) /\ c.status[m + 1] = "SOLVED"
    /\ (\A m \in 0 .. Len(c.status) - 1 :
          n \in UpToRoot(c, m) /\ CopyKids(c, m) = {} => c.status[m + 1] \in ClosingStatuses)
         => ~c.open[n + 1]

\* A copy with l of the size nodes.
CopySound(c, l, size) ==
  /\ CopyForm(c)
  /\ l = Len(c.status) /\ l \in 0 .. NodeCount
  /\ DOMAIN c.nodes = 1 .. size
  /\ c.status \in Seq(Statuses)
  /\ c.open \in Seq(BOOLEAN) /\ Len(c.open) = l
  /\ c.solved \in Seq(BOOLEAN) /\ Len(c.solved) = l
  /\ \A n \in 1 .. l - 1 : Placed(n)
  /\ \A n \in 0 .. l - 1 :
       /\ Copied(c.nodes, l, n)
       /\ Len(CopyList(c.nodes, n)) > 0 => c.status[n + 1] = "BRANCH"

LEMMA FlagsAre ==
  ASSUME StructureInv, NEW c, NEW l, NEW size, CopySound(c, l, size),
         NEW k \in l .. NodeCount, NEW up, Lineage(k, Parents, up)
  PROVE  FlagsOf(c) <=> Flagged(l, Parents, up, c.status, c.open, c.solved)
<1>1. /\ l = Len(c.status) /\ l \in 0 .. NodeCount
      /\ \A n \in 0 .. l - 1 : Copied(c.nodes, l, n)
      /\ \A n \in 1 .. l - 1 : Placed(n)
  BY DEF CopySound
<1>2. Parented(c, l)
  BY <1>1 DEF Parented, Copied
<1>3. \A n \in 0 .. l - 1 : UpToRoot(c, n) = up[n]
  BY <1>2, UpToRootIs
<1>4. \A n \in 0 .. l - 1 : CopyKids(c, n) = {} <=> Tip(l, Parents, n)
  <2>1. \A n \in 0 .. l - 1 : CopyKids(c, n) = {m \in 1 .. l - 1 : Parents[m] = n}
    BY <1>1, CopiedKids
  <2> QED BY <2>1 DEF Tip
<1>5. ASSUME NEW n \in 0 .. l - 1
      PROVE  (\E m \in 0 .. l - 1 : n \in UpToRoot(c, m) /\ c.status[m + 1] = "SOLVED")
               <=> \E m \in 0 .. l - 1 : n \in up[m] /\ c.status[m + 1] = "SOLVED"
  BY <1>3
<1>6. ASSUME NEW n \in 0 .. l - 1
      PROVE  (\A m \in 0 .. l - 1 :
                n \in UpToRoot(c, m) /\ CopyKids(c, m) = {} => c.status[m + 1] \in ClosingStatuses)
               <=> \A m \in 0 .. l - 1 :
                     n \in up[m] /\ Tip(l, Parents, m) => c.status[m + 1] \in ClosingStatuses
  BY <1>3, <1>4
<1> QED BY <1>1, <1>5, <1>6 DEF FlagsOf, Flagged

\* The next row: its node, its parent, a place of it, and a status; the parent
\* is a branch.
RowFits(c, r, l, size) ==
  /\ r.nid = l /\ l \in NodeIDs /\ l + 1 <= size /\ size \in Nat
  /\ r.status \in Statuses /\ r.pid = Parents[l]
  /\ l # 0 => /\ r.alt \in Nat
              /\ Held(Kids, filling, Parents[l], r.alt + 1) /\ Kids[Parents[l]][r.alt + 1] = l
              /\ c.status[Parents[l] + 1] = "BRANCH"

Record(ns, st, op, so, c) ==
  [nodes |-> ns, status |-> st, open |-> op, solved |-> so, notes |-> c.notes, todo |-> c.todo]

EntryOf(c, r) ==
  Record([c.nodes EXCEPT ![r.nid + 1] = NewNode(r.pid, 0)],
         Append(c.status, IF r.pid = NoNode THEN "BRANCH" ELSE r.status),
         Append(c.open, TRUE), Append(c.solved, FALSE), c)

ChildOf(c, r) ==
  Record([EntryOf(c, r).nodes EXCEPT ![r.pid + 1] = SetChild(AddChild(@), r.nid, r.alt)],
         EntryOf(c, r).status, EntryOf(c, r).open, EntryOf(c, r).solved, c)

\* What WithNode puts together, field by field.
LEMMA WithNodeIs ==
  ASSUME NEW c, CopyForm(c), NEW r
  PROVE  WithNode(c, r) = IF r.pid = NoNode THEN EntryOf(c, r)
                          ELSE WithFlags(ChildOf(c, r), r.nid, r.status)
<1> DEFINE ns == [c.nodes EXCEPT ![r.nid + 1] = NewNode(r.pid, 0)]
           st == Append(c.status, IF r.pid = NoNode THEN "BRANCH" ELSE r.status)
           op == Append(c.open, TRUE)
           so == Append(c.solved, FALSE)
           entry == [c EXCEPT !.nodes[r.nid + 1] = NewNode(r.pid, 0),
                              !.status = Append(@, IF r.pid = NoNode THEN "BRANCH" ELSE r.status),
                              !.open = Append(@, TRUE), !.solved = Append(@, FALSE)]
           child == [entry EXCEPT !.nodes[r.pid + 1] = SetChild(AddChild(@), r.nid, r.alt)]
<1>1. WithNode(c, r) = IF r.pid = NoNode THEN entry ELSE WithFlags(child, r.nid, r.status)
  BY DEF WithNode
<1>2. entry = EntryOf(c, r)
  <2>1. entry = [c EXCEPT !.nodes = ns, !.status = st, !.open = op, !.solved = so]
    OBVIOUS
  <2>2. EntryOf(c, r) = Record(ns, st, op, so, c)
    BY DEF EntryOf
  <2> HIDE DEF entry, ns, st, op, so
  <2>3. entry = Record(ns, st, op, so, c)
    BY <2>1 DEF CopyForm, Record
  <2> QED BY <2>2, <2>3
<1> HIDE DEF entry
<1>3. child = ChildOf(c, r)
  <2> DEFINE more == [entry.nodes EXCEPT ![r.pid + 1] = SetChild(AddChild(@), r.nid, r.alt)]
  <2>1. child = [entry EXCEPT !.nodes = more]
    OBVIOUS
  <2>2. ChildOf(c, r) = Record(more, entry.status, entry.open, entry.solved, c)
    BY <1>2 DEF ChildOf
  <2>3. entry = Record(entry.nodes, entry.status, entry.open, entry.solved, c)
    BY <1>2 DEF EntryOf, Record
  <2> HIDE DEF child, more
  <2> QED BY <2>1, <2>2, <2>3 DEF Record
<1> HIDE DEF child
<1> QED BY <1>1, <1>2, <1>3

LEMMA RecordIs ==
  ASSUME NEW c, NEW ns, NEW st, NEW op, NEW so
  PROVE  LET d == Record(ns, st, op, so, c)
         IN /\ CopyForm(d) /\ d.nodes = ns /\ d.status = st /\ d.open = op /\ d.solved = so
            /\ d.notes = c.notes /\ d.todo = c.todo
BY DEF Record, CopyForm

LEMMA WithFlagsIs ==
  ASSUME NEW c, CopyForm(c), NEW n, NEW st
  PROVE  WithFlags(c, n, st) =
           Record(c.nodes, c.status,
                  [m \in DOMAIN c.open |-> c.open[m] /\ ~(st \in ClosingStatuses /\ m - 1 \in ClosedBy(c, n))],
                  [m \in DOMAIN c.solved |-> c.solved[m] \/ (st = "SOLVED" /\ m - 1 \in UpToRoot(c, n))], c)
<1> DEFINE op == [m \in DOMAIN c.open |-> c.open[m] /\ ~(st \in ClosingStatuses /\ m - 1 \in ClosedBy(c, n))]
           so == [m \in DOMAIN c.solved |-> c.solved[m] \/ (st = "SOLVED" /\ m - 1 \in UpToRoot(c, n))]
<1>1. WithFlags(c, n, st) = [c EXCEPT !.open = op, !.solved = so]
  BY DEF WithFlags
<1> HIDE DEF op, so
<1>2. WithFlags(c, n, st) = Record(c.nodes, c.status, op, so, c)
  BY <1>1 DEF CopyForm, Record
<1> QED BY <1>2 DEF op, so

LEMMA Added ==
  ASSUME NEW E, NEW s \in Seq(E), NEW e \in E
  PROVE  /\ Append(s, e) \in Seq(E) /\ Len(Append(s, e)) = Len(s) + 1 /\ Len(s) \in Nat
         /\ Append(s, e)[Len(s) + 1] = e
         /\ \A n \in 0 .. Len(s) - 1 : Append(s, e)[n + 1] = s[n + 1]
<1>1. /\ Append(s, e) \in Seq(E) /\ Len(Append(s, e)) = Len(s) + 1 /\ Len(s) \in Nat
      /\ \A i \in 1 .. Len(s) : Append(s, e)[i] = s[i]
      /\ Append(s, e)[Len(s) + 1] = e
  BY AppendProperties, LenProperties
<1>2. \A n \in 0 .. Len(s) - 1 : n + 1 \in 1 .. Len(s)
  BY <1>1
<1> QED BY <1>1, <1>2

\* d is c with one more entry, for node l, with status st.
Entered(c, d, l, size, st) ==
  /\ CopyForm(d) /\ d.notes = c.notes /\ d.todo = c.todo
  /\ DOMAIN d.nodes = 1 .. size /\ d.nodes[l + 1] = NewNode(Parents[l], 0)
  /\ \A n \in 0 .. l - 1 : d.nodes[n + 1] = c.nodes[n + 1]
  /\ d.status \in Seq(Statuses) /\ Len(d.status) = l + 1 /\ d.status = Append(c.status, st)
  /\ d.open \in Seq(BOOLEAN) /\ Len(d.open) = l + 1
  /\ d.solved \in Seq(BOOLEAN) /\ Len(d.solved) = l + 1
  /\ d.status[l + 1] = st /\ d.open[l + 1] /\ ~d.solved[l + 1]
  /\ \A n \in 0 .. l - 1 : /\ d.status[n + 1] = c.status[n + 1]
                           /\ d.open[n + 1] = c.open[n + 1]
                           /\ d.solved[n + 1] = c.solved[n + 1]

EntryStatus(r) == IF r.pid = NoNode THEN "BRANCH" ELSE r.status

LEMMA EntryIs ==
  ASSUME NEW c, NEW l, NEW size, CopySound(c, l, size), NEW r, RowFits(c, r, l, size)
  PROVE  Entered(c, EntryOf(c, r), l, size, EntryStatus(r))
<1> DEFINE d == EntryOf(c, r)
           st == EntryStatus(r)
           ns == [c.nodes EXCEPT ![l + 1] = NewNode(Parents[l], 0)]
<1>1. st \in Statuses /\ r.nid = l /\ r.pid = Parents[l] /\ l \in Nat /\ l + 1 \in 1 .. size
      /\ DOMAIN c.nodes = 1 .. size
  BY DEF RowFits, Statuses, CopySound, NodeIDs, EntryStatus
<1>2. /\ CopyForm(d) /\ d.notes = c.notes /\ d.todo = c.todo
      /\ d.nodes = ns /\ d.status = Append(c.status, st)
      /\ d.open = Append(c.open, TRUE) /\ d.solved = Append(c.solved, FALSE)
  <2>1. d = Record(ns, Append(c.status, st), Append(c.open, TRUE), Append(c.solved, FALSE), c)
    BY <1>1 DEF EntryOf, EntryStatus
  <2> HIDE DEF d, ns, st
  <2>2. PICK ss, oo, vv : ss = Append(c.status, st) /\ oo = Append(c.open, TRUE) /\ vv = Append(c.solved, FALSE)
    OBVIOUS
  <2>3. d = Record(ns, ss, oo, vv, c)
    BY <2>1, <2>2
  <2>4. /\ CopyForm(d) /\ d.nodes = ns /\ d.status = ss /\ d.open = oo /\ d.solved = vv
        /\ d.notes = c.notes /\ d.todo = c.todo
    BY <2>3, RecordIs
  <2> QED BY <2>2, <2>4
<1>3. /\ DOMAIN ns = 1 .. size /\ ns[l + 1] = NewNode(Parents[l], 0)
      /\ \A n \in 0 .. l - 1 : ns[n + 1] = c.nodes[n + 1]
  <2>1. \A n \in 0 .. l - 1 : n + 1 \in 1 .. size /\ n + 1 # l + 1
    <3>1. l \in Nat /\ l + 1 \in 1 .. size
      BY <1>1
    <3>2. size \in Nat
      BY DEF RowFits
    <3> QED BY <3>1, <3>2
  <2> QED BY <1>1, <2>1
<1>4. /\ c.status \in Seq(Statuses) /\ l = Len(c.status)
      /\ c.open \in Seq(BOOLEAN) /\ Len(c.open) = l /\ c.solved \in Seq(BOOLEAN) /\ Len(c.solved) = l
  BY DEF CopySound
<1> HIDE DEF d, st, ns
<1>5. /\ d.status \in Seq(Statuses) /\ Len(d.status) = l + 1 /\ d.status[l + 1] = st
      /\ \A n \in 0 .. l - 1 : d.status[n + 1] = c.status[n + 1]
  BY <1>1, <1>2, <1>4, Added
<1>6. /\ d.open \in Seq(BOOLEAN) /\ Len(d.open) = l + 1 /\ d.open[l + 1] = TRUE
      /\ \A n \in 0 .. l - 1 : d.open[n + 1] = c.open[n + 1]
  <2>1. PICK e \in BOOLEAN : e = TRUE
    OBVIOUS
  <2>2. d.open = Append(c.open, e)
    BY <1>2, <2>1
  <2>3. /\ Append(c.open, e) \in Seq(BOOLEAN) /\ Len(Append(c.open, e)) = l + 1
        /\ Append(c.open, e)[l + 1] = e
        /\ \A n \in 0 .. l - 1 : Append(c.open, e)[n + 1] = c.open[n + 1]
    BY <1>4, Added
  <2> QED BY <2>1, <2>2, <2>3
<1>7. /\ d.solved \in Seq(BOOLEAN) /\ Len(d.solved) = l + 1 /\ d.solved[l + 1] = FALSE
      /\ \A n \in 0 .. l - 1 : d.solved[n + 1] = c.solved[n + 1]
  <2>1. PICK e \in BOOLEAN : e = FALSE
    OBVIOUS
  <2>2. d.solved = Append(c.solved, e)
    BY <1>2, <2>1
  <2>3. /\ Append(c.solved, e) \in Seq(BOOLEAN) /\ Len(Append(c.solved, e)) = l + 1
        /\ Append(c.solved, e)[l + 1] = e
        /\ \A n \in 0 .. l - 1 : Append(c.solved, e)[n + 1] = c.solved[n + 1]
    BY <1>4, Added
  <2> QED BY <2>1, <2>2, <2>3
<1>8. d.open[l + 1] /\ ~d.solved[l + 1]
  BY <1>6, <1>7
<1>9. Entered(c, d, l, size, st)
  BY <1>2, <1>3, <1>5, <1>6, <1>7, <1>8 DEF Entered
<1> QED BY <1>9 DEF d, st

\* The first row: the root, a branch.
LEMMA RootEntered ==
  ASSUME StructureInv, NEW c, NEW size, CopySound(c, 0, size), NEW r, RowFits(c, r, 0, size)
  PROVE  LET d == WithNode(c, r)
         IN /\ CopySound(d, 1, size) /\ FlagsOf(d) /\ d.notes = c.notes /\ d.todo = c.todo
            /\ d.status = Append(c.status, "BRANCH")
<1> DEFINE d == EntryOf(c, r)
<1>1. NodeIDs # {} /\ Parents[0] = NoNode /\ NodeCount \in Nat /\ 1 \in 0 .. NodeCount
      /\ r.pid = NoNode /\ CopyForm(c)
  <2>1. 0 \in NodeIDs /\ r.pid = Parents[0]
    BY DEF RowFits
  <2> QED BY <2>1, TreeFacts DEF CopySound
<1>2. WithNode(c, r) = d
  BY <1>1, WithNodeIs
<1>3. /\ CopyForm(d) /\ d.notes = c.notes /\ d.todo = c.todo
      /\ DOMAIN d.nodes = 1 .. size /\ d.nodes[1] = NewNode(NoNode, 0)
      /\ d.status \in Seq(Statuses) /\ Len(d.status) = 1
      /\ d.open \in Seq(BOOLEAN) /\ Len(d.open) = 1
      /\ d.solved \in Seq(BOOLEAN) /\ Len(d.solved) = 1
      /\ d.status = Append(c.status, "BRANCH") /\ d.status[1] = "BRANCH" /\ ~d.solved[1]
  <2>1. PICK l : l = 0
    OBVIOUS
  <2>2. CopySound(c, l, size) /\ RowFits(c, r, l, size)
    BY <2>1
  <2>3. Entered(c, d, l, size, EntryStatus(r))
    BY <2>2, EntryIs
  <2>4. EntryStatus(r) = "BRANCH" /\ l + 1 = 1 /\ Parents[l] = NoNode
    BY <1>1, <2>1 DEF EntryStatus
  <2> HIDE DEF d
  <2> QED BY <2>3, <2>4 DEF Entered
<1> HIDE DEF d
<1>4. CopySound(d, 1, size)
  <2>1. Copied(d.nodes, 1, 0) /\ Len(CopyList(d.nodes, 0)) = 0
    BY <1>1, <1>3, RootCopied
  <2>2. \A n \in 0 .. 1 - 1 : n = 0
    OBVIOUS
  <2>3. \A n \in 1 .. 1 - 1 : FALSE
    OBVIOUS
  <2> QED BY <1>1, <1>3, <2>1, <2>2, <2>3 DEF CopySound
<1>5. FlagsOf(d)
  <2>1. Upward(1, Parents)
    BY DEF Upward
  <2>2. PICK up : Lineage(1, Parents, up)
    BY <2>1, LineageExists
  <2>3. 1 \in 1 .. NodeCount
    BY <1>1
  <2>4. FlagsOf(d) <=> Flagged(1, Parents, up, d.status, d.open, d.solved)
    BY <1>4, <2>2, <2>3, FlagsAre
  <2>5. 0 \in up[0]
    <3>1. 0 \in 0 .. 1 - 1
      OBVIOUS
    <3> QED BY <2>2, <3>1, LineageIs
  <2>6. \A n \in 0 .. 1 - 1 : n = 0
    OBVIOUS
  <2>7. Tip(1, Parents, 0)
    <3>1. \A n \in 1 .. 1 - 1 : FALSE
      OBVIOUS
    <3> QED BY <3>1 DEF Tip
  <2>8. d.status[0 + 1] = "BRANCH" /\ ~d.solved[0 + 1] /\ 0 \in 0 .. 1 - 1
    BY <1>3
  <2>9. "BRANCH" \notin ClosingStatuses /\ "BRANCH" # "SOLVED"
    BY DEF ClosingStatuses
  <2> QED BY <2>4, <2>5, <2>6, <2>7, <2>8, <2>9 DEF Flagged
<1> QED BY <1>2, <1>3, <1>4, <1>5

\* WithFlags leaves all but the flags alone.
Reflagged(c, d, n, st, l) ==
  /\ CopyForm(d) /\ d.notes = c.notes /\ d.todo = c.todo
  /\ d.nodes = c.nodes /\ d.status = c.status
  /\ d.open \in Seq(BOOLEAN) /\ Len(d.open) = l + 1
  /\ d.solved \in Seq(BOOLEAN) /\ Len(d.solved) = l + 1
  /\ \A m \in 0 .. l :
       /\ d.open[m + 1] <=> c.open[m + 1] /\ ~(st \in ClosingStatuses /\ m \in ClosedBy(c, n))
       /\ d.solved[m + 1] <=> c.solved[m + 1] \/ (st = "SOLVED" /\ m \in UpToRoot(c, n))

LEMMA FlagsSet ==
  ASSUME NEW c, CopyForm(c), NEW n, NEW st, NEW l \in Nat,
         c.open \in Seq(BOOLEAN), Len(c.open) = l + 1, c.solved \in Seq(BOOLEAN), Len(c.solved) = l + 1
  PROVE  Reflagged(c, WithFlags(c, n, st), n, st, l)
<1> DEFINE d == WithFlags(c, n, st)
           op == [m \in DOMAIN c.open |-> c.open[m] /\ ~(st \in ClosingStatuses /\ m - 1 \in ClosedBy(c, n))]
           so == [m \in DOMAIN c.solved |-> c.solved[m] \/ (st = "SOLVED" /\ m - 1 \in UpToRoot(c, n))]
<1>1. d = Record(c.nodes, c.status, op, so, c)
  BY WithFlagsIs
<1>2. DOMAIN c.open = 1 .. l + 1 /\ DOMAIN c.solved = 1 .. l + 1
  BY LenProperties
<1>3. \A m \in 0 .. l : m + 1 \in 1 .. l + 1 /\ (m + 1) - 1 = m
  OBVIOUS
<1>4. \A m \in 1 .. l + 1 : c.open[m] \in BOOLEAN /\ c.solved[m] \in BOOLEAN
  BY ElementOfSeq
<1>5. /\ op \in Seq(BOOLEAN) /\ Len(op) = l + 1
      /\ \A m \in 0 .. l :
           op[m + 1] <=> c.open[m + 1] /\ ~(st \in ClosingStatuses /\ m \in ClosedBy(c, n))
  <2>1. \A m \in 1 .. l + 1 : op[m] \in BOOLEAN
    BY <1>2
  <2>2. op \in [1 .. l + 1 -> BOOLEAN]
    BY <1>2, <2>1
  <2>3. op \in Seq(BOOLEAN) /\ Len(op) = l + 1
    <3> HIDE DEF op
    <3> QED BY <2>2
  <2> QED BY <1>2, <1>3, <2>3
<1>6. /\ so \in Seq(BOOLEAN) /\ Len(so) = l + 1
      /\ \A m \in 0 .. l :
           so[m + 1] <=> c.solved[m + 1] \/ (st = "SOLVED" /\ m \in UpToRoot(c, n))
  <2>1. \A m \in 1 .. l + 1 : so[m] \in BOOLEAN
    BY <1>2
  <2>2. so \in [1 .. l + 1 -> BOOLEAN]
    BY <1>2, <2>1
  <2>3. so \in Seq(BOOLEAN) /\ Len(so) = l + 1
    <3> HIDE DEF so
    <3> QED BY <2>2
  <2> QED BY <1>2, <1>3, <2>3
<1> HIDE DEF op, so, d
<1>7. /\ CopyForm(d) /\ d.nodes = c.nodes /\ d.status = c.status /\ d.open = op /\ d.solved = so
      /\ d.notes = c.notes /\ d.todo = c.todo
  BY <1>1, RecordIs
<1>8. Reflagged(c, d, n, st, l)
  BY <1>5, <1>6, <1>7 DEF Reflagged
<1> QED BY <1>8 DEF d

\* Every other row: a child of a branch.
LEMMA ChildEntered ==
  ASSUME StructureInv, Ascending, NEW c, NEW l, l # 0, NEW size, CopySound(c, l, size), FlagsOf(c),
         NEW r, RowFits(c, r, l, size), Placed(l)
  PROVE  LET d == WithNode(c, r)
         IN /\ CopySound(d, l + 1, size) /\ FlagsOf(d) /\ d.notes = c.notes /\ d.todo = c.todo
            /\ d.status = Append(c.status, r.status)
<1> DEFINE entry == EntryOf(c, r)
           child == ChildOf(c, r)
           d == WithFlags(child, l, r.status)
           p == Parents[l]
           ns == [entry.nodes EXCEPT ![p + 1] = SetChild(AddChild(entry.nodes[p + 1]), l, r.alt)]
<1>1. /\ NodeCount \in Nat /\ NodeIDs = 0 .. NodeCount - 1 /\ l \in Nat /\ l \in 1 .. NodeCount - 1
      /\ l \in NodeIDs /\ l + 1 \in 0 .. NodeCount
      /\ r.nid = l /\ r.pid = p /\ l + 1 <= size /\ size \in Nat /\ r.status \in Statuses
      /\ r.alt \in Nat /\ Held(Kids, filling, p, r.alt + 1) /\ Kids[p][r.alt + 1] = l
      /\ c.status[p + 1] = "BRANCH"
  <2>1. NodeCount \in Nat /\ NodeIDs = 0 .. NodeCount - 1 /\ l \in NodeIDs
    BY TreeFacts DEF RowFits
  <2> HIDE DEF p
  <2>2. l \in Nat /\ l \in 1 .. NodeCount - 1 /\ l + 1 \in 0 .. NodeCount
    BY <2>1
  <2> QED BY <2>1, <2>2 DEF RowFits, p
<1>2. p \in 0 .. l - 1 /\ p # NoNode /\ p \in Nat /\ p \in Int
  <2>1. p \in 0 .. l - 1
    BY <1>1, TreeFacts
  <2> HIDE DEF p
  <2> QED BY <2>1 DEF NoNode
<1>3. Entered(c, entry, l, size, r.status)
  BY <1>1, <1>2, EntryIs DEF EntryStatus
<1> HIDE DEF entry
<1>4. /\ CopyForm(child) /\ child.notes = c.notes /\ child.todo = c.todo
      /\ child.nodes = ns /\ child.status = entry.status
      /\ child.open = entry.open /\ child.solved = entry.solved
  <2>1. child = Record(ns, entry.status, entry.open, entry.solved, c)
    BY <1>1 DEF ChildOf, entry
  <2> HIDE DEF child, ns
  <2> QED BY <2>1, RecordIs
<1>5. WithNode(c, r) = d
  <2>1. CopyForm(c)
    BY DEF CopySound
  <2> HIDE DEF child
  <2> QED BY <1>1, <1>2, <2>1, WithNodeIs DEF child
<1>6. /\ DOMAIN ns = 1 .. size /\ ns[l + 1] = NewNode(p, 0)
      /\ ns[p + 1] = SetChild(AddChild(c.nodes[p + 1]), l, r.alt)
      /\ \A n \in 0 .. l - 1 : n # p => ns[n + 1] = c.nodes[n + 1]
  <2>1. /\ DOMAIN entry.nodes = 1 .. size /\ entry.nodes[l + 1] = NewNode(p, 0)
        /\ \A n \in 0 .. l - 1 : entry.nodes[n + 1] = c.nodes[n + 1]
    BY <1>3 DEF Entered
  <2> HIDE DEF p, entry
  <2>2. p + 1 \in 1 .. size /\ l + 1 # p + 1 /\ l + 1 \in 1 .. size
        /\ \A n \in 0 .. l - 1 : n + 1 \in 1 .. size /\ (n # p => n + 1 # p + 1)
    BY <1>1, <1>2
  <2> DEFINE x == SetChild(AddChild(entry.nodes[p + 1]), l, r.alt)
  <2>3. x = SetChild(AddChild(c.nodes[p + 1]), l, r.alt)
    BY <1>2, <2>1
  <2>4. ns = [entry.nodes EXCEPT ![p + 1] = x]
    OBVIOUS
  <2> HIDE DEF x, ns
  <2>5. DOMAIN ns = 1 .. size /\ ns[p + 1] = x /\ ns[l + 1] = entry.nodes[l + 1]
    BY <2>1, <2>2, <2>4
  <2>6. \A n \in 0 .. l - 1 : n # p => ns[n + 1] = entry.nodes[n + 1]
    BY <2>1, <2>2, <2>4
  <2> QED BY <2>1, <2>3, <2>5, <2>6
<1> HIDE DEF child, ns
<1>7. /\ \A n \in 0 .. l : Copied(ns, l + 1, n)
      /\ Len(CopyList(ns, l)) = 0
      /\ \A n \in 0 .. l - 1 : n # p => CopyList(ns, n) = CopyList(c.nodes, n)
  <2> DEFINE old == c.nodes
             alt == r.alt
  <2>1. \A n \in 0 .. l - 1 : Copied(old, l, n)
    BY DEF CopySound
  <2>2. /\ l \in 1 .. NodeCount - 1 /\ alt \in Nat
        /\ Held(Kids, filling, Parents[l], alt + 1) /\ Kids[Parents[l]][alt + 1] = l
    BY <1>1
  <2>3. /\ ns[l + 1] = NewNode(Parents[l], 0)
        /\ ns[Parents[l] + 1] = SetChild(AddChild(old[Parents[l] + 1]), l, alt)
        /\ \A n \in 0 .. l - 1 : n # Parents[l] => ns[n + 1] = old[n + 1]
    BY <1>6
  <2> HIDE DEF old, alt
  <2>4. /\ \A n \in 0 .. l : Copied(ns, l + 1, n)
        /\ Len(CopyList(ns, l)) = 0
        /\ \A n \in 0 .. l - 1 : n # Parents[l] => CopyList(ns, n) = CopyList(old, n)
    BY <2>1, <2>2, <2>3, ChildCopied
  <2> QED BY <2>4 DEF old
<1>8. /\ child.open \in Seq(BOOLEAN) /\ Len(child.open) = l + 1
      /\ child.solved \in Seq(BOOLEAN) /\ Len(child.solved) = l + 1
      /\ child.status \in Seq(Statuses) /\ Len(child.status) = l + 1
      /\ child.status = Append(c.status, r.status)
      /\ child.status[l + 1] = r.status /\ child.open[l + 1] /\ ~child.solved[l + 1]
      /\ \A n \in 0 .. l - 1 : /\ child.status[n + 1] = c.status[n + 1]
                               /\ child.open[n + 1] = c.open[n + 1]
                               /\ child.solved[n + 1] = c.solved[n + 1]
  BY <1>3, <1>4 DEF Entered
<1>9. /\ CopyForm(d) /\ d.notes = c.notes /\ d.todo = c.todo
      /\ d.nodes = ns /\ d.status = child.status
      /\ d.open \in Seq(BOOLEAN) /\ Len(d.open) = l + 1
      /\ d.solved \in Seq(BOOLEAN) /\ Len(d.solved) = l + 1
      /\ \A m \in 0 .. l :
           /\ d.open[m + 1] <=> child.open[m + 1] /\ ~(r.status \in ClosingStatuses /\ m \in ClosedBy(child, l))
           /\ d.solved[m + 1] <=> child.solved[m + 1] \/ (r.status = "SOLVED" /\ m \in UpToRoot(child, l))
  <2>1. Reflagged(child, d, l, r.status, l)
    BY <1>1, <1>4, <1>8, FlagsSet
  <2> HIDE DEF d
  <2> QED BY <1>4, <2>1 DEF Reflagged
<1> HIDE DEF d
<1>10. ASSUME NEW n \in 0 .. l, Len(CopyList(ns, n)) > 0 PROVE d.status[n + 1] = "BRANCH"
  <2>1. n # l /\ n \in 0 .. l - 1
    BY <1>1, <1>7, <1>10
  <2>2. d.status[n + 1] = c.status[n + 1]
    <3>1. child.status[n + 1] = c.status[n + 1]
      BY <1>8, <2>1
    <3>2. d.status = child.status
      BY <1>9
    <3> QED BY <3>1, <3>2
  <2>3. CASE n = p
    BY <1>1, <2>2, <2>3
  <2>4. CASE n # p
    <3>1. Len(CopyList(c.nodes, n)) > 0
      BY <1>7, <1>10, <2>1, <2>4
    <3> QED BY <2>1, <2>2, <3>1 DEF CopySound
  <2> QED BY <2>3, <2>4
<1>11. CopySound(d, l + 1, size)
  <2>1. \A n \in 0 .. (l + 1) - 1 : n \in 0 .. l
    BY <1>1
  <2>2. \A n \in 1 .. (l + 1) - 1 : Placed(n)
    <3>1. \A n \in 1 .. (l + 1) - 1 : n = l \/ n \in 1 .. l - 1
      BY <1>1
    <3> QED BY <3>1 DEF CopySound
  <2> QED BY <1>1, <1>6, <1>7, <1>8, <1>9, <1>10, <2>1, <2>2 DEF CopySound
<1>12. FlagsOf(d)
  <2> DEFINE k == l + 1
  <2>1. k \in Nat /\ k - 1 = l /\ k \in 0 .. NodeCount /\ k \in l .. NodeCount /\ k \in k .. NodeCount
    BY <1>1
  <2> HIDE DEF k
  <2>2. Upward(k, Parents)
    BY <1>1, <2>1, TreeFacts DEF Upward
  <2>3. PICK up : Lineage(k, Parents, up)
    BY <2>2, LineageExists
  <2>4. FlagsOf(c) <=> Flagged(l, Parents, up, c.status, c.open, c.solved)
    BY <2>1, <2>3, FlagsAre
  <2>5. CopySound(d, k, size)
    BY <1>11 DEF k
  <2>6. FlagsOf(d) <=> Flagged(k, Parents, up, d.status, d.open, d.solved)
    BY <2>1, <2>3, <2>5, FlagsAre
  <2>7. Parented(child, k)
    BY <1>1, <1>4, <1>7, <1>8, <2>1 DEF Parented, Copied, k
  <2>8. \A n \in 0 .. k - 1 : UpToRoot(child, n) = up[n]
    BY <2>1, <2>3, <2>7, UpToRootIs
  <2>9. /\ l \in ClosedBy(child, l)
        /\ \A x \in ClosedBy(child, l) \cap 1 .. l :
             (\A y \in CopyKids(child, Parents[x]) \ {x} : ~CopyIsOpen(child, y))
               => Parents[x] \in ClosedBy(child, l)
    <3>1. l \in 0 .. k - 1
      BY <1>1, <2>1
    <3> QED BY <2>7, <3>1, ClosedByIs
  <2>10. \A n \in 0 .. l : CopyKids(child, n) = {m \in 1 .. l : Parents[m] = n}
    <3>1. /\ \A n \in 0 .. k - 1 : Copied(child.nodes, k, n)
          /\ \A n \in 1 .. k - 1 : Placed(n)
      BY <1>4, <1>7, <2>1, <2>5 DEF CopySound, k
    <3>2. \A n \in 0 .. k - 1 : CopyKids(child, n) = {m \in 1 .. k - 1 : Parents[m] = n}
      BY <2>1, <3>1, CopiedKids
    <3> QED BY <2>1, <3>2
  <2>11. \A m \in 0 .. l : ~Tip(k, Parents, m) => d.status[m + 1] = "BRANCH"
    <3> SUFFICES ASSUME NEW m \in 0 .. l, NEW n \in 1 .. l, Parents[n] = m
                 PROVE  d.status[m + 1] = "BRANCH"
      BY <2>1 DEF Tip
    <3>1. n \in CopyKids(child, m)
      BY <2>10
    <3>2. ChildrenCount(ns[m + 1]) = Len(CopyList(ns, m)) /\ Len(CopyList(ns, m)) \in Nat
      BY <1>7, CopyListIs DEF Copied
    <3>3. ChildrenCount(ns[m + 1]) # 0
      <4> SUFFICES ASSUME ChildrenCount(ns[m + 1]) = 0 PROVE FALSE
        OBVIOUS
      <4>1. 0 .. ChildrenCount(ns[m + 1]) - 1 = {}
        OBVIOUS
      <4> QED BY <1>4, <3>1, <4>1 DEF CopyKids
    <3> QED BY <1>10, <3>2, <3>3
  <2>12. \A x \in ClosedBy(child, l) \cap 1 .. l :
           (\A y \in 1 .. l : Parents[y] = Parents[x] /\ y # x =>
              d.status[y + 1] # "UNDETERMINED" /\ y # l /\ ~c.open[y + 1])
             => Parents[x] \in ClosedBy(child, l)
    <3> SUFFICES ASSUME NEW x \in ClosedBy(child, l) \cap 1 .. l,
                        \A y \in 1 .. l : Parents[y] = Parents[x] /\ y # x =>
                          d.status[y + 1] # "UNDETERMINED" /\ y # l /\ ~c.open[y + 1]
                 PROVE  Parents[x] \in ClosedBy(child, l)
      OBVIOUS
    <3>1. Parents[x] \in 0 .. l
      <4>1. x \in NodeIDs /\ x # 0 /\ x \in 1 .. l
        BY <1>1
      <4>2. Parents[x] \in 0 .. x - 1
        BY <4>1, TreeFacts
      <4> QED BY <1>1, <4>1, <4>2
    <3>2. ASSUME NEW y \in CopyKids(child, Parents[x]) \ {x} PROVE ~CopyIsOpen(child, y)
      <4>1. y \in 1 .. l /\ Parents[y] = Parents[x] /\ y # x
        BY <2>10, <3>1, <3>2
      <4>2. d.status[y + 1] # "UNDETERMINED" /\ y # l /\ ~c.open[y + 1]
        BY <4>1
      <4>3. y \in 0 .. l - 1
        BY <1>1, <4>1, <4>2
      <4> QED BY <1>8, <1>9, <4>2, <4>3 DEF CopyIsOpen
    <3> QED BY <2>9, <3>2
  <2>13. \A m \in 0 .. l :
           /\ d.open[m + 1] <=> (m = l \/ c.open[m + 1])
                                  /\ ~(d.status[l + 1] \in ClosingStatuses /\ m \in ClosedBy(child, l))
           /\ d.solved[m + 1] <=> (m # l /\ c.solved[m + 1]) \/ (d.status[l + 1] = "SOLVED" /\ m \in up[l])
    <3> SUFFICES ASSUME NEW m \in 0 .. l
                 PROVE  /\ d.open[m + 1] <=> (m = l \/ c.open[m + 1])
                             /\ ~(d.status[l + 1] \in ClosingStatuses /\ m \in ClosedBy(child, l))
                        /\ d.solved[m + 1] <=> (m # l /\ c.solved[m + 1])
                             \/ (d.status[l + 1] = "SOLVED" /\ m \in up[l])
      OBVIOUS
    <3>1. UpToRoot(child, l) = up[l] /\ d.status[l + 1] = r.status
      BY <1>1, <1>8, <1>9, <2>1, <2>8
    <3>2. /\ child.open[m + 1] <=> m = l \/ c.open[m + 1]
          /\ child.solved[m + 1] <=> m # l /\ c.solved[m + 1]
      <4>1. CASE m = l
        BY <1>8, <4>1
      <4>2. CASE m # l
        <5>1. m \in 0 .. l - 1
          BY <1>1, <4>2
        <5> QED BY <1>8, <4>2, <5>1
      <4> QED BY <4>1, <4>2
    <3> QED BY <1>9, <3>1, <3>2
  <2>14. OneLeaf(k, Parents, up, c.status, c.open, c.solved, d.status, d.open, d.solved, ClosedBy(child, l))
    <3>1. l \in Nat \ {0} /\ \A m \in 0 .. l - 1 : d.status[m + 1] = c.status[m + 1]
      BY <1>1, <1>8, <1>9
    <3> QED BY <2>1, <2>3, <2>9, <2>11, <2>12, <2>13, <3>1 DEF OneLeaf
  <2>15. Flagged(k - 1, Parents, up, c.status, c.open, c.solved)
    BY <2>1, <2>4
  <2> QED BY <2>6, <2>14, <2>15, FlagsGrow
<1> QED BY <1>5, <1>8, <1>9, <1>11, <1>12 DEF d

-----------------------------------------------------------------------------
(* What was saved is loaded *)

\* Every row gives a node its parent, its place, and the status it had when the
\* row was written; a node with a child to be saved has been a branch by then.
RowTrue(r) ==
  /\ r.pid = Parents[r.nid]
  /\ r.nid # Root => /\ r.alt \in Nat
                     /\ Held(Kids, filling, r.pid, r.alt + 1) /\ Kids[r.pid][r.alt + 1] = r.nid
  /\ r.status = StatusOf(r.nid) \/ (r.status = "UNDETERMINED" /\ save.grows)
  /\ \A m \in ToSet(save.order) \ {Root} : Parents[m] = r.nid => r.status = "BRANCH"

RowsTrue ==
  /\ \A n \in ToSet(save.order) \ {Root} : Placed(n)
  /\ app = "saving" /\ building => save.grows
  /\ \A r \in Rows : RowTrue(r)

\* The bookmarks are saved after the rows and stay as they are.
NotesKept ==
  /\ file.notes \in [TableNames -> SUBSET Nat]
  /\ save.table = 1 => file.notes = NoNotes
  /\ save.table > 1 => /\ RowsDone /\ save.batch = {}
                       /\ save.failed \/ NodesSaved = ToSet(save.order)
                       /\ file.notes["Bookmarks"] = notes["Bookmarks"]
  /\ app = "loaded" => copy.notes = file.notes

CopyTree ==
  /\ CopySound(copy, Len(copy.status), Cardinality(file.rows)) /\ FlagsOf(copy)
  /\ \A r \in file.rows \ copy.todo :
       copy.status[r.nid + 1] = IF r.nid = Root THEN "BRANCH" ELSE r.status

LoadingKept ==
  Ascending /\ RowsTrue /\ NotesKept /\ (app \in {"loading", "loaded"} => CopyTree)

FaithfulInv == DatabaseInv /\ BranchesKept /\ LoadingKept

\* No rows before a save, and only of nodes.
LEMMA RowFacts ==
  ASSUME DatabaseInv
  PROVE  /\ NodeIDs = 0 .. NodeCount - 1 /\ NodeCount \in Nat
         /\ ToSet(save.order) \subseteq NodeIDs
         /\ Given \subseteq ToSet(save.order)
         /\ \A r \in Rows : /\ r.nid \in Given /\ r.nid \in ToSet(save.order) /\ r.nid \in NodeIDs
                            /\ r.nid \in Nat /\ r.status \in Statuses
         /\ \A r, q \in Rows : r.nid = q.nid => r = q
         /\ app = "idle" => Rows = {} /\ save = NoSave /\ Given = {} /\ ToSet(save.order) = {}
<1>1. NodeIDs = 0 .. NodeCount - 1 /\ NodeCount \in Nat
  BY TreeFacts DEF DatabaseInv
<1>2. ToSet(save.order) \subseteq NodeIDs
  BY DEF DatabaseInv, SaveKept
<1>3. Given \subseteq ToSet(save.order)
  <2>1. /\ save.order \in Seq(ToSet(save.order)) /\ Len(save.order) \in Nat
        /\ save.next \in 1 .. Len(save.order) + 1
    BY OnceSet DEF DatabaseInv, SaveKept
  <2>2. \A i \in 1 .. save.next - 1 : i \in 1 .. Len(save.order)
    BY <2>1
  <2> QED BY <2>1, <2>2, ElementOfSeq DEF Given
<1>4. \A r \in Rows : r.nid \in Given /\ r.status \in Statuses
  BY DEF DatabaseInv, RowsKept
<1>5. \A r \in Rows : r.nid \in NodeIDs /\ r.nid \in Nat
  BY <1>1, <1>2, <1>3, <1>4
<1>6. \A r, q \in Rows : r.nid = q.nid => r = q
  BY DEF DatabaseInv, RowsKept
<1>7. ASSUME app = "idle" PROVE Rows = {} /\ save = NoSave /\ Given = {} /\ ToSet(save.order) = {}
  <2>1. save = NoSave
    BY <1>7 DEF DatabaseInv, SaveKept
  <2>2. save.order = <<>> /\ save.next = 1
    BY <2>1 DEF NoSave
  <2>3. Given = {} /\ ToSet(save.order) = {}
    BY <2>2 DEF Given, ToSet
  <2> QED BY <1>4, <2>1, <2>3
<1> QED BY <1>1, <1>2, <1>3, <1>4, <1>5, <1>6, <1>7

\* While the tree grows, rows stay true and copies stay copies.
LEMMA RowsGrow ==
  ASSUME DatabaseInv, StructureInv', KidsStay, RowsTrue,
         UNCHANGED <<app, save, file>>, building' => building,
         \A n \in NodeIDs : \/ StatusOf(n)' = StatusOf(n)
                            \/ StatusOf(n) = "UNDETERMINED" /\ building /\ app \in {"idle", "saving"}
  PROVE  RowsTrue'
<1>1. Rows' = Rows /\ ToSet(save.order)' = ToSet(save.order)
  BY DEF Rows
<1>2. \A n \in NodeIDs : n \in NodeIDs' /\ Parents'[n] = Parents[n]
  BY DEF KidsStay
<1>3. ASSUME NEW n \in NodeIDs, NEW a, Held(Kids, filling, n, a)
      PROVE  Held(Kids', filling', n, a) /\ Kids'[n][a] = Kids[n][a]
  BY <1>3 DEF KidsStay
<1>4. ASSUME NEW n \in ToSet(save.order) \ {Root} PROVE Placed(n)'
  <2>1. Placed(n) /\ n \in NodeIDs /\ Parents[n] \in NodeIDs
    <3>1. n \in NodeIDs /\ n # 0
      BY RowFacts DEF Root
    <3>2. Parents[n] \in 0 .. n - 1 /\ n \in Nat
      BY <3>1, TreeFacts DEF DatabaseInv
    <3>3. Parents[n] \in NodeIDs
      BY <3>1, <3>2, RowFacts
    <3> QED BY <3>1, <3>3 DEF RowsTrue
  <2> QED BY <1>2, <1>3, <2>1 DEF Placed
<1>5. ASSUME NEW r \in Rows PROVE RowTrue(r)'
  <2>1. RowTrue(r) /\ r.nid \in NodeIDs
    BY RowFacts DEF RowsTrue
  <2>2. r.pid = Parents'[r.nid]
    BY <1>2, <2>1 DEF RowTrue
  <2>3. ASSUME r.nid # Root
        PROVE  /\ r.alt \in Nat /\ Held(Kids', filling', r.pid, r.alt + 1)
               /\ Kids'[r.pid][r.alt + 1] = r.nid
    <3>1. r.pid \in NodeIDs
      <4>1. Parents[r.nid] \in 0 .. r.nid - 1 /\ r.nid \in Nat
        BY <2>1, <2>3, TreeFacts DEF DatabaseInv, Root
      <4> QED BY <2>1, <4>1, RowFacts DEF RowTrue
    <3> QED BY <1>3, <2>1, <2>3, <3>1 DEF RowTrue
  <2>4. r.status = StatusOf(r.nid)' \/ (r.status = "UNDETERMINED" /\ save.grows)
    <3>1. app # "idle"
      BY RowFacts
    <3>2. StatusOf(r.nid)' = StatusOf(r.nid) \/ (StatusOf(r.nid) = "UNDETERMINED" /\ save.grows)
      BY <2>1, <3>1 DEF RowsTrue
    <3> QED BY <2>1, <3>2 DEF RowTrue
  <2>5. \A m \in ToSet(save.order) \ {Root} : Parents'[m] = r.nid => r.status = "BRANCH"
    <3>1. \A m \in ToSet(save.order) : Parents'[m] = Parents[m]
      BY <1>2, RowFacts
    <3> QED BY <2>1, <3>1 DEF RowTrue
  <2> QED BY <1>1, <2>2, <2>3, <2>4, <2>5 DEF RowTrue
<1> QED BY <1>1, <1>4, <1>5 DEF RowsTrue

LEMMA CopyGrows ==
  ASSUME StructureInv, StructureInv', KidsStay, KidsCome,
         NEW c, NEW l, NEW size, CopySound(c, l, size)
  PROVE  CopySound(c, l, size)'
<1>1. /\ NodeCount \in Nat /\ NodeIDs = 0 .. NodeCount - 1
      /\ NodeCount' \in Nat /\ NodeIDs' = 0 .. NodeCount' - 1
  BY Counted
<1>2. l \in 0 .. NodeCount /\ l \in 0 .. NodeCount'
  <2>1. l \in 0 .. NodeCount
    BY DEF CopySound
  <2>2. l # 0 => l - 1 \in NodeIDs'
    <3>1. l # 0 => l - 1 \in NodeIDs
      BY <1>1, <2>1
    <3> QED BY <3>1 DEF KidsStay
  <2>3. CASE l = 0
    BY <1>1, <2>1, <2>3
  <2>4. CASE l # 0
    <3>1. l - 1 \in 0 .. NodeCount' - 1
      BY <1>1, <2>2, <2>4
    <3>2. l \in Nat /\ NodeCount' \in Nat
      BY <1>1, <2>1
    <3>3. ASSUME NEW k \in Nat, l - 1 \in 0 .. k - 1 PROVE l \in 0 .. k
      BY <3>2, <3>3
    <3>4. l \in 0 .. NodeCount'
      BY <3>1, <3>2, <3>3
    <3> QED BY <2>1, <3>4
  <2> QED BY <2>3, <2>4
<1>3. ASSUME NEW n \in NodeIDs
      PROVE  /\ Parents'[n] = Parents[n]
             /\ \A a : Held(Kids, filling, n, a) => Held(Kids', filling', n, a) /\ Kids'[n][a] = Kids[n][a]
  BY DEF KidsStay
<1>4. ASSUME NEW n \in 1 .. l - 1 PROVE Placed(n)'
  <2>1. Placed(n)
    BY DEF CopySound
  <2>2. n \in NodeIDs /\ n # 0
    BY <1>1, <1>2
  <2>3. Parents[n] \in 0 .. n - 1
    BY <2>2, TreeFacts
  <2>4. Parents[n] \in NodeIDs
    BY <1>1, <2>2, <2>3
  <2>5. PICK a : Held(Kids, filling, Parents[n], a) /\ Kids[Parents[n]][a] = n
    BY <2>1 DEF Placed
  <2>6. Held(Kids', filling', Parents[n], a) /\ Kids'[Parents[n]][a] = n
    BY <1>3, <2>4, <2>5
  <2>7. Parents'[n] = Parents[n]
    BY <1>3, <2>2
  <2> QED BY <2>6, <2>7 DEF Placed
<1>5. ASSUME NEW n \in 0 .. l - 1
      PROVE  Copied(c.nodes, l, n)' /\ (Len(CopyList(c.nodes, n)) > 0 => c.status[n + 1] = "BRANCH")
  <2> DEFINE q == CopyList(c.nodes, n)
  <2>1. /\ Copied(c.nodes, l, n)
        /\ Len(q) > 0 => c.status[n + 1] = "BRANCH"
    BY DEF CopySound
  <2>2. n \in NodeIDs /\ Len(q) \in Nat
    BY <1>1, <1>2, <2>1, CopyListIs DEF Copied
  <2> HIDE DEF q
  <2>3. /\ Len(q) <= Len(Kids[n])
        /\ \A a \in 1 .. Len(q) : Held(Kids, filling, n, a) /\ q[a] = Kids[n][a] /\ Kids[n][a] < l
        /\ \A a : Held(Kids, filling, n, a) /\ Kids[n][a] < l => a <= Len(q)
    BY <2>1 DEF Copied, q
  <2>4. \A a \in 1 .. Len(q) : Held(Kids', filling', n, a) /\ q[a] = Kids'[n][a] /\ Kids'[n][a] < l
    BY <1>3, <2>2, <2>3
  <2>5. Len(q) <= Len(Kids'[n])
    <3>1. CASE Len(q) = 0
      <4>1. n \in NodeIDs'
        BY <2>2 DEF KidsStay
      <4>2. Len(Kids'[n]) \in Nat
        BY <1>1, <4>1, LenProperties DEF StructureInv, Sound
      <4> QED BY <3>1, <4>2
    <3>2. CASE Len(q) # 0
      <4>1. Held(Kids', filling', n, Len(q))
        BY <2>2, <2>4, <3>2
      <4> QED BY <4>1 DEF Held
    <3> QED BY <3>1, <3>2
  <2>6. ASSUME NEW a, Held(Kids', filling', n, a), Kids'[n][a] < l PROVE a <= Len(q)
    <3>1. n \in NodeIDs'
      BY <2>2 DEF KidsStay
    <3>2. Kids'[n][a] # NodeCount
      BY <1>1, <1>2, <2>6
    <3>3. Held(Kids, filling, n, a) /\ Kids'[n][a] = Kids[n][a]
      BY <2>6, <3>1, <3>2 DEF KidsCome
    <3> QED BY <2>3, <2>6, <3>3
  <2>7. Packed(c.nodes[n + 1]) /\ c.nodes[n + 1].parent = Parents'[n]
    BY <1>3, <2>1, <2>2 DEF Copied
  <2>8. Copied(c.nodes, l, n)'
    BY <2>4, <2>5, <2>6, <2>7 DEF Copied, q
  <2> QED BY <2>1, <2>8 DEF q
<1> QED BY <1>2, <1>4, <1>5 DEF CopySound

LEMMA NotesStay ==
  ASSUME NotesKept, UNCHANGED <<app, save, file, copy>>, notes'["Bookmarks"] = notes["Bookmarks"]
  PROVE  NotesKept'
<1>1. /\ file'.rows = file.rows /\ file'.notes = file.notes /\ copy'.notes = copy.notes
      /\ NodesSaved' = NodesSaved /\ (RowsDone' <=> RowsDone)
  BY DEF NodesSaved, RowsDone
<1> QED BY <1>1 DEF NotesKept

\* Something the builder does.
LEMMA GrowsKept ==
  ASSUME DatabaseInv, LoadingKept, Grows, UNCHANGED <<app, save, file, copy>>, building' => building,
         notes'["Bookmarks"] = notes["Bookmarks"],
         \A n \in NodeIDs : \/ StatusOf(n)' = StatusOf(n)
                            \/ StatusOf(n) = "UNDETERMINED" /\ building /\ app \in {"idle", "saving"}
  PROVE  LoadingKept'
<1>1. StructureInv /\ StructureInv' /\ KidsStay /\ KidsCome /\ Ascending'
  BY DEF DatabaseInv, Grows, Steps, LoadingKept
<1>2. RowsTrue'
  BY <1>1, RowsGrow DEF LoadingKept
<1>3. NotesKept'
  BY NotesStay DEF LoadingKept
<1>4. ASSUME app' \in {"loading", "loaded"} PROVE CopyTree'
  <2>1. CopyTree
    BY <1>4 DEF LoadingKept
  <2>2. PICK c, l, size : c = copy /\ l = Len(c.status) /\ size = Cardinality(file.rows)
    OBVIOUS
  <2>3. CopySound(c, l, size)
    BY <2>1, <2>2 DEF CopyTree
  <2>4. CopySound(c, l, size)'
    BY <1>1, <2>3, CopyGrows
  <2>5. copy' = c /\ Cardinality(file'.rows) = size /\ Len(copy'.status) = l
    BY <2>2
  <2>6. CopySound(copy, Len(copy.status), Cardinality(file.rows))'
    BY <2>4, <2>5 DEF CopySound, Copied, Placed, CopyForm, CopyList
  <2>7. FlagsOf(copy)'
    BY <2>1 DEF CopyTree
  <2>8. \A r \in file'.rows \ copy'.todo :
          copy'.status[r.nid + 1] = IF r.nid = Root THEN "BRANCH" ELSE r.status
    BY <2>1 DEF CopyTree
  <2> QED BY <2>6, <2>7, <2>8 DEF CopyTree
<1> QED BY <1>1, <1>2, <1>3, <1>4 DEF LoadingKept

LEMMA BuildersKept ==
  ASSUME DatabaseInv, LoadingKept,
         \/ \E k \in 0 .. MaxKids : Start(k)
         \/ \E n \in NodeIDs, k \in 0 .. MaxKids, st \in Reported : Promote(n, k, st)
         \/ NewRestart \/ CreateKid \/ FinishBuilding \/ UNCHANGED vars
  PROVE  LoadingKept'
<1>1. /\ StructureInv /\ NodeCount \in Nat /\ NodeIDs = 0 .. NodeCount - 1
      /\ status \in Seq(Statuses) /\ Len(status) = NodeCount
  BY Facts DEF DatabaseInv, BesideKept
<1>2. ASSUME NEW k \in 0 .. MaxKids, Start(k) PROVE LoadingKept'
  <2>1. k \in Nat /\ CreateRoot(k) /\ nodes = <<>>
        /\ UNCHANGED <<restarts, notes, building, app, save, file, copy>>
    BY <1>2, StructureBounds DEF Start, CreateRoot
  <2>2. NodeIDs = {}
    BY <1>1, <2>1, EmptySeq DEF NodeCount
  <2>3. Grows
    BY <1>1, <2>1, RootStep
  <2> QED BY <2>1, <2>2, <2>3, GrowsKept
<1>3. ASSUME NEW n \in NodeIDs, NEW k \in 0 .. MaxKids, NEW st \in Reported, Promote(n, k, st)
      PROVE  LoadingKept'
  <2>1. /\ k \in Nat /\ building /\ app \in {"idle", "saving"} /\ StatusOf(n) = "UNDETERMINED"
        /\ UNCHANGED <<restarts, building, app, save, file, copy>>
        /\ status' = [status EXCEPT ![n + 1] = st]
        /\ UNCHANGED structureVars \/ AddChildren(n, k)
    BY <1>3, StructureBounds DEF Promote, BuilderRuns
  <2>2. Grows
    BY <1>1, <2>1, StillStep, ChildrenStep
  <2>3. notes'["Bookmarks"] = notes["Bookmarks"]
    BY <1>3 DEF Promote, TableNames
  <2>4. \A m \in NodeIDs : m # n => StatusOf(m)' = StatusOf(m)
    <3>1. ASSUME NEW m \in NodeIDs, m # n PROVE status'[m + 1] = status[m + 1]
      <4>1. m + 1 # n + 1
        BY <1>1, <3>1
      <4> QED BY <2>1, <4>1
    <3> QED BY <3>1 DEF StatusOf
  <2> QED BY <2>1, <2>2, <2>3, <2>4, GrowsKept
<1>4. CASE NewRestart
  <2>1. AddExtraChild(Root) /\ UNCHANGED <<status, notes, building, app, save, file, copy>>
    BY <1>4 DEF NewRestart, databaseVars
  <2>2. Grows
    BY <1>1, <2>1, ExtraStep
  <2> QED BY <2>1, <2>2, GrowsKept DEF StatusOf
<1>5. CASE CreateKid
  <2>1. /\ CreateChild /\ status' = Append(status, "UNDETERMINED")
        /\ UNCHANGED <<restarts, notes, building, app, save, file, copy>>
    BY <1>5 DEF CreateKid
  <2>2. Grows
    BY <1>1, <2>1, ChildStep
  <2>3. \A m \in NodeIDs : StatusOf(m)' = StatusOf(m)
    <3>1. \A m \in 0 .. Len(status) - 1 : status'[m + 1] = status[m + 1]
      BY <1>1, <2>1, Added DEF Statuses
    <3> QED BY <1>1, <3>1 DEF StatusOf
  <2> QED BY <2>1, <2>2, <2>3, GrowsKept
<1>6. CASE FinishBuilding
  <2>1. /\ building' = FALSE
        /\ UNCHANGED <<structureVars, restarts, status, notes, app, save, file, copy>>
    BY <1>6 DEF FinishBuilding
  <2>2. Grows
    BY <1>1, <2>1, StillStep
  <2> QED BY <2>1, <2>2, GrowsKept DEF StatusOf
<1>7. CASE UNCHANGED vars
  <2>1. UNCHANGED <<structureVars, status, notes, building, app, save, file, copy>>
    BY <1>7 DEF vars, databaseVars
  <2>2. Grows
    BY <1>1, <2>1, StillStep
  <2> QED BY <2>1, <2>2, GrowsKept DEF StatusOf
<1> QED BY <1>2, <1>3, <1>4, <1>5, <1>6, <1>7

\* What the user does comes before a save.
LEMMA UserKept ==
  ASSUME DatabaseInv, LoadingKept, app = "idle", StructureInv', Ascending',
         UNCHANGED <<building, app, save, file, copy>>
  PROVE  LoadingKept'
<1>1. Rows = {} /\ ToSet(save.order) = {} /\ save = NoSave
  BY RowFacts
<1>2. Rows' = {} /\ ToSet(save'.order) = {} /\ save' = NoSave
  BY <1>1 DEF Rows
<1>3. RowsTrue'
  BY <1>2 DEF RowsTrue
<1>4. NotesKept'
  <2>1. save'.table = 1
    BY <1>2 DEF NoSave
  <2>2. app' = "idle" /\ file'.notes = file.notes /\ save'.table = save.table
    OBVIOUS
  <2> QED BY <2>1, <2>2 DEF NotesKept, LoadingKept
<1> QED BY <1>3, <1>4 DEF LoadingKept

LEMMA UserStepsKept ==
  ASSUME DatabaseInv, LoadingKept, NEW n, RemoveNode(n) \/ ToggleBookmark(n)
  PROVE  LoadingKept'
<1>1. StructureInv /\ Ascending
  BY DEF DatabaseInv, LoadingKept
<1>2. CASE RemoveNode(n)
  <2>1. app = "idle" /\ UNCHANGED <<building, app, save, file, copy>>
    BY <1>2 DEF RemoveNode, databaseVars
  <2>2. PICK p, alt : RemoveAlt(p, alt)
    BY <1>2 DEF RemoveNode
  <2>3. StructureInv' /\ Ascending'
    BY <1>1, <2>2, RemoveStep DEF Steps
  <2> QED BY <2>1, <2>3, UserKept
<1>3. CASE ToggleBookmark(n)
  <2>1. app = "idle" /\ UNCHANGED <<structureVars, building, app, save, file, copy>>
    BY <1>3 DEF ToggleBookmark
  <2>2. StructureInv' /\ Ascending'
    BY <1>1, <2>1, StillStep DEF Grows, Steps
  <2> QED BY <2>1, <2>2, UserKept
<1> QED BY <1>2, <1>3

-----------------------------------------------------------------------------
(* Saving keeps it so *)

LEMMA TreeSame ==
  ASSUME StructureInv, UNCHANGED <<structureVars, status>>
  PROVE  /\ Kids' = Kids /\ Parents' = Parents /\ filling' = filling
         /\ NodeCount' = NodeCount /\ NodeIDs' = NodeIDs /\ StructureInv'
         /\ \A n : Placed(n)' <=> Placed(n)
         /\ \A n : StatusOf(n)' = StatusOf(n)
         /\ Ascending => Ascending'
<1>1. Kids' = Kids /\ NodeCount' = NodeCount /\ StructureInv' /\ (Ascending => Ascending')
  BY StillStep DEF Grows, Steps
<1>2. filling' = filling /\ nodes' = nodes /\ NodeIDs' = NodeIDs
  BY DEF structureVars, NodeIDs, NodeCount
<1>3. Parents' = Parents
  BY <1>2 DEF Parents, ParentOf, NodeAt
<1>4. \A n : Placed(n)' <=> Placed(n)
  BY <1>1, <1>2, <1>3 DEF Placed
<1>5. \A n : StatusOf(n)' = StatusOf(n)
  BY DEF StatusOf
<1> QED BY <1>1, <1>2, <1>3, <1>4, <1>5

\* Of the same nodes, no other rows.
LEMMA RowsStay ==
  ASSUME DatabaseInv, LoadingKept, UNCHANGED <<structureVars, status, building>>,
         save'.order = save.order, save'.grows = save.grows, app' = "saving" => app = "saving",
         \A r \in Rows' : r \in Rows \/ RowTrue(r)
  PROVE  RowsTrue'
<1>1. /\ Kids' = Kids /\ Parents' = Parents /\ filling' = filling
      /\ \A n : Placed(n)' <=> Placed(n)
      /\ \A n : StatusOf(n)' = StatusOf(n)
  BY TreeSame DEF DatabaseInv
<1>2. ASSUME NEW r \in Rows' PROVE RowTrue(r)'
  <2>1. RowTrue(r)
    BY <1>2 DEF LoadingKept, RowsTrue
  <2> QED BY <1>1, <2>1 DEF RowTrue
<1>3. \A n \in ToSet(save'.order) \ {Root} : Placed(n)'
  BY <1>1 DEF LoadingKept, RowsTrue
<1>4. app' = "saving" /\ building' => save'.grows
  BY DEF LoadingKept, RowsTrue
<1> QED BY <1>2, <1>3, <1>4 DEF RowsTrue

LEMMA BeginSaveTrue ==
  ASSUME DatabaseInv, LoadingKept, BeginSave
  PROVE  LoadingKept'
<1>1. /\ app = "idle" /\ file' = EmptyFile
      /\ UNCHANGED <<structureVars, restarts, status, notes, building, copy>>
      /\ \/ app' = "aborted" /\ save' = save
         \/ /\ nodes # <<>> /\ AtRest
            /\ app' = "saving" /\ save' = [NoSave EXCEPT !.order = PreOrder, !.grows = building]
  BY DEF BeginSave
<1>2. Rows = {} /\ ToSet(save.order) = {} /\ save = NoSave
  BY <1>1, RowFacts
<1>3. file'.rows = {} /\ file'.notes = NoNotes
  BY <1>1 DEF EmptyFile
<1>4. Ascending' /\ \A n : Placed(n)' <=> Placed(n)
  BY <1>1, TreeSame DEF DatabaseInv, LoadingKept
<1>5. save'.table = 1 /\ save'.batch = {}
  <2>1. save' = NoSave \/ save' = [NoSave EXCEPT !.order = PreOrder, !.grows = building]
    BY <1>1, <1>2
  <2>2. CASE save' = NoSave
    BY <2>2 DEF NoSave
  <2>3. CASE save' = [NoSave EXCEPT !.order = PreOrder, !.grows = building]
    <3>1. save' = [order |-> PreOrder, next |-> 1, batch |-> {}, table |-> 1,
                   failed |-> FALSE, grows |-> building]
      BY <2>3 DEF NoSave
    <3> QED BY <3>1
  <2> QED BY <2>1, <2>2, <2>3
<1>6. NotesKept'
  <2>1. NoNotes \in [TableNames -> SUBSET Nat]
    BY DEF NoNotes
  <2>2. app' # "loaded"
    BY <1>1
  <2> QED BY <1>3, <1>5, <2>1, <2>2 DEF NotesKept
<1>7. Rows' = {}
  BY <1>3, <1>5 DEF Rows
<1>8. CASE app' = "aborted" /\ save' = save
  <2>1. RowsTrue'
    BY <1>2, <1>7, <1>8 DEF RowsTrue
  <2> QED BY <1>4, <1>6, <1>8, <2>1 DEF LoadingKept
<1>9. CASE /\ nodes # <<>> /\ AtRest
           /\ app' = "saving" /\ save' = [NoSave EXCEPT !.order = PreOrder, !.grows = building]
  <2>1. PICK T : /\ Once(PreOrder, T) /\ T \subseteq NodeIDs
                 /\ Subtree(NodeCount, Nums, Kids, Parents, Root, T)
    BY <1>9, PreOrderLists DEF DatabaseInv
  <2>2. save'.order = PreOrder /\ save'.grows = building
    BY <1>9 DEF NoSave
  <2>3. ToSet(save'.order) = T
    BY <2>1, <2>2, OnceSet
  <2>4. ASSUME NEW n \in T \ {Root} PROVE Placed(n)'
    <3>1. Parents[n] \in T /\ \E a \in 1 .. Nums[Parents[n]] : Kids[Parents[n]][a] = n
      BY <2>1, <2>4 DEF Subtree
    <3>2. PICK a \in 1 .. Nums[Parents[n]] : Kids[Parents[n]][a] = n
      BY <3>1
    <3>3. Held(Kids, filling, Parents[n], a)
      BY <1>9, <2>1, <3>1, <3>2, RestFacts DEF DatabaseInv
    <3>4. Placed(n)
      BY <3>2, <3>3 DEF Placed
    <3> QED BY <1>4, <3>4
  <2>5. RowsTrue'
    BY <1>1, <1>7, <2>2, <2>3, <2>4 DEF RowsTrue
  <2> QED BY <1>4, <1>6, <1>9, <2>5 DEF LoadingKept
<1> QED BY <1>1, <1>8, <1>9

\* getAlternative finds the place of a node that is in one.
LEMMA AlternativeIs ==
  ASSUME StructureInv, NEW n \in NodeIDs \ {Root}, Placed(n)
  PROVE  /\ Alternative(n) \in Nat
         /\ Held(Kids, filling, Parents[n], Alternative(n) + 1)
         /\ Kids[Parents[n]][Alternative(n) + 1] = n
<1> DEFINE p == Parents[n]
           B == {b \in 0 .. KidsOf(p) - 1 : ChildAt(p, b) = n}
<1>1. /\ NodeIDs = 0 .. NodeCount - 1 /\ NodeCount \in Nat
      /\ n # 0 /\ n \in NodeIDs /\ n \in Nat
  BY TreeFacts DEF Root
<1>2. p \in 0 .. n - 1
  BY <1>1, TreeFacts
<1>3. p \in NodeIDs /\ ParentOf(n) = p
  <2>1. p \in NodeIDs
    BY <1>1, <1>2
  <2> QED BY <1>1, <2>1 DEF Parents
<1>4. PICK a : Held(Kids, filling, p, a) /\ Kids[p][a] = n
  BY DEF Placed
<1> HIDE DEF p
<1>5. /\ Len(Kids[p]) = KidsOf(p) /\ KidsOf(p) \in Nat
      /\ \A b \in 0 .. KidsOf(p) - 1 : Kids[p][b + 1] = ChildAt(p, b)
  <2>1. Packed(nodes[p + 1]) /\ Kids[p] = KidSeq(nodes[p + 1])
    BY <1>3, Facts
  <2>2. /\ Len(Kids[p]) = KidsOf(p) /\ KidsOf(p) \in Nat
        /\ \A b \in 1 .. KidsOf(p) : Kids[p][b] = ChildAt(p, b - 1)
    BY <2>1, KidSeqIs DEF KidsOf, NodeAt, ChildAt
  <2>3. \A b \in 0 .. KidsOf(p) - 1 : b + 1 \in 1 .. KidsOf(p) /\ (b + 1) - 1 = b
    BY <2>2
  <2> QED BY <2>2, <2>3
<1>6. a \in 1 .. KidsOf(p) /\ a - 1 \in B
  <2>1. a \in 1 .. KidsOf(p)
    BY <1>4, <1>5 DEF Held
  <2>2. a - 1 \in 0 .. KidsOf(p) - 1 /\ (a - 1) + 1 = a
    BY <1>5, <2>1
  <2> QED BY <1>4, <1>5, <2>1, <2>2
<1>7. B \subseteq Nat /\ B # {}
  BY <1>5, <1>6
<1>8. PICK b \in B : \A x \in B : b <= x
  BY <1>7, LeastNumber
<1>9. /\ Alternative(n) \in 0 .. KidsOf(p) - 1
      /\ ChildAt(p, Alternative(n)) = n
      /\ \A x \in 0 .. Alternative(n) - 1 : ChildAt(p, x) # n
  <2> DEFINE First(y) == /\ ChildAt(p, y) = n
                         /\ \A x \in 0 .. y - 1 : ChildAt(p, x) # n
  <2>1. b \in 0 .. KidsOf(p) - 1 /\ First(b)
    <3>1. b \in 0 .. KidsOf(p) - 1 /\ ChildAt(p, b) = n
      BY <1>8
    <3>2. ASSUME NEW x \in 0 .. b - 1 PROVE ChildAt(p, x) # n
      <4>1. x \in 0 .. KidsOf(p) - 1 /\ ~(b <= x)
        BY <1>5, <3>1
      <4> QED BY <1>8, <4>1
    <3> QED BY <3>1, <3>2
  <2>2. Alternative(n) = CHOOSE y \in 0 .. KidsOf(p) - 1 : First(y)
    BY <1>1, <1>3 DEF Alternative, Root
  <2> HIDE DEF First
  <2>3. Alternative(n) \in 0 .. KidsOf(p) - 1 /\ First(Alternative(n))
    BY <2>1, <2>2
  <2> QED BY <2>3 DEF First
<1>10. Alternative(n) + 1 \in 1 .. a
  <2>1. ~(a - 1 < Alternative(n))
    <3>1. ChildAt(p, a - 1) = n /\ a - 1 \in Nat
      BY <1>5, <1>6
    <3>2. Alternative(n) \in Nat
      BY <1>5, <1>9
    <3>3. a - 1 < Alternative(n) => a - 1 \in 0 .. Alternative(n) - 1
      BY <3>1, <3>2
    <3> QED BY <1>9, <3>1, <3>3
  <2>2. Alternative(n) \in Nat /\ a \in Nat
    BY <1>5, <1>6, <1>9
  <2> QED BY <2>1, <2>2
<1>11. Held(Kids, filling, p, Alternative(n) + 1)
  BY <1>3, <1>4, <1>10, TreeFacts
<1>12. Kids[p][Alternative(n) + 1] = n /\ Alternative(n) \in Nat
  BY <1>5, <1>9
<1> QED BY <1>11, <1>12 DEF p

LEMMA SaveRowTrue ==
  ASSUME FaithfulInv, NEW ok \in BOOLEAN, SaveRow(ok)
  PROVE  LoadingKept'
<1> DEFINE n == save.order[save.next]
<1>1. DatabaseInv /\ BranchesKept /\ LoadingKept /\ RowSaved(ok)
  BY SaveRowIs DEF FaithfulInv
<1>2. /\ app = "saving" /\ app' = app /\ ~RowsDone
      /\ UNCHANGED <<structureVars, restarts, status, notes, building, copy>>
      /\ n \in NodeIDs /\ n \in ToSet(save.order)
      /\ save'.order = save.order /\ save'.table = save.table /\ save'.grows = save.grows
      /\ file'.notes = file.notes
      /\ Rows' = Rows \cup (IF ok THEN {Row(n)} ELSE {})
  BY <1>1 DEF RowSaved
<1> HIDE DEF n
<1>3. RowTrue(Row(n))
  <2>1. /\ Row(n).nid = n /\ Row(n).pid = Parents[n] /\ Row(n).alt = Alternative(n)
        /\ Row(n).status = StatusOf(n)
    BY <1>2 DEF Row, Parents
  <2>2. ASSUME n # Root
        PROVE  /\ Alternative(n) \in Nat
               /\ Held(Kids, filling, Parents[n], Alternative(n) + 1)
               /\ Kids[Parents[n]][Alternative(n) + 1] = n
    <3>1. Placed(n)
      BY <1>1, <1>2, <2>2 DEF LoadingKept, RowsTrue
    <3> QED BY <1>1, <1>2, <2>2, <3>1, AlternativeIs DEF DatabaseInv
  <2>3. ASSUME NEW m \in ToSet(save.order) \ {Root}, Parents[m] = n PROVE StatusOf(n) = "BRANCH"
    <3>1. PICK a : Held(Kids, filling, n, a)
      BY <1>1, <2>3 DEF LoadingKept, RowsTrue, Placed
    <3>2. Len(Kids[n]) > 0
      <4>1. a \in 1 .. Len(Kids[n]) /\ Len(Kids[n]) \in Nat
        BY <1>1, <1>2, <3>1, TreeFacts DEF Held, DatabaseInv
      <4> QED BY <4>1
    <3> QED BY <1>1, <1>2, <3>2 DEF BranchesKept
  <2> QED BY <2>1, <2>2, <2>3 DEF RowTrue
<1>4. RowsTrue'
  BY <1>1, <1>2, <1>3, RowsStay
<1>5. NotesKept'
  <2>1. save.table = 1
    <3>1. save.table \in 1 .. 4 /\ ~(save.table > 1)
      BY <1>1, <1>2 DEF DatabaseInv, SaveKept, LoadingKept, NotesKept
    <3> QED BY <3>1
  <2> QED BY <1>1, <1>2, <2>1 DEF LoadingKept, NotesKept
<1>6. Ascending'
  BY <1>1, <1>2, TreeSame DEF DatabaseInv, LoadingKept
<1> QED BY <1>2, <1>4, <1>5, <1>6 DEF LoadingKept

LEMMA SaveTableTrue ==
  ASSUME DatabaseInv, LoadingKept, SaveTable
  PROVE  LoadingKept'
<1>1. PICK kept : TableSaved(kept)
  BY SaveTableIs
<1>2. /\ app = "saving" /\ app' \in {"saving", "saved"}
      /\ UNCHANGED <<structureVars, restarts, status, notes, building, copy>>
      /\ kept = [file.notes EXCEPT ![Tables[save.table]] = notes[Tables[save.table]]]
      /\ save'.order = save.order /\ save'.batch = {} /\ save'.table = save.table + 1
      /\ save'.failed = save.failed /\ save'.grows = save.grows
      /\ file'.rows = Rows /\ file'.notes = kept /\ Rows' = Rows /\ RowsDone /\ RowsDone'
  BY <1>1 DEF TableSaved
<1>3. RowsTrue'
  BY <1>2, RowsStay
<1>4. Ascending'
  BY <1>2, TreeSame DEF DatabaseInv, LoadingKept
<1>5. /\ save.table \in 1 .. 3 /\ file.notes \in [TableNames -> SUBSET Nat]
      /\ notes \in [TableNames -> SUBSET Nat]
  <2>1. save.table \in 1 .. 4 /\ save.table <= 3
    BY <1>2 DEF DatabaseInv, SaveKept
  <2>2. NodeIDs \subseteq Nat
    BY DEF NodeIDs
  <2>3. notes \in [TableNames -> SUBSET NodeIDs] /\ file.notes \in [TableNames -> SUBSET Nat]
    BY DEF DatabaseInv, BesideKept, LoadingKept, NotesKept
  <2>4. SUBSET NodeIDs \subseteq SUBSET Nat
    BY <2>2
  <2> HIDE DEF TableNames
  <2>5. notes \in [TableNames -> SUBSET Nat]
    BY <2>3, <2>4
  <2>6. save.table \in 1 .. 3
    BY <2>1
  <2> QED BY <2>3, <2>5, <2>6
<1>6. kept \in [TableNames -> SUBSET Nat] /\ kept["Bookmarks"] = notes["Bookmarks"]
  <2>1. save.table = 1 \/ save.table > 1
    BY <1>5
  <2>2. Tables[save.table] \in TableNames /\ (save.table > 1 => Tables[save.table] # "Bookmarks")
        /\ Tables[1] = "Bookmarks" /\ "Bookmarks" \in TableNames
    <3>1. save.table = 1 \/ save.table = 2 \/ save.table = 3
      BY <1>5
    <3> QED BY <3>1 DEF Tables, TableNames
  <2>3. save.table > 1 => file.notes["Bookmarks"] = notes["Bookmarks"]
    BY DEF LoadingKept, NotesKept
  <2> HIDE DEF TableNames, Tables
  <2>4. kept \in [TableNames -> SUBSET Nat]
    BY <1>2, <1>5, <2>2
  <2>5. kept["Bookmarks"] = IF Tables[save.table] = "Bookmarks" THEN notes["Bookmarks"]
                            ELSE file.notes["Bookmarks"]
    BY <1>2, <1>5, <2>2
  <2> QED BY <2>1, <2>2, <2>3, <2>4, <2>5
<1>7. save'.failed \/ NodesSaved' = ToSet(save'.order)
  <2> SUFFICES ASSUME ~save.failed PROVE NodesSaved' = ToSet(save.order)
    BY <1>2
  <2>1. \A x \in Given : \E r \in Rows : r.nid = x
    BY <1>2 DEF DatabaseInv, RowsKept
  <2>2. ToSet(save.order) \subseteq Given
    <3>1. /\ Len(save.order) \in Nat /\ save.order \in Seq(ToSet(save.order))
          /\ save.next \in 1 .. Len(save.order) + 1
      BY OnceSet DEF DatabaseInv, SaveKept
    <3>2. DOMAIN save.order = 1 .. Len(save.order) /\ save.next > Len(save.order)
      BY <1>2, <3>1, LenProperties DEF RowsDone
    <3>3. \A i \in DOMAIN save.order : i \in 1 .. save.next - 1
      BY <3>1, <3>2
    <3> QED BY <3>3 DEF ToSet, Given
  <2>3. NodesSaved' = {r.nid : r \in Rows}
    BY <1>2 DEF NodesSaved
  <2>4. \A r \in Rows : r.nid \in ToSet(save.order)
    BY RowFacts
  <2> QED BY <2>1, <2>2, <2>3, <2>4
<1>8. NotesKept'
  <2>1. save'.table # 1 /\ app' # "loaded"
    BY <1>2, <1>5
  <2>2. notes' = notes
    BY <1>2
  <2> QED BY <1>2, <1>6, <1>7, <2>1, <2>2 DEF NotesKept
<1> QED BY <1>2, <1>3, <1>4, <1>8 DEF LoadingKept

LEMMA CrashTrue ==
  ASSUME DatabaseInv, LoadingKept, Crash
  PROVE  LoadingKept'
<1>1. /\ app' = "crashed" /\ save' = [save EXCEPT !.batch = {}]
      /\ UNCHANGED <<structureVars, restarts, status, notes, building, file, copy>>
  BY DEF Crash
<1>2. /\ save'.order = save.order /\ save'.grows = save.grows /\ save'.batch = {}
      /\ save'.table = save.table /\ save'.failed = save.failed /\ save'.next = save.next
  <2>1. save = [order |-> save.order, next |-> save.next, batch |-> save.batch,
                table |-> save.table, failed |-> save.failed, grows |-> save.grows]
    BY DEF DatabaseInv, SaveKept
  <2> QED BY <1>1, <2>1
<1>3. Rows' \subseteq Rows
  BY <1>1, <1>2 DEF Rows
<1>4. RowsTrue'
  BY <1>1, <1>2, <1>3, RowsStay
<1>5. NotesKept'
  <2>1. file' = file /\ notes' = notes /\ app' # "loaded" /\ (RowsDone' <=> RowsDone) /\ NodesSaved' = NodesSaved
    BY <1>1, <1>2 DEF RowsDone, NodesSaved
  <2> QED BY <1>2, <2>1 DEF LoadingKept, NotesKept
<1>6. Ascending'
  BY <1>1, TreeSame DEF DatabaseInv, LoadingKept
<1> QED BY <1>1, <1>4, <1>5, <1>6 DEF LoadingKept

-----------------------------------------------------------------------------
(* Loading keeps it so *)

\* What the rows still to read and the notes are makes no difference.
LEMMA CopySame ==
  ASSUME StructureInv, NEW c, NEW l, NEW size, CopySound(c, l, size), FlagsOf(c),
         NEW d, CopyForm(d), d.nodes = c.nodes, d.status = c.status, d.open = c.open, d.solved = c.solved
  PROVE  CopySound(d, l, size) /\ FlagsOf(d)
<1>1. CopySound(d, l, size)
  BY DEF CopySound
<1>2. l \in 0 .. NodeCount /\ NodeCount \in Nat /\ Upward(NodeCount, Parents)
  BY TreeFacts DEF CopySound
<1>3. l \in l .. NodeCount
  BY <1>2
<1>4. Upward(l, Parents)
  BY <1>2 DEF Upward
<1>5. PICK up : Lineage(l, Parents, up)
  BY <1>4, LineageExists
<1>6. FlagsOf(c) <=> Flagged(l, Parents, up, c.status, c.open, c.solved)
  BY <1>3, <1>5, FlagsAre
<1>7. FlagsOf(d) <=> Flagged(l, Parents, up, d.status, d.open, d.solved)
  BY <1>1, <1>3, <1>5, FlagsAre
<1> QED BY <1>1, <1>6, <1>7

LEMMA CopyIs ==
  ASSUME StructureInv, UNCHANGED <<structureVars, status, file>>,
         NEW d, copy' = d, NEW l, NEW size, size = Cardinality(file.rows), CopySound(d, l, size), FlagsOf(d),
         \A r \in file.rows \ d.todo : d.status[r.nid + 1] = IF r.nid = Root THEN "BRANCH" ELSE r.status
  PROVE  CopyTree'
<1>1. /\ Kids' = Kids /\ Parents' = Parents /\ filling' = filling /\ NodeCount' = NodeCount
      /\ \A n : Placed(n)' <=> Placed(n)
  BY TreeSame
<1>2. l = Len(copy'.status)
  BY DEF CopySound
<1>3. size = Cardinality(file'.rows)
  OBVIOUS
<1>4. CopySound(copy, l, size)'
  BY <1>1 DEF CopySound, Copied, CopyForm, CopyList
<1>5. FlagsOf(copy)'
  OBVIOUS
<1> QED BY <1>2, <1>3, <1>4, <1>5 DEF CopyTree

LEMMA BeginLoadTrue ==
  ASSUME DatabaseInv, LoadingKept, BeginLoad
  PROVE  LoadingKept'
<1> DEFINE size == Cardinality(file.rows)
           ns == [i \in 1 .. size |-> NewNode(NoNode, 0)]
<1>1. /\ app \in {"saved", "crashed"} /\ app' = "loading"
      /\ copy' = [NoCopy EXCEPT !.todo = file.rows, !.nodes = ns]
      /\ UNCHANGED <<structureVars, restarts, status, notes, building, save, file>>
  BY DEF BeginLoad
<1> HIDE DEF size
<1>2. PICK d : d = [nodes |-> ns, status |-> <<>>, open |-> <<>>, solved |-> <<>>,
                    notes |-> NoNotes, todo |-> file.rows]
  OBVIOUS
<1>3. copy' = d
  <2> HIDE DEF ns
  <2>1. PICK m : m = ns
    OBVIOUS
  <2>2. copy' = [NoCopy EXCEPT !.todo = file.rows, !.nodes = m]
    BY <1>1, <2>1
  <2>3. copy' = [nodes |-> m, status |-> <<>>, open |-> <<>>, solved |-> <<>>,
                 notes |-> NoNotes, todo |-> file.rows]
    BY <2>2 DEF NoCopy
  <2> QED BY <1>2, <2>1, <2>3
<1>4. CopyForm(d) /\ d.todo = file.rows /\ d.status = <<>> /\ d.open = <<>> /\ d.solved = <<>>
      /\ DOMAIN d.nodes = 1 .. size
  BY <1>2 DEF CopyForm
<1>5. CopySound(d, 0, size)
  <2>1. Len(d.status) = 0 /\ d.status \in Seq(Statuses)
    BY <1>4, EmptySeq
  <2>2. d.open \in Seq(BOOLEAN) /\ Len(d.open) = 0 /\ d.solved \in Seq(BOOLEAN) /\ Len(d.solved) = 0
    BY <1>4, EmptySeq
  <2>3. 0 \in 0 .. NodeCount
    BY TreeFacts DEF DatabaseInv
  <2>4. 1 .. 0 - 1 = {} /\ 0 .. 0 - 1 = {}
    OBVIOUS
  <2> QED BY <1>4, <2>1, <2>2, <2>3, <2>4 DEF CopySound
<1>6. FlagsOf(d)
  <2>1. Len(d.status) = 0
    BY <1>4, EmptySeq
  <2>2. 0 .. Len(d.status) - 1 = {}
    BY <2>1
  <2> QED BY <2>2 DEF FlagsOf
<1>7. CopyTree'
  <2>1. size = Cardinality(file.rows)
    BY DEF size
  <2> HIDE DEF ns
  <2> QED BY <1>1, <1>3, <1>4, <1>5, <1>6, <2>1, CopyIs DEF DatabaseInv
<1>8. RowsTrue'
  <2>1. Rows' = Rows
    BY <1>1 DEF Rows
  <2> QED BY <1>1, <2>1, RowsStay
<1>9. NotesKept'
  <2>1. app' # "loaded" /\ notes' = notes /\ save' = save /\ file' = file
        /\ NodesSaved' = NodesSaved /\ (RowsDone' <=> RowsDone)
    BY <1>1 DEF NodesSaved, RowsDone
  <2> QED BY <2>1 DEF LoadingKept, NotesKept
<1>10. Ascending'
  BY <1>1, TreeSame DEF DatabaseInv, LoadingKept
<1> QED BY <1>7, <1>8, <1>9, <1>10 DEF LoadingKept

\* The next row fits.
LEMMA NextRowFits ==
  ASSUME DatabaseInv, LoadingKept, app = "loading",
         NEW r \in copy.todo, NEW l, l = Len(copy.status), r.nid = l,
         NEW c, c.status = copy.status
  PROVE  RowFits(c, r, l, Cardinality(file.rows)) /\ (l # 0 => Placed(l))
<1> DEFINE size == Cardinality(file.rows)
<1>1. /\ copy.todo \subseteq file.rows
      /\ {q.nid : q \in file.rows \ copy.todo} = 0 .. l - 1
      /\ CopyTree
  BY DEF DatabaseInv, CopyKept, LoadingKept
<1>2. r \in Rows /\ r \in file.rows
  BY <1>1 DEF Rows
<1>3. l \in NodeIDs /\ l \in Nat /\ l \in ToSet(save.order) /\ r.status \in Statuses
  BY <1>2, RowFacts
<1>4. RowTrue(r)
  BY <1>2 DEF LoadingKept, RowsTrue
<1>5. size \in Nat /\ l + 1 <= size
  <2>1. IsFiniteSet(NodesSaved) /\ Cardinality(NodesSaved) = size /\ size \in Nat
    BY RowsCounted
  <2>2. 0 .. l \subseteq NodesSaved
    <3>1. ASSUME NEW x \in 0 .. l PROVE x \in NodesSaved
      <4>1. x = l \/ x \in 0 .. l - 1
        BY <1>3
      <4>2. CASE x = l
        BY <1>2, <4>2 DEF NodesSaved
      <4>3. CASE x \in 0 .. l - 1
        BY <1>1, <4>3 DEF NodesSaved
      <4> QED BY <4>1, <4>2, <4>3
    <3> QED BY <3>1
  <2>3. IsFiniteSet(0 .. l) /\ Cardinality(0 .. l) = l + 1
    <3>1. 0 \in Int /\ l \in Int
      BY <1>3
    <3>2. Cardinality(0 .. l) = IF 0 > l THEN 0 ELSE l - 0 + 1
      BY <3>1, FS_Interval
    <3> QED BY <1>3, <3>1, <3>2, FS_Interval
  <2>4. Cardinality(0 .. l) <= Cardinality(NodesSaved)
    BY <2>1, <2>2, FS_Subset
  <2> QED BY <2>1, <2>3, <2>4
<1>6. ASSUME l # 0 PROVE c.status[Parents[l] + 1] = "BRANCH"
  <2>1. Parents[l] \in 0 .. l - 1
    BY <1>3, <1>6, TreeFacts DEF DatabaseInv
  <2>2. PICK q \in file.rows \ copy.todo : q.nid = Parents[l]
    BY <1>1, <2>1
  <2>3. q \in Rows
    BY <2>2 DEF Rows
  <2>4. RowTrue(q)
    BY <2>3 DEF LoadingKept, RowsTrue
  <2>5. q.status = "BRANCH"
    BY <1>3, <1>6, <2>2, <2>4 DEF RowTrue, Root
  <2>6. copy.status[q.nid + 1] = "BRANCH"
    BY <1>1, <2>2, <2>5 DEF CopyTree
  <2> QED BY <2>2, <2>6
<1>7. ASSUME l # 0
      PROVE  /\ r.alt \in Nat /\ Held(Kids, filling, Parents[l], r.alt + 1)
             /\ Kids[Parents[l]][r.alt + 1] = l /\ Placed(l)
  BY <1>3, <1>4, <1>7 DEF RowTrue, Root, LoadingKept, RowsTrue
<1>8. r.pid = Parents[l]
  BY <1>4 DEF RowTrue
<1> HIDE DEF size
<1>9. RowFits(c, r, l, size)
  BY <1>3, <1>5, <1>6, <1>7, <1>8 DEF RowFits
<1> QED BY <1>7, <1>9 DEF size

LEMMA LoadRowTrue ==
  ASSUME DatabaseInv, LoadingKept, LoadRow
  PROVE  LoadingKept'
<1>1. PICK r \in copy.todo :
        IF r.nid = Len(copy.status)
        THEN copy' = WithNode([copy EXCEPT !.todo = @ \ {r}], r) /\ UNCHANGED app
        ELSE app' = "aborted" /\ UNCHANGED copy
  BY DEF LoadRow
<1>2. /\ app = "loading" /\ app' \in {"loading", "aborted"}
      /\ UNCHANGED <<structureVars, restarts, status, notes, building, save, file>>
  BY <1>1 DEF LoadRow
<1>3. RowsTrue'
  <2>1. Rows' = Rows
    BY <1>2 DEF Rows
  <2> QED BY <1>2, <2>1, RowsStay
<1>4. NotesKept'
  <2>1. app' # "loaded" /\ notes' = notes /\ save' = save /\ file' = file
        /\ NodesSaved' = NodesSaved /\ (RowsDone' <=> RowsDone)
    BY <1>2 DEF NodesSaved, RowsDone
  <2> QED BY <2>1 DEF LoadingKept, NotesKept
<1>5. Ascending'
  BY <1>2, TreeSame DEF DatabaseInv, LoadingKept
<1>6. ASSUME r.nid = Len(copy.status) PROVE CopyTree'
  <2>1. PICK c, l, size, todo : /\ todo = copy.todo \ {r} /\ c = [copy EXCEPT !.todo = todo]
                                /\ l = Len(copy.status) /\ size = Cardinality(file.rows)
    OBVIOUS
  <2>2. PICK d : d = WithNode(c, r)
    OBVIOUS
  <2>3. copy' = d
    <3>1. copy' = WithNode([copy EXCEPT !.todo = @ \ {r}], r)
      BY <1>1, <1>6
    <3>2. [copy EXCEPT !.todo = @ \ {r}] = c
      BY <2>1
    <3> QED BY <2>2, <3>1, <3>2
  <2>4. /\ CopySound(copy, l, size) /\ FlagsOf(copy) /\ CopyForm(copy)
        /\ \A q \in file.rows \ copy.todo :
             copy.status[q.nid + 1] = IF q.nid = Root THEN "BRANCH" ELSE q.status
    BY <1>2, <2>1 DEF LoadingKept, CopyTree, CopySound
  <2>5. /\ CopyForm(c) /\ c.nodes = copy.nodes /\ c.status = copy.status /\ c.open = copy.open
        /\ c.solved = copy.solved /\ c.todo = todo
    <3>1. c = [nodes |-> copy.nodes, status |-> copy.status, open |-> copy.open,
               solved |-> copy.solved, notes |-> copy.notes, todo |-> todo]
      BY <2>1, <2>4 DEF CopyForm
    <3> QED BY <3>1 DEF CopyForm
  <2>6. CopySound(c, l, size) /\ FlagsOf(c)
    BY <2>4, <2>5, CopySame DEF DatabaseInv
  <2>7. RowFits(c, r, l, size) /\ (l # 0 => Placed(l))
    BY <1>2, <1>6, <2>1, <2>5, NextRowFits
  <2>8. /\ CopySound(d, l + 1, size) /\ FlagsOf(d) /\ d.todo = todo
        /\ d.status = Append(copy.status, IF l = 0 THEN "BRANCH" ELSE r.status)
    <3>1. CASE l = 0
      <4>1. CopySound(c, 0, size) /\ RowFits(c, r, 0, size)
        BY <2>6, <2>7, <3>1
      <4>2. CopySound(d, 1, size) /\ FlagsOf(d) /\ d.todo = c.todo /\ d.status = Append(c.status, "BRANCH")
        BY <2>2, <4>1, RootEntered DEF DatabaseInv
      <4>3. l + 1 = 1
        BY <3>1
      <4> QED BY <2>5, <3>1, <4>2, <4>3
    <3>2. CASE l # 0
      <4>1. /\ CopySound(d, l + 1, size) /\ FlagsOf(d) /\ d.todo = c.todo
            /\ d.status = Append(c.status, r.status)
        BY <2>2, <2>6, <2>7, <3>2, ChildEntered DEF DatabaseInv, LoadingKept
      <4> QED BY <2>5, <3>2, <4>1
    <3> QED BY <3>1, <3>2
  <2>9. ASSUME NEW q \in file.rows \ d.todo
        PROVE  d.status[q.nid + 1] = IF q.nid = Root THEN "BRANCH" ELSE q.status
    <3>1. PICK st : st = IF l = 0 THEN "BRANCH" ELSE r.status
      OBVIOUS
    <3>2. st \in Statuses /\ copy.status \in Seq(Statuses)
      BY <2>4, <2>7, <3>1 DEF RowFits, CopySound, Statuses
    <3>3. /\ d.status[l + 1] = st
          /\ \A n \in 0 .. l - 1 : d.status[n + 1] = copy.status[n + 1]
      BY <2>1, <2>8, <3>1, <3>2, Added
    <3>4. CASE q = r
      BY <1>6, <2>1, <3>1, <3>3, <3>4 DEF Root
    <3>5. CASE q # r
      <4>1. q \in file.rows \ copy.todo
        BY <2>1, <2>8, <2>9, <3>5
      <4>2. q.nid \in 0 .. l - 1
        BY <1>2, <2>1, <4>1 DEF DatabaseInv, CopyKept
      <4> QED BY <2>4, <3>3, <4>1, <4>2
    <3> QED BY <3>4, <3>5
  <2> QED BY <1>2, <2>1, <2>3, <2>8, <2>9, CopyIs DEF DatabaseInv
<1>7. app' = "loading" => CopyTree'
  BY <1>1, <1>6
<1> QED BY <1>2, <1>3, <1>4, <1>5, <1>7 DEF LoadingKept

LEMMA LoadTablesTrue ==
  ASSUME DatabaseInv, LoadingKept, LoadTables
  PROVE  LoadingKept'
<1>1. /\ app = "loading" /\ app' = "loaded" /\ copy' = [copy EXCEPT !.notes = file.notes]
      /\ UNCHANGED <<structureVars, restarts, status, notes, building, save, file>>
  BY DEF LoadTables
<1>2. PICK d, l, size : d = copy' /\ l = Len(copy.status) /\ size = Cardinality(file.rows)
  OBVIOUS
<1>3. /\ CopySound(copy, l, size) /\ FlagsOf(copy) /\ CopyForm(copy)
      /\ \A q \in file.rows \ copy.todo :
           copy.status[q.nid + 1] = IF q.nid = Root THEN "BRANCH" ELSE q.status
  BY <1>1, <1>2 DEF LoadingKept, CopyTree, CopySound
<1>4. /\ CopyForm(d) /\ d.nodes = copy.nodes /\ d.status = copy.status /\ d.open = copy.open
      /\ d.solved = copy.solved /\ d.todo = copy.todo /\ d.notes = file.notes
  <2>1. d = [nodes |-> copy.nodes, status |-> copy.status, open |-> copy.open,
             solved |-> copy.solved, notes |-> file.notes, todo |-> copy.todo]
    BY <1>1, <1>2, <1>3 DEF CopyForm
  <2> QED BY <2>1 DEF CopyForm
<1>5. CopySound(d, l, size) /\ FlagsOf(d)
  BY <1>3, <1>4, CopySame DEF DatabaseInv
<1>6. CopyTree'
  BY <1>1, <1>2, <1>3, <1>4, <1>5, CopyIs DEF DatabaseInv
<1>7. RowsTrue'
  <2>1. Rows' = Rows
    BY <1>1 DEF Rows
  <2> QED BY <1>1, <2>1, RowsStay
<1>8. NotesKept'
  <2>1. /\ copy'.notes = file'.notes /\ notes' = notes /\ save' = save /\ file' = file
        /\ NodesSaved' = NodesSaved /\ (RowsDone' <=> RowsDone)
    BY <1>1, <1>2, <1>4 DEF NodesSaved, RowsDone
  <2> QED BY <2>1 DEF LoadingKept, NotesKept
<1>9. Ascending'
  BY <1>1, TreeSame DEF DatabaseInv, LoadingKept
<1> QED BY <1>6, <1>7, <1>8, <1>9 DEF LoadingKept

-----------------------------------------------------------------------------
(* A load gives back what was saved *)

LEMMA LoadingStarts ==
  DatabaseInit => LoadingKept
<1> SUFFICES ASSUME DatabaseInit PROVE LoadingKept
  OBVIOUS
<1>1. NodeIDs = {}
  <2>1. Len(nodes) = 0 /\ 0 .. 0 - 1 = {}
    BY EmptySeq DEF DatabaseInit, StructureInit
  <2> QED BY <2>1 DEF NodeIDs, NodeCount
<1>2. app = "idle" /\ save = NoSave /\ file = EmptyFile
  BY DEF DatabaseInit
<1>3. save.order = <<>> /\ save.batch = {} /\ save.table = 1
  BY <1>2 DEF NoSave
<1>4. file.rows = {} /\ file.notes = NoNotes
  BY <1>2 DEF EmptyFile
<1>5. Rows = {} /\ ToSet(save.order) = {}
  BY <1>3, <1>4 DEF Rows, ToSet
<1>6. Ascending
  BY <1>1 DEF Ascending
<1>7. RowsTrue
  BY <1>2, <1>5 DEF RowsTrue
<1>8. NotesKept
  <2>1. NoNotes \in [TableNames -> SUBSET Nat]
    BY DEF NoNotes
  <2> QED BY <1>2, <1>3, <1>4, <2>1 DEF NotesKept
<1> QED BY <1>2, <1>6, <1>7, <1>8 DEF LoadingKept

LEMMA LoadingStep ==
  ASSUME FaithfulInv, [DatabaseNext]_vars
  PROVE  LoadingKept'
<1>1. DatabaseInv /\ LoadingKept
  BY DEF FaithfulInv
<1>2. CASE \/ \E k \in 0 .. MaxKids : Start(k)
           \/ \E n \in NodeIDs, k \in 0 .. MaxKids, st \in Reported : Promote(n, k, st)
           \/ NewRestart \/ CreateKid \/ FinishBuilding \/ UNCHANGED vars
  BY <1>1, <1>2, BuildersKept
<1>3. ASSUME NEW n, RemoveNode(n) \/ ToggleBookmark(n) PROVE LoadingKept'
  BY <1>1, <1>3, UserStepsKept
<1>4. CASE BeginSave
  BY <1>1, <1>4, BeginSaveTrue
<1>5. CASE SaveRow(TRUE)
  BY <1>5, SaveRowTrue
<1>6. CASE SaveRow(FALSE)
  BY <1>6, SaveRowTrue
<1>7. CASE SaveTable
  BY <1>1, <1>7, SaveTableTrue
<1>8. CASE Crash
  BY <1>1, <1>8, CrashTrue
<1>9. CASE BeginLoad
  BY <1>1, <1>9, BeginLoadTrue
<1>10. CASE LoadRow
  BY <1>1, <1>10, LoadRowTrue
<1>11. CASE LoadTables
  BY <1>1, <1>11, LoadTablesTrue
<1> QED BY <1>2, <1>3, <1>4, <1>5, <1>6, <1>7, <1>8, <1>9, <1>10, <1>11 DEF DatabaseNext

\* The children of a copied node are those of its children that were saved.
LEMMA CopiedList ==
  ASSUME StructureInv, NEW ns, NEW l \in 0 .. NodeCount, NEW n \in 0 .. l - 1, Copied(ns, l, n)
  PROVE  CopyList(ns, n) = Those(Lists[n + 1], 0 .. l - 1)
<1> DEFINE q == CopyList(ns, n)
           s == Lists[n + 1]
           k == Len(q)
           S == 0 .. l - 1
<1>1. NodeCount \in Nat /\ NodeIDs = 0 .. NodeCount - 1 /\ n \in NodeIDs /\ l \in Nat
  <2>1. NodeCount \in Nat /\ NodeIDs = 0 .. NodeCount - 1
    BY TreeFacts
  <2> QED BY <2>1
<1>2. Kids[n] \in Seq(Int) /\ Len(Kids[n]) \in Nat
  BY <1>1, TreeFacts
<1>3. s = OneList(Kids[n], filling, n)
  BY <1>1, ListsAre, ListsInIs
<1>4. /\ s \in Seq(Int) /\ Len(s) = Len(Kids[n])
      /\ \A a \in 1 .. Len(Kids[n]) : s[a] = IF filling.pid = n => a <= filling.alt THEN Kids[n][a] ELSE Garbage
  BY <1>2, <1>3, OneListIs
<1>5. /\ q \in Seq(Int) /\ k \in Nat /\ k <= Len(Kids[n])
      /\ \A a \in 1 .. k : Held(Kids, filling, n, a) /\ q[a] = Kids[n][a] /\ Kids[n][a] < l
      /\ \A a : Held(Kids, filling, n, a) /\ Kids[n][a] < l => a <= k
  BY CopyListIs DEF Copied
<1> HIDE DEF q, s, k
<1>6. k \in 0 .. Len(s)
  BY <1>2, <1>4, <1>5
<1>7. ASSUME NEW a \in 1 .. k PROVE s[a] \in S /\ s[a] = q[a]
  <2>1. Held(Kids, filling, n, a) /\ q[a] = Kids[n][a] /\ Kids[n][a] < l
    BY <1>5
  <2>2. s[a] = Kids[n][a]
    BY <1>4, <2>1 DEF Held
  <2>3. Kids[n][a] \in n + 1 .. NodeCount - 1 /\ n \in Nat
    BY <1>1, <2>1, TreeFacts
  <2> QED BY <1>1, <2>1, <2>2, <2>3
<1>8. ASSUME NEW a \in k + 1 .. Len(s) PROVE s[a] \notin S
  <2>1. a \in 1 .. Len(Kids[n]) /\ ~(a <= k)
    BY <1>2, <1>4, <1>5
  <2>2. CASE filling.pid = n => a <= filling.alt
    <3>1. Held(Kids, filling, n, a) /\ s[a] = Kids[n][a]
      BY <1>4, <2>1, <2>2 DEF Held
    <3>2. ~(Kids[n][a] < l)
      BY <1>5, <2>1, <3>1
    <3> QED BY <1>1, <3>1, <3>2
  <2>3. CASE ~(filling.pid = n => a <= filling.alt)
    <3>1. s[a] = Garbage
      BY <1>4, <2>1, <2>3
    <3> QED BY <3>1 DEF Garbage
  <2> QED BY <2>2, <2>3
<1>9. Those(s, S) = [a \in 1 .. k |-> s[a]]
  <2> HIDE DEF S
  <2> QED BY <1>4, <1>6, <1>7, <1>8, ThosePrefix
<1>10. q = [a \in 1 .. k |-> q[a]]
  BY <1>5, LenProperties, SeqDef DEF k
<1>11. [a \in 1 .. k |-> s[a]] = [a \in 1 .. k |-> q[a]]
  BY <1>7
<1> QED BY <1>9, <1>10, <1>11 DEF q, s

LEMMA InvLoaded ==
  FaithfulInv => LoadedFaithful
<1> SUFFICES ASSUME FaithfulInv PROVE LoadedFaithful
  OBVIOUS
<1>1. DatabaseInv /\ BranchesKept /\ RowsTrue /\ NotesKept /\ StructureInv
      /\ (app \in {"loading", "loaded"} => CopyTree)
  BY DEF FaithfulInv, LoadingKept, DatabaseInv
<1>2. ASSUME app = "loaded" PROVE LoadedAsSaved
  <2> DEFINE l == Len(copy.status)
  <2>1. /\ CopySound(copy, l, Cardinality(file.rows))
        /\ \A r \in file.rows : copy.status[r.nid + 1] = IF r.nid = Root THEN "BRANCH" ELSE r.status
        /\ NodesSaved = 0 .. l - 1
    <3>1. copy.todo = {} /\ {r.nid : r \in file.rows \ copy.todo} = 0 .. l - 1 /\ CopyTree
      BY <1>1, <1>2 DEF DatabaseInv, CopyKept
    <3>2. file.rows \ copy.todo = file.rows
      BY <3>1
    <3> QED BY <3>1, <3>2 DEF CopyTree, NodesSaved
  <2> HIDE DEF l
  <2>2. CopyIDs = NodesSaved
    BY <2>1 DEF CopyIDs, l
  <2>3. NodeCount \in Nat /\ NodeIDs = 0 .. NodeCount - 1 /\ l \in 0 .. NodeCount
    BY <1>1, <2>1, TreeFacts DEF CopySound
  <2>4. ASSUME NEW n \in CopyIDs
        PROVE  /\ copy.nodes[n + 1].parent = ParentOf(n)
               /\ [a \in 1 .. ChildrenCount(copy.nodes[n + 1]) |-> GetChild(copy.nodes[n + 1], a - 1)]
                    = Those(Lists[n + 1], NodesSaved)
               /\ \/ copy.status[n + 1] = StatusOf(n)
                  \/ copy.status[n + 1] = "UNDETERMINED" /\ save.grows
    <3>1. n \in 0 .. l - 1 /\ n \in NodeIDs
      <4>1. n \in 0 .. l - 1
        BY <2>1, <2>2
      <4> QED BY <2>3, <4>1
    <3>2. Copied(copy.nodes, l, n)
      BY <2>1, <3>1 DEF CopySound
    <3>3. copy.nodes[n + 1].parent = ParentOf(n)
      BY <3>1, <3>2 DEF Copied, Parents
    <3>4. CopyList(copy.nodes, n) = Those(Lists[n + 1], NodesSaved)
      BY <1>1, <2>1, <2>3, <3>1, <3>2, CopiedList
    <3>5. PICK r \in file.rows : r.nid = n
      BY <2>2 DEF NodesSaved
    <3>6. RowTrue(r)
      BY <1>1 DEF RowsTrue, Rows
    <3>7. copy.status[n + 1] = IF n = Root THEN "BRANCH" ELSE r.status
      BY <2>1, <3>5
    <3>8. copy.status[n + 1] = StatusOf(n) \/ (copy.status[n + 1] = "UNDETERMINED" /\ save.grows)
      BY <1>1, <3>1, <3>5, <3>6, <3>7 DEF RowTrue, BranchesKept
    <3> QED BY <3>3, <3>4, <3>8 DEF CopyList, KidSeq
  <2> QED BY <2>2, <2>4 DEF LoadedAsSaved
<1>3. LoadedFlags
  <2> SUFFICES ASSUME app \in {"loading", "loaded"} PROVE LoadedFlags
    BY DEF LoadedFlags
  <2>1. FlagsOf(copy)
    BY <1>1 DEF CopyTree
  <2>2. ASSUME NEW n \in CopyIDs
        PROVE  /\ copy.solved[n + 1] <=> \E m \in CopyBelow(n) : copy.status[m + 1] = "SOLVED"
               /\ (\A m \in CopyBelow(n) : CopyLeaf(m) => copy.status[m + 1] \in ClosingStatuses)
                    => ~copy.open[n + 1]
    <3>1. \A m : m \in CopyBelow(n) <=> m \in CopyIDs /\ n \in UpToRoot(copy, m)
      BY DEF CopyBelow
    <3>2. \A m : CopyLeaf(m) <=> CopyKids(copy, m) = {}
      BY DEF CopyLeaf
    <3> QED BY <2>1, <3>1, <3>2 DEF FlagsOf, CopyIDs
  <2> QED BY <2>2 DEF LoadedFlags
<1>4. NotesComeAfterNodes
  <2>1. ASSUME NEW t \in TableNames, file.notes[t] # {} PROVE save.table > 1
    <3>1. save.table # 1
      BY <1>1, <2>1 DEF NotesKept, NoNotes
    <3>2. save.table \in 1 .. 4
      BY <1>1 DEF DatabaseInv, SaveKept
    <3> QED BY <3>1, <3>2
  <2>2. save.table > 1 => /\ RowsDone /\ (save.failed \/ NodesSaved = ToSet(save.order))
                          /\ file.notes["Bookmarks"] = notes["Bookmarks"]
    BY <1>1 DEF NotesKept
  <2>3. app = "loaded" => copy.notes = file.notes
    BY <1>1 DEF NotesKept
  <2> QED BY <2>1, <2>2, <2>3 DEF NotesComeAfterNodes
<1>5. LoadedAsSaved
  BY <1>2 DEF LoadedAsSaved
<1> QED BY <1>3, <1>4, <1>5 DEF LoadedFaithful

\* What is loaded is what was saved, although the builder goes on promoting
\* nodes while rows are written, although inserts may fail and the program may
\* stop in between: every saved node gets its parent, its place and a status it
\* had, and after every row the flags say what the statuses do
\* (db_handler.cpp:57-95 and 340-438, structure.cpp:143-163,
\* node_tree.cpp:106-127).
THEOREM LoadsWhatWasSaved == Spec => []LoadedFaithful
<1>1. DatabaseInit => FaithfulInv
  BY DatabaseStarts, BranchesStart, LoadingStarts DEF FaithfulInv
<1>2. FaithfulInv /\ [DatabaseNext]_vars => FaithfulInv'
  <2> SUFFICES ASSUME FaithfulInv, [DatabaseNext]_vars PROVE FaithfulInv'
    OBVIOUS
  <2>1. DatabaseInv /\ BranchesKept
    BY DEF FaithfulInv
  <2>2. DatabaseInv'
    BY <2>1, StepsKept
  <2>3. BranchesKept'
    BY <2>1, <2>2, BranchesStep
  <2>4. LoadingKept'
    BY LoadingStep
  <2> QED BY <2>2, <2>3, <2>4 DEF FaithfulInv
<1> QED BY <1>1, <1>2, InvLoaded, PTL DEF Spec

=============================================================================
